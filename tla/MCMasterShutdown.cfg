\* Liveness is checked on a smaller instance: one listener, two accepted
\* connections, two workers that may crash; every shutdown path (signal
\* first, workers first, both interleaved) is reachable.
CONSTANTS
    NumWorkers = 2
    Listeners <- MCOneListener
    l1 = l1
    l2 = l2
    MaxConns = 2
    WorkersMayCrash = TRUE
    AcceptMayFail = TRUE

SPECIFICATION FairSpec

PROPERTY ShutdownCompletes
