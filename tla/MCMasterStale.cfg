\* Worker crashes while the master keeps accepting.
CONSTANTS
    NumWorkers = 2
    Listeners <- MCListeners
    l1 = l1
    l2 = l2
    MaxConns = 3
    WorkersMayCrash = TRUE
    AcceptMayFail = FALSE

SPECIFICATION Spec

INVARIANT NoStaleWorkerRead
