\* Liveness of the socket hand-off: one listener, two accepted connections,
\* workers that may crash: every descriptor handed to a worker is eventually
\* closed in the master.
CONSTANTS
    NumWorkers = 2
    Listeners <- MCOneListener
    l1 = l1
    l2 = l2
    MaxConns = 2
    WorkersMayCrash = TRUE
    AcceptMayFail = FALSE

SPECIFICATION FairSpec

PROPERTY SocketReleased
