\* Two workers, two listeners, three accepted connections: enough for the
\* round-robin counter to wrap and for a worker to crash before, during and
\* after a dispatch to it.  Accepts succeed (a failed accept breaks
\* ClientFreedAfterClose, see MCMasterAcceptFail.cfg).
CONSTANTS
    NumWorkers = 2
    Listeners <- MCListeners
    l1 = l1
    l2 = l2
    MaxConns = 3
    WorkersMayCrash = TRUE
    AcceptMayFail = FALSE

SPECIFICATION Spec

INVARIANT TypeOK
INVARIANT LoopStopsQuiescent
INVARIANT RoundRobin
INVARIANT ClientFreedAfterClose
PROPERTY ImplementsLifecycle
