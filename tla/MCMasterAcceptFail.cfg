\* The accept error path of server_on_new_connection.
CONSTANTS
    NumWorkers = 2
    Listeners <- MCListeners
    l1 = l1
    l2 = l2
    MaxConns = 3
    WorkersMayCrash = TRUE
    AcceptMayFail = TRUE

SPECIFICATION Spec

INVARIANT ClientFreedAfterClose
