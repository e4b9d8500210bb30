\* A socket whose uv_accept fails in the worker.
CONSTANTS
    MaxClients = 1
    MaxWrites = 2
    UseTLS = FALSE
    AcceptMayFail = TRUE
    ReadMayFail = FALSE

SPECIFICATION FairSpec

PROPERTY ClientReleased
