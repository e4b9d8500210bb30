\* A read error while the HTTP layer's shutdown is still pending.
CONSTANTS
    MaxClients = 1
    MaxWrites = 2
    UseTLS = FALSE
    AcceptMayFail = FALSE
    ReadMayFail = TRUE

SPECIFICATION Spec

INVARIANT NoDoubleClose
