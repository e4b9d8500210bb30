\* Two cleartext clients with up to two writes each, failing accepts and
\* reads.
CONSTANTS
    MaxClients = 2
    MaxWrites = 2
    UseTLS = FALSE
    AcceptMayFail = TRUE
    ReadMayFail = TRUE

SPECIFICATION Spec

INVARIANT TypeOK
INVARIANT ClientFreedOnlyWhenIdle
INVARIANT PendingWritesAccurate
