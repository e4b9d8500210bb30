\* TLS: a decryption failure shuts the socket down behind the HTTP layer's back.
CONSTANTS
    MaxClients = 1
    MaxWrites = 2
    UseTLS = TRUE
    AcceptMayFail = FALSE
    ReadMayFail = FALSE

SPECIFICATION Spec

INVARIANT PendingWritesAccurate
