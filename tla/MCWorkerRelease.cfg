\* Under TLS: every client the HTTP layer closes, or whose handle closes, is
\* eventually freed when the peer reads.  Read errors are left out: with a
\* shutdown pending they lead to the double uv_close of worker_double_close.
CONSTANTS
    MaxClients = 2
    MaxWrites = 2
    UseTLS = TRUE
    AcceptMayFail = FALSE
    ReadMayFail = FALSE

SPECIFICATION FairSpec

PROPERTY ClientReleased
