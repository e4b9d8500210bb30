--------------------------- MODULE ServerLifecycle ---------------------------
(***************************************************************************)
(* What the master process promises about its own lifetime, stated        *)
(* without libuv, counters or callbacks.  The master runs with a set of    *)
(* worker processes and a set of handles it owns (listeners and signal     *)
(* handles).  It starts stopping on a signal, or once no worker is left;   *)
(* while stopping it releases its handles one by one; it halts exactly     *)
(* when no worker and no handle is left, and never before.  Nothing comes  *)
(* back: a released worker or handle stays released, and a stopping        *)
(* master never runs again.                                                *)
(***************************************************************************)
CONSTANTS
    Workers,  \* the worker processes the master starts
    Handles   \* the handles the master owns and must close before halting

VARIABLES
    phase,  \* "running" | "stopping" | "stopped"
    live,   \* workers whose record the master still holds
    open    \* handles not yet closed

lvars == <<phase, live, open>>

Phases == {"running", "stopping", "stopped"}

\* Nothing is left for the master to wait for.
Drained(l, o) == l = {} /\ o = {}

\* The phase after a release leaves l and o, from a stopping master.
AfterRelease(l, o) == IF Drained(l, o) THEN "stopped" ELSE "stopping"

Init ==
    /\ phase = "running"
    /\ live = Workers
    /\ open = Handles

\* A signal asks a running master to stop.
Stop ==
    /\ phase = "running"
    /\ phase' = AfterRelease(live, open)
    /\ UNCHANGED <<live, open>>

\* A worker's record is released.  A running master keeps running while a
\* worker remains; losing the last one makes it stop.
WorkerGone(w) ==
    /\ phase # "stopped"
    /\ w \in live
    /\ live' = live \ {w}
    /\ phase' = IF phase = "running" /\ live' # {} THEN "running"
                ELSE AfterRelease(live', open)
    /\ UNCHANGED open

\* A stopping master closes one of its handles.
HandleClosed(h) ==
    /\ phase = "stopping"
    /\ h \in open
    /\ open' = open \ {h}
    /\ phase' = AfterRelease(live, open')
    /\ UNCHANGED live

Next ==
    \/ Stop
    \/ \E w \in live : WorkerGone(w)
    \/ \E h \in open : HandleClosed(h)

Spec == Init /\ [][Next]_lvars

=============================================================================
