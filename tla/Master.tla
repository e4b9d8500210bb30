------------------------------- MODULE Master -------------------------------
(***************************************************************************)
(* The master process of the server (src/server.c): it accepts TCP         *)
(* connections on its listeners, hands each accepted socket to a worker    *)
(* process by a uv_write2 on the worker's control pipe (round robin), and  *)
(* shuts down on SIGINT/SIGTERM or when every worker has gone, stopping    *)
(* its event loop once every handle it counts has been closed.             *)
(*                                                                         *)
(* Every action is one libuv callback of the master's single-threaded      *)
(* loop, run to completion.  The worker processes are the environment:     *)
(* one may exit at any time (WorkersMayCrash) and one that was sent        *)
(* SIGTERM eventually exits.  Connections are identified by the order in   *)
(* which they are accepted, 1..MaxConns.                                   *)
(***************************************************************************)
EXTENDS Naturals, FiniteSets

CONSTANTS
    NumWorkers,      \* server->config->num_workers
    Listeners,       \* the configured listen addresses
    MaxConns,        \* bound on the number of accept callbacks explored
    WorkersMayCrash, \* a worker process may exit without being killed
    AcceptMayFail    \* uv_accept may fail (EMFILE, ECONNABORTED, ...)

ASSUME ConstantsAssumption ==
    /\ NumWorkers \in Nat \ {0}
    /\ Listeners # {} /\ IsFiniteSet(Listeners)
    /\ MaxConns \in Nat
    /\ WorkersMayCrash \in BOOLEAN
    /\ AcceptMayFail \in BOOLEAN

Workers  == 0 .. NumWorkers - 1
NoWorker == NumWorkers
Conns    == 1 .. MaxConns

\* The three signal handles the master opens in server_init.
Signals   == {"SIGPIPE", "SIGINT", "SIGTERM"}
StopSigs  == {"SIGINT", "SIGTERM"}

VARIABLES
    slot,          \* worker_process_t lifecycle: "running" (process handle
                   \* active), "exiting" (exit_cb ran, process handle
                   \* closing), "pipeClosing" (pipe closing), "freed"
    stopped,       \* worker->stopped
    killed,        \* SIGTERM has been sent to the worker process
    listener,      \* "listening" | "closing" | "closed"
    signal,        \* "active" | "closing" | "closed"
    rr,            \* server->round_robin_counter
    stopping,      \* server->stopping
    activeWorkers, activeListeners, activeHandlers, \* server->active_*
    loopStopped,   \* uv_stop has been called on the master loop
    nextConn,      \* the next accept callback creates connection nextConn
    cmem,          \* server_client_t memory: "none" | "alloc" | "freed"
    chandle,       \* its uv_tcp_t: "none" | "open" | "closing" | "closed"
    cwrite,        \* its uv_write2: "none" | "pending" | "ok" | "error"
                   \* | "lost" (write2 refused: no callback will ever run)
    target,        \* the worker the socket was written to
    staleRead      \* a freed worker_process_t has been dereferenced

workerVars == <<slot, stopped, killed>>
serverVars == <<listener, signal, rr, stopping, activeWorkers,
                activeListeners, activeHandlers, loopStopped>>
connVars   == <<nextConn, cmem, chandle, cwrite, target>>
vars == <<workerVars, serverVars, connVars, staleRead>>

-----------------------------------------------------------------------------
(* server_init: the three signal handles initialised and counted; no     *)
(* worker or listener yet, the round-robin counter at zero.                *)
ServerInit ==
    /\ signal = [s \in Signals |-> "active"]
    /\ activeHandlers = 3
    /\ rr = 0
    /\ stopping = FALSE
    /\ loopStopped = FALSE

(* setup_workers: every worker process spawned with its pipe, not stopped; *)
(* active_workers counts them (a failed uv_spawn ends server_run).         *)
SetupWorkers ==
    /\ slot = [w \in Workers |-> "running"]
    /\ stopped = [w \in Workers |-> FALSE]
    /\ killed = [w \in Workers |-> FALSE]
    /\ activeWorkers = NumWorkers

(* server_run: the signal handlers started, every listen address bound    *)
(* and listening, active_listeners counting them; then the loop runs,     *)
(* with no connection accepted yet.                                        *)
ServerRun ==
    /\ listener = [l \in Listeners |-> "listening"]
    /\ activeListeners = Cardinality(Listeners)
    /\ nextConn = 1
    /\ cmem = [c \in Conns |-> "none"]
    /\ chandle = [c \in Conns |-> "none"]
    /\ cwrite = [c \in Conns |-> "none"]
    /\ target = [c \in Conns |-> NoWorker]
    /\ staleRead = FALSE

Init == ServerInit /\ SetupWorkers /\ ServerRun

-----------------------------------------------------------------------------
(* The test of server_stop_continue: no worker, listener or signal handle *)
(* is left open.                                                           *)
\* Slip: the worker count left out of the test.
AllClosedIgnoringWorkers(aw, al, ah) == al < 1 /\ ah < 1
AllClosed(aw, al, ah) == aw < 1 /\ al < 1 /\ ah < 1

(* The workers server_stop sends SIGTERM to.  The loop reads stopped of    *)
(* every slot of server->workers, the freed ones included; what it reads   *)
(* there is arbitrary, and a kill of a reaped pid changes nothing of the   *)
(* master's state, so only the live slots matter here.                     *)
\* Slip: the kill loop dropped.
ToKillNone(aw) == {}
ToKill(aw) ==
    IF aw > 0 THEN {w \in Workers : slot[w] # "freed" /\ ~stopped[w]} ELSE {}

(* round_robin_counter after a dispatch. *)
\* Slips: the modulo forgotten; the counter not advanced.
NextWorkerNoWrap == rr + 1
NextWorkerStuck == rr
NextWorker == (rr + 1) % NumWorkers

(* server_stop, given the values of the active_* counters at the call and *)
(* the signal and listener handles as the caller leaves them.  Reading a   *)
(* freed slot in the kill loop is recorded in staleRead.  The trailing     *)
(* server_stop_continue can only reach uv_stop, as stopping is now set.    *)
ServerStop(aw, al, ah, sig, lis) ==
    IF stopping
    THEN /\ signal' = sig
         /\ listener' = lis
         /\ UNCHANGED <<stopped, killed, stopping, loopStopped, staleRead>>
    ELSE LET toKill == ToKill(aw)
         IN /\ stopping' = TRUE
            /\ signal' = [s \in Signals |-> "closing"]
            /\ listener' = [l \in Listeners |-> "closing"]
            /\ stopped' = [w \in Workers |-> stopped[w] \/ w \in toKill]
            /\ killed' = [w \in Workers |-> killed[w] \/ w \in toKill]
            /\ staleRead' = (staleRead \/ (aw > 0 /\ \E w \in Workers : slot[w] = "freed"))
            /\ loopStopped' = AllClosed(aw, al, ah)

\* Slip: server_stop on the loss of any worker, not only the last.
ServerStopContinueOnAnyExit(aw, al, ah, sig, lis) ==
    IF AllClosed(aw, al, ah)
    THEN /\ loopStopped' = TRUE
         /\ signal' = sig
         /\ listener' = lis
         /\ UNCHANGED <<stopped, killed, stopping, staleRead>>
    ELSE IF aw < NumWorkers
         THEN ServerStop(aw, al, ah, sig, lis)
         ELSE /\ signal' = sig
              /\ listener' = lis
              /\ UNCHANGED <<stopped, killed, stopping, loopStopped, staleRead>>

(* server_stop_continue, given the counters after the caller's decrement  *)
(* and the signal and listener handles as the caller leaves them.          *)
ServerStopContinue(aw, al, ah, sig, lis) ==
    IF AllClosed(aw, al, ah)
    THEN /\ loopStopped' = TRUE
         /\ signal' = sig
         /\ listener' = lis
         /\ UNCHANGED <<stopped, killed, stopping, staleRead>>
    ELSE IF aw < 1
         THEN ServerStop(aw, al, ah, sig, lis)
         ELSE /\ signal' = sig
              /\ listener' = lis
              /\ UNCHANGED <<stopped, killed, stopping, loopStopped, staleRead>>

-----------------------------------------------------------------------------
(* What uv_write2 of a socket to a worker's pipe leads to, by the state  *)
(* of the worker: queued ("pending") while the pipe is open; refused with  *)
(* UV_EBADF, its callback never run ("lost"), once the pipe is closing;    *)
(* either, on a freed record.                                              *)
Write2Outcomes(st) ==
    CASE st \in {"running", "exiting"} -> {"pending"}
      [] st = "pipeClosing"           -> {"lost"}
      [] st = "freed"                 -> {"pending", "lost"}

(* server_on_new_connection on listener l.  On a successful uv_accept the  *)
(* socket is written with uv_write2 to workers[round_robin_counter], which *)
(* may be a worker whose process has exited: uv_write2 on a pipe already  *)
(* being closed fails with UV_EBADF, the result is ignored and             *)
(* on_write_complete never runs; on a freed record anything can happen.    *)
(* On a failed uv_accept the server_client_t is freed before uv_close is   *)
(* called on the uv_tcp_t it contains.                                     *)
ServerOnNewConnection(l) ==
    /\ ~loopStopped
    /\ listener[l] = "listening"
    /\ nextConn \in Conns
    /\ LET c == nextConn IN
       /\ nextConn' = nextConn + 1
       /\ \/ /\ chandle' = [chandle EXCEPT ![c] = "open"]
             /\ cmem' = [cmem EXCEPT ![c] = "alloc"]
             /\ target' = [target EXCEPT ![c] = rr]
             /\ \E outcome \in Write2Outcomes(slot[rr]) :
                   cwrite' = [cwrite EXCEPT ![c] = outcome]
             /\ staleRead' = (staleRead \/ slot[rr] = "freed")
             /\ rr' = NextWorker
          \/ /\ AcceptMayFail
             /\ chandle' = [chandle EXCEPT ![c] = "closing"]
             /\ cmem' = [cmem EXCEPT ![c] = "freed"]
             /\ UNCHANGED <<cwrite, target, rr, staleRead>>
    /\ UNCHANGED <<workerVars, listener, signal, stopping, activeWorkers,
                   activeListeners, activeHandlers, loopStopped>>

\* Slip: the server_client_t freed in on_write_complete, before its close.
OnWriteCompleteFreeFirst(c) ==
    /\ ~loopStopped
    /\ cwrite[c] = "pending"
    /\ \E status \in IF slot[target[c]] = "running" THEN {"ok", "error"} ELSE {"error"} :
          cwrite' = [cwrite EXCEPT ![c] = status]
    /\ chandle' = [chandle EXCEPT ![c] = "closing"]
    /\ cmem' = [cmem EXCEPT ![c] = "freed"]
    /\ UNCHANGED <<workerVars, serverVars, nextConn, target, staleRead>>

(* on_write_complete: the write of connection c's socket to its worker     *)
(* finished (status 0 when the worker's pipe took it, an error once the    *)
(* worker is gone); either way the master closes its copy of the socket.   *)
OnWriteComplete(c) ==
    /\ ~loopStopped
    /\ cwrite[c] = "pending"
    /\ \E status \in IF slot[target[c]] = "running" THEN {"ok", "error"} ELSE {"error"} :
          cwrite' = [cwrite EXCEPT ![c] = status]
    /\ chandle' = [chandle EXCEPT ![c] = "closing"]
    /\ UNCHANGED <<workerVars, serverVars, nextConn, cmem, target, staleRead>>

(* client_handle_closed, or the close of a handle uv_close'd with no       *)
(* callback: the server_client_t is freed only by the callback.            *)
ClientHandleClosed(c) ==
    /\ ~loopStopped
    /\ chandle[c] = "closing"
    /\ chandle' = [chandle EXCEPT ![c] = "closed"]
    /\ cmem' = [cmem EXCEPT ![c] = "freed"]
    /\ UNCHANGED <<workerVars, serverVars, nextConn, cwrite, target, staleRead>>

(* close_process_handle: the exit callback of worker w's process.  The     *)
(* process exits after a SIGTERM, or on its own when WorkersMayCrash.      *)
CloseProcessHandle(w) ==
    /\ ~loopStopped
    /\ slot[w] = "running"
    /\ killed[w] \/ WorkersMayCrash
    /\ stopped' = [stopped EXCEPT ![w] = TRUE]
    /\ slot' = [slot EXCEPT ![w] = "exiting"]
    /\ UNCHANGED <<killed, serverVars, connVars, staleRead>>

(* process_handle_closed: the process handle is closed; close the pipe.    *)
ProcessHandleClosed(w) ==
    /\ ~loopStopped
    /\ slot[w] = "exiting"
    /\ slot' = [slot EXCEPT ![w] = "pipeClosing"]
    /\ UNCHANGED <<stopped, killed, serverVars, connVars, staleRead>>

(* worker_pipe_closed.  Closing the pipe first cancels the uv_write2       *)
(* requests still queued on it: their on_write_complete runs with          *)
(* UV_ECANCELED before this close callback.  Then the worker_process_t is  *)
(* freed (its pointer stays in server->workers), active_workers is         *)
(* decremented and server_stop_continue runs.                              *)
WorkerPipeClosed(w) ==
    /\ ~loopStopped
    /\ slot[w] = "pipeClosing"
    /\ LET cancelled == {c \in Conns : target[c] = w /\ cwrite[c] = "pending"} IN
       /\ cwrite' = [c \in Conns |-> IF c \in cancelled THEN "error" ELSE cwrite[c]]
       /\ chandle' = [c \in Conns |-> IF c \in cancelled THEN "closing" ELSE chandle[c]]
    /\ slot' = [slot EXCEPT ![w] = "freed"]
    /\ activeWorkers' = activeWorkers - 1
    /\ ServerStopContinue(activeWorkers - 1, activeListeners, activeHandlers,
                          signal, listener)
    /\ UNCHANGED <<rr, activeListeners, activeHandlers, nextConn, cmem, target>>

(* server_sigint_handler / server_sigterm_handler.  SIGPIPE is only        *)
(* logged and is not an action.                                            *)
StopSignal(s) ==
    /\ ~loopStopped
    /\ signal[s] = "active"
    /\ ServerStop(activeWorkers, activeListeners, activeHandlers, signal, listener)
    /\ UNCHANGED <<slot, rr, activeWorkers, activeListeners, activeHandlers, connVars>>

(* handler_closed: a signal handle closed by server_stop. *)
HandlerClosed(s) ==
    /\ ~loopStopped
    /\ signal[s] = "closing"
    /\ activeHandlers' = activeHandlers - 1
    /\ ServerStopContinue(activeWorkers, activeListeners, activeHandlers - 1,
                          [signal EXCEPT ![s] = "closed"], listener)
    /\ UNCHANGED <<slot, rr, activeWorkers, activeListeners, connVars>>

(* tcp_listener_closed: a listener closed by server_stop. *)
TcpListenerClosed(l) ==
    /\ ~loopStopped
    /\ listener[l] = "closing"
    /\ activeListeners' = activeListeners - 1
    /\ ServerStopContinue(activeWorkers, activeListeners - 1, activeHandlers,
                          signal, [listener EXCEPT ![l] = "closed"])
    /\ UNCHANGED <<slot, rr, activeWorkers, activeHandlers, connVars>>

(* uv_run has returned: the master process exits. *)
Exited ==
    /\ loopStopped
    /\ UNCHANGED vars

Next ==
    \/ \E l \in Listeners : ServerOnNewConnection(l) \/ TcpListenerClosed(l)
    \/ \E c \in Conns : OnWriteComplete(c) \/ ClientHandleClosed(c)
    \/ \E w \in Workers :
          CloseProcessHandle(w) \/ ProcessHandleClosed(w) \/ WorkerPipeClosed(w)
    \/ \E s \in StopSigs : StopSignal(s)
    \/ \E s \in Signals : HandlerClosed(s)
    \/ Exited

(* libuv runs every close and write callback that is due, and a worker    *)
(* sent SIGTERM (which it does not handle) dies.  Accepts, signals and     *)
(* spontaneous worker exits come from outside and are not fair.            *)
Fairness ==
    /\ \A c \in Conns : WF_vars(OnWriteComplete(c)) /\ WF_vars(ClientHandleClosed(c))
    /\ \A w \in Workers : /\ WF_vars(killed[w] /\ CloseProcessHandle(w))
                          /\ WF_vars(ProcessHandleClosed(w))
                          /\ WF_vars(WorkerPipeClosed(w))
    /\ \A s \in Signals : WF_vars(HandlerClosed(s))
    /\ \A l \in Listeners : WF_vars(TcpListenerClosed(l))

Spec == Init /\ [][Next]_vars
FairSpec == Spec /\ Fairness


-----------------------------------------------------------------------------
(* Properties.                                                             *)

TypeOK ==
    /\ slot \in [Workers -> {"running", "exiting", "pipeClosing", "freed"}]
    /\ stopped \in [Workers -> BOOLEAN]
    /\ killed \in [Workers -> BOOLEAN]
    /\ listener \in [Listeners -> {"listening", "closing", "closed"}]
    /\ signal \in [Signals -> {"active", "closing", "closed"}]
    /\ rr \in Workers
    /\ stopping \in BOOLEAN
    /\ activeWorkers \in 0 .. NumWorkers
    /\ activeListeners \in 0 .. Cardinality(Listeners)
    /\ activeHandlers \in 0 .. 3
    /\ loopStopped \in BOOLEAN
    /\ nextConn \in 1 .. MaxConns + 1
    /\ cmem \in [Conns -> {"none", "alloc", "freed"}]
    /\ chandle \in [Conns -> {"none", "open", "closing", "closed"}]
    /\ cwrite \in [Conns -> {"none", "pending", "ok", "error", "lost"}]
    /\ target \in [Conns -> Workers \cup {NoWorker}]
    /\ staleRead \in BOOLEAN

(* The master stops its loop (server_stop_continue's uv_stop) only once    *)
(* every worker's pipe has been closed and its record released, every      *)
(* listener and every signal handle closed: the three active_* counters    *)
(* never reach zero while a handle they count is still open, whatever the  *)
(* order in which worker exits, signals and close callbacks arrive.        *)
LoopStopsQuiescent ==
    loopStopped =>
        /\ \A w \in Workers : slot[w] = "freed"
        /\ \A l \in Listeners : listener[l] = "closed"
        /\ \A s \in Signals : signal[s] = "closed"

(* Accepted sockets are dealt round robin (server_on_new_connection and    *)
(* round_robin_counter): after k sockets have been handed out, worker w    *)
(* has received exactly ceil((k - w) / N) of them, so worker 0 got the     *)
(* first, worker 1 the second, and so on, crashes and failed accepts       *)
(* notwithstanding.                                                        *)
Handed == {c \in Conns : target[c] # NoWorker}
RoundRobin ==
    \A w \in Workers :
        Cardinality({c \in Handed : target[c] = w})
            = (Cardinality(Handed) + NumWorkers - 1 - w) \div NumWorkers

(* A server_client_t is freed only after the uv_tcp_t inside it has been   *)
(* closed by the loop (client_handle_closed), never while libuv still      *)
(* holds the handle.                                                       *)
ClientFreedAfterClose ==
    \A c \in Conns : cmem[c] = "freed" => chandle[c] = "closed"

(* The master never dereferences a worker_process_t after                  *)
(* worker_pipe_closed has freed it: neither to dispatch a socket nor in    *)
(* server_stop's kill loop.                                                *)
NoStaleWorkerRead == ~staleRead

(* Once shutdown has begun (a signal, or every worker gone), the master's  *)
(* loop eventually stops: SIGTERM reaches every live worker and every      *)
(* close callback the counters wait for eventually runs.                   *)
ShutdownCompletes == (stopping \/ activeWorkers = 0) ~> loopStopped

(* Every socket the master accepts is eventually closed in the master      *)
(* (after its handoff to a worker, or its failure), unless the master      *)
(* exits first.                                                            *)
SocketReleased ==
    \A c \in Conns : (chandle[c] = "open") ~> (chandle[c] = "closed" \/ loopStopped)

-----------------------------------------------------------------------------
(* The master as an implementation of ServerLifecycle.  A worker is live   *)
(* until worker_pipe_closed frees its record; a listener or signal handle  *)
(* is open until its close callback has run; the phase is read off         *)
(* server->stopping and whether uv_stop has been called.                   *)
MasterHandles ==
    {<<"listener", l>> : l \in Listeners} \cup {<<"signal", s>> : s \in Signals}

\* What the active_* counters count.
LiveWorkers    == {w \in Workers : slot[w] # "freed"}
OpenListeners  == {l \in Listeners : listener[l] # "closed"}
OpenSignals    == {s \in Signals : signal[s] # "closed"}

LCPhase == IF loopStopped THEN "stopped" ELSE IF stopping THEN "stopping" ELSE "running"
LCOpen  == {<<"listener", l>> : l \in OpenListeners} \cup {<<"signal", s>> : s \in OpenSignals}

LC == INSTANCE ServerLifecycle
        WITH Handles <- MasterHandles, phase <- LCPhase, live <- LiveWorkers, open <- LCOpen

(* The master's callbacks, taken together, keep the promise of             *)
(* ServerLifecycle: stopping begins only on SIGINT/SIGTERM or when the last *)
(* worker's pipe has closed, a worker record or handle once released stays  *)
(* released, only a stopping master closes its handles, and uv_stop is     *)
(* called exactly when the last of them goes.                              *)
ImplementsLifecycle == LC!Spec

=============================================================================
