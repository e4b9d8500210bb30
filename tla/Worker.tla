------------------------------- MODULE Worker -------------------------------
(***************************************************************************)
(* One worker process (src/worker.c): it reads accepted sockets from its   *)
(* control pipe, wraps each in a client_t with an HTTP connection, reads   *)
(* from it, writes what the HTTP layer produces, and tears the client down *)
(* by uv_shutdown and uv_close.                                            *)
(*                                                                         *)
(* Every action is one callback of the worker's libuv loop, run to         *)
(* completion, together with whatever the HTTP layer does synchronously   *)
(* from inside it (a Reaction: a write through app_write_cb and/or a       *)
(* close through app_close_cb).  The HTTP layer is not under src/; its     *)
(* reactions are chosen freely, except that it neither writes nor closes  *)
(* after it has closed (spec 5: close tears the connection down).          *)
(*                                                                         *)
(* libuv semantics the model relies on:                                    *)
(*  - uv_write on a stream that is shut down (EPIPE) or closing (EBADF)    *)
(*    fails at once and its callback never runs;                           *)
(*  - uv_shutdown fails (ENOTCONN) unless the stream is open and not yet   *)
(*    shut down or shutting; the request then leaks;                       *)
(*  - a shutdown completes only once the write queue is empty;             *)
(*  - finishing a uv_close runs, in this order, the callbacks of the       *)
(*    queued writes and of a pending shutdown with UV_ECANCELED, then the  *)
(*    close callback; uv_close on a closing handle is an assertion         *)
(*    failure, which aborts the process.                                   *)
(***************************************************************************)
EXTENDS Naturals

CONSTANTS
    MaxClients,     \* bound on the sockets handed to this worker
    MaxWrites,      \* bound on client->pending_writes
    UseTLS,         \* worker->config->use_tls
    AcceptMayFail,  \* uv_accept of a passed socket may fail
    ReadMayFail     \* a read may fail (ECONNRESET, ...)

ASSUME WorkerConstantsAssumption ==
    /\ MaxClients \in Nat \ {0}
    /\ MaxWrites \in Nat \ {0}
    /\ UseTLS \in BOOLEAN
    /\ AcceptMayFail \in BOOLEAN
    /\ ReadMayFail \in BOOLEAN

Clients == 1 .. MaxClients

(* The state of one client_t and of its uv_tcp_t:                         *)
(*  mem:        "none" | "alloc" | "freed"  (malloc / client_free)        *)
(*  tcp:        "none" | "open" | "closing" | "closed"                    *)
(*  closeCb:    uv_close was given app_close_finished (not NULL)          *)
(*  closing:    client->closing                                           *)
(*  shut:       "none" | "pending" | "done": the stream's shutdown        *)
(*  pending:    client->pending_writes                                    *)
(*  queued:     uv_write requests whose callback is still to run          *)
(*  eof:        client->eof (libuv stops reading after EOF)               *)
(*  httpClosed: the HTTP layer has called app_close_cb                    *)
ClientState ==
    [mem: {"none", "alloc", "freed"}, tcp: {"none", "open", "closing", "closed"},
     closeCb: BOOLEAN, closing: BOOLEAN, shut: {"none", "pending", "done"},
     pending: 0 .. MaxWrites, queued: 0 .. MaxWrites, eof: BOOLEAN,
     httpClosed: BOOLEAN]

NoClient ==
    [mem |-> "none", tcp |-> "none", closeCb |-> FALSE, closing |-> FALSE,
     shut |-> "none", pending |-> 0, queued |-> 0, eof |-> FALSE,
     httpClosed |-> FALSE]

VARIABLES
    cl,           \* cl[c]: the client handed over c-th
    nextClient,   \* the next socket read from the pipe becomes client nextClient
    pipeOpen,     \* worker->queue is reading (not yet closed)
    terminate,    \* worker->terminate
    loopStopped,  \* uv_stop has been called on the worker loop
    crashed       \* the process aborted on a libuv assertion

vars == <<cl, nextClient, pipeOpen, terminate, loopStopped, crashed>>

Running == ~loopStopped /\ ~crashed

-----------------------------------------------------------------------------
(* worker_init and worker_run: the pipe reading, no client yet. *)
Init ==
    /\ cl = [c \in Clients |-> NoClient]
    /\ nextClient = 1
    /\ pipeOpen = TRUE
    /\ terminate = FALSE
    /\ loopStopped = FALSE
    /\ crashed = FALSE

-----------------------------------------------------------------------------
(* The helpers below map a client's state to its state after one call.    *)

(* worker_write_to_network: pending_writes is incremented and uv_write     *)
(* issued; the write is queued only on an open stream not shut down.       *)
\* Slips: the increment of pending_writes dropped; written as a decrement.
WorkerWriteToNetworkUncounted(r) ==
    [r EXCEPT !.queued = IF r.tcp = "open" /\ r.shut = "none" THEN @ + 1 ELSE @]
WorkerWriteToNetworkDecrement(r) ==
    [r EXCEPT !.pending = @ - 1,
              !.queued = IF r.tcp = "open" /\ r.shut = "none" THEN @ + 1 ELSE @]
WorkerWriteToNetwork(r) ==
    [r EXCEPT !.pending = @ + 1,
              !.queued = IF r.tcp = "open" /\ r.shut = "none" THEN @ + 1 ELSE @]

(* worker_close: a malloc'd uv_shutdown_t; uv_shutdown succeeds only on an *)
(* open stream with no shutdown yet (otherwise the request leaks).         *)
WorkerClose(r) ==
    IF r.tcp = "open" /\ r.shut = "none" THEN [r EXCEPT !.shut = "pending"] ELSE r

(* app_write_cb: the HTTP layer's bytes go to worker_write_to_network,    *)
(* directly or as the records tls_encrypt_data_and_pass_to_network makes. *)
AppWriteCb(r) == WorkerWriteToNetwork(r)

(* app_close_cb: the HTTP layer closes the connection: worker_close. *)
AppCloseCb(r) == WorkerClose([r EXCEPT !.httpClosed = TRUE])

(* What the HTTP layer may do from inside a callback: write one more      *)
(* buffer, then possibly close.  After it has closed it does nothing.      *)
NoReaction == [write |-> FALSE, close |-> FALSE]
Reactions(r) ==
    IF r.httpClosed THEN {NoReaction}
    ELSE {x \in [write: BOOLEAN, close: BOOLEAN] : x.write => r.pending < MaxWrites}

React(r, x) ==
    LET w == IF x.write THEN AppWriteCb(r) ELSE r
    IN  IF x.close THEN AppCloseCb(w) ELSE w

-----------------------------------------------------------------------------
(* worker_on_new_connection: a socket arrives on the pipe.  A client_t is  *)
(* allocated with its HTTP connection; uv_accept either succeeds and       *)
(* reading starts, or fails and the handle is closed with a NULL callback. *)
(* An error or EOF on the pipe closes it.                                  *)
WorkerOnNewConnection ==
    /\ Running
    /\ pipeOpen
    /\ \/ /\ nextClient \in Clients
          /\ \E accepted \in IF AcceptMayFail THEN BOOLEAN ELSE {TRUE} :
                cl' = [cl EXCEPT ![nextClient] =
                         [NoClient EXCEPT !.mem = "alloc",
                                          !.tcp = IF accepted THEN "open" ELSE "closing"]]
          /\ nextClient' = nextClient + 1
          /\ UNCHANGED pipeOpen
       \/ /\ pipeOpen' = FALSE
          /\ UNCHANGED <<cl, nextClient>>
    /\ UNCHANGED <<terminate, loopStopped, crashed>>

\* Slip: a read error frees the client at once instead of closing the handle.
WorkerReadFromNetworkFreeOnError(c) ==
    /\ Running
    /\ cl[c].tcp = "open"
    /\ ~cl[c].eof
    /\ LET r == cl[c] IN
       \/ /\ ReadMayFail
          /\ cl' = [cl EXCEPT ![c] = [r EXCEPT !.mem = "freed"]]
       \/ \E x \in Reactions(r) :
             cl' = [cl EXCEPT ![c] = React([r EXCEPT !.eof = TRUE], x)]
       \/ \E x \in Reactions(r) :
             cl' = [cl EXCEPT ![c] = React(r, x)]
       \/ /\ UseTLS
          /\ cl' = [cl EXCEPT ![c] = WorkerClose(r)]
    /\ UNCHANGED <<nextClient, pipeOpen, terminate, loopStopped, crashed>>

(* worker_read_from_network on client c.  A read error closes the handle   *)
(* (app_close_finished) without setting client->closing; EOF sets eof and  *)
(* tells the HTTP layer; data goes to the HTTP layer, through TLS when     *)
(* configured, where a decryption failure calls worker_close instead.      *)
WorkerReadFromNetwork(c) ==
    /\ Running
    /\ cl[c].tcp = "open"
    /\ ~cl[c].eof
    /\ LET r == cl[c] IN
       \/ /\ ReadMayFail
          /\ cl' = [cl EXCEPT ![c] = [r EXCEPT !.tcp = "closing", !.closeCb = TRUE]]
       \/ \E x \in Reactions(r) :
             cl' = [cl EXCEPT ![c] = React([r EXCEPT !.eof = TRUE], x)]
       \/ \E x \in Reactions(r) :
             cl' = [cl EXCEPT ![c] = React(r, x)]
       \/ /\ UseTLS
          /\ cl' = [cl EXCEPT ![c] = WorkerClose(r)]
    /\ UNCHANGED <<nextClient, pipeOpen, terminate, loopStopped, crashed>>

(* app_write_finished: a queued write of c completed.  pending_writes is   *)
(* decremented; when it reaches zero http_finished_writes tells the HTTP   *)
(* layer, which may react.                                                 *)
AppWriteFinished(c) ==
    /\ Running
    /\ cl[c].tcp = "open"
    /\ cl[c].queued > 0
    /\ LET r == [cl[c] EXCEPT !.pending = @ - 1, !.queued = @ - 1] IN
       \E x \in IF r.pending = 0 THEN Reactions(r) ELSE {NoReaction} :
          cl' = [cl EXCEPT ![c] = React(r, x)]
    /\ UNCHANGED <<nextClient, pipeOpen, terminate, loopStopped, crashed>>

\* Slip: the shutdown callback frees its request but never closes the handle.
UvCbShutdownNoClose(c) ==
    /\ Running
    /\ cl[c].tcp = "open"
    /\ cl[c].shut = "pending"
    /\ cl[c].queued = 0
    /\ cl' = [cl EXCEPT ![c] = [@ EXCEPT !.shut = "done"]]
    /\ UNCHANGED <<nextClient, pipeOpen, terminate, loopStopped, crashed>>

(* uv_cb_shutdown on completion of c's shutdown (every write flushed):     *)
(* unless client->closing, set it and close the handle.                    *)
UvCbShutdown(c) ==
    /\ Running
    /\ cl[c].tcp = "open"
    /\ cl[c].shut = "pending"
    /\ cl[c].queued = 0
    /\ cl' = [cl EXCEPT ![c] =
                IF ~@.closing
                THEN [@ EXCEPT !.shut = "done", !.closing = TRUE, !.tcp = "closing",
                               !.closeCb = TRUE]
                ELSE [@ EXCEPT !.shut = "done"]]
    /\ UNCHANGED <<nextClient, pipeOpen, terminate, loopStopped, crashed>>

(* The close of c's handle finishes.  Each queued write's                  *)
(* app_write_finished runs with UV_ECANCELED (the last one may wake the    *)
(* HTTP layer, whose writes now fail with EBADF and whose close fails);    *)
(* then a pending shutdown's uv_cb_shutdown, which calls uv_close again   *)
(* unless client->closing: an abort; then app_close_finished frees the     *)
(* client, or nothing for a NULL callback.                                 *)
CloseFinished(c) ==
    /\ Running
    /\ cl[c].tcp = "closing"
    /\ LET r == [cl[c] EXCEPT !.pending = @ - cl[c].queued, !.queued = 0] IN
       \E x \in IF cl[c].queued > 0 /\ r.pending = 0 THEN Reactions(r)
                ELSE {NoReaction} :
          LET s == React(r, x) IN
          IF s.shut = "pending" /\ ~s.closing
          THEN /\ crashed' = TRUE
               /\ UNCHANGED cl
          ELSE /\ cl' = [cl EXCEPT ![c] =
                           [s EXCEPT !.tcp = "closed",
                                     !.shut = IF @ = "pending" THEN "done" ELSE @,
                                     !.mem = IF s.closeCb THEN "freed" ELSE @]]
               /\ UNCHANGED crashed
    /\ UNCHANGED <<nextClient, pipeOpen, terminate, loopStopped>>

(* A response the HTTP layer produces later, on its own (a plugin's        *)
(* result posted back to the loop): a write and/or a close.                *)
HttpRespond(c) ==
    /\ Running
    /\ cl[c].mem = "alloc"
    /\ cl[c].tcp # "none"
    /\ \E x \in Reactions(cl[c]) \ {NoReaction} :
          cl' = [cl EXCEPT ![c] = React(@, x)]
    /\ UNCHANGED <<nextClient, pipeOpen, terminate, loopStopped, crashed>>

(* worker_stop: the plugins stopped, then uv_stop on the loop. *)
WorkerStop == loopStopped' = TRUE

(* worker_sigint_handler: the first SIGINT sets terminate and runs         *)
(* worker_stop.                                                            *)
WorkerSigintHandler ==
    /\ Running
    /\ ~terminate
    /\ terminate' = TRUE
    /\ WorkerStop
    /\ UNCHANGED <<cl, nextClient, pipeOpen, crashed>>

(* uv_run has returned, or the process has aborted. *)
Exited ==
    /\ ~Running
    /\ UNCHANGED vars

Next ==
    \/ WorkerOnNewConnection
    \/ \E c \in Clients :
          \/ WorkerReadFromNetwork(c)
          \/ AppWriteFinished(c)
          \/ UvCbShutdown(c)
          \/ CloseFinished(c)
          \/ HttpRespond(c)
    \/ WorkerSigintHandler
    \/ Exited

(* libuv runs the callback of a shutdown once the write queue in front of *)
(* it is flushed, and finishes every close it has started.  A write        *)
(* completes only when the peer reads, so write completions are not fair:  *)
(* neither are reads, new sockets, the HTTP layer's own responses and      *)
(* signals, which come from outside.                                       *)
Fairness ==
    \A c \in Clients : /\ WF_vars(UvCbShutdown(c))
                       /\ WF_vars(CloseFinished(c))

Spec == Init /\ [][Next]_vars
FairSpec == Spec /\ Fairness

-----------------------------------------------------------------------------
(* Properties.                                                             *)

TypeOK ==
    /\ cl \in [Clients -> ClientState]
    /\ nextClient \in 1 .. MaxClients + 1
    /\ pipeOpen \in BOOLEAN
    /\ terminate \in BOOLEAN
    /\ loopStopped \in BOOLEAN
    /\ crashed \in BOOLEAN

(* A client_t is freed (app_close_finished) only when libuv holds nothing *)
(* of it any more: its handle closed, no write and no shutdown whose      *)
(* callback, which dereferences the client, is still to run.               *)
ClientFreedOnlyWhenIdle ==
    \A c \in Clients :
        cl[c].mem = "freed" => /\ cl[c].tcp = "closed"
                               /\ cl[c].queued = 0
                               /\ cl[c].shut # "pending"

(* While a client's socket is open, client->pending_writes counts exactly *)
(* the writes whose app_write_finished is still to come, so that           *)
(* http_finished_writes fires when they have all completed (spec 4.4).     *)
PendingWritesAccurate ==
    \A c \in Clients : cl[c].tcp = "open" => cl[c].pending = cl[c].queued

(* The worker never calls uv_close twice on a client's handle (a libuv     *)
(* assertion, or a double client_free without assertions).                 *)
NoDoubleClose == ~crashed

(* A peer that keeps reading: every write libuv has queued completes.      *)
(* worker.c has no timeout, so a client whose peer stops reading keeps its *)
(* writes and its shutdown queued, and is never freed.                     *)
PeerReads == \A c \in Clients : WF_vars(AppWriteFinished(c))

(* With a peer that reads, once the HTTP layer has closed a connection, or *)
(* its handle is being closed, the client_t is eventually freed by         *)
(* app_close_finished, unless worker_stop has stopped the loop.  A crash   *)
(* (the double uv_close) does not count as a release.                      *)
ClientReleased ==
    PeerReads =>
        \A c \in Clients :
            (cl[c].httpClosed \/ cl[c].tcp = "closing")
                ~> (cl[c].mem = "freed" \/ loopStopped)

=============================================================================
