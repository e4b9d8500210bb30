---------------------------- MODULE WorkerProofs ----------------------------
(***************************************************************************)
(* Proofs about one worker (Worker.tla), for every number of clients and   *)
(* every bound on writes.                                                  *)
(*                                                                         *)
(* The invariant is stated client by client (ClientInv): every callback    *)
(* of worker.c changes one client_t, so it suffices that the new record of *)
(* that client satisfies ClientInv again.  Besides the freeing discipline  *)
(* itself it needs that libuv never holds more writes of a client than     *)
(* client->pending_writes counts: app_write_finished and the cancellations *)
(* of a close decrement pending_writes by one per write libuv gives back, *)
(* and without this bound the counter would leave its range.               *)
(*                                                                         *)
(* In cleartext, PendingWritesAccurate needs one more fact per client      *)
(* (ClearInv): while the socket is open a shutdown has only been started   *)
(* by the HTTP layer closing, after which it writes nothing, so no write  *)
(* is counted that libuv refused.  Under TLS this fails (a decryption      *)
(* failure calls worker_close behind the HTTP layer), which the            *)
(* worker_tls_writes run shows.                                            *)
(***************************************************************************)
EXTENDS Worker, TLAPS

(* The properties of one client record that every step keeps. *)
ClientInv(r) ==
    /\ r \in ClientState
    /\ r.queued <= r.pending
    /\ r.mem = "freed" => r.tcp = "closed" /\ r.queued = 0 /\ r.shut # "pending"

IInv ==
    /\ cl \in [Clients -> ClientState]
    /\ \A c \in Clients : ClientInv(cl[c])
    /\ nextClient \in 1 .. MaxClients + 1
    /\ pipeOpen \in BOOLEAN
    /\ terminate \in BOOLEAN
    /\ loopStopped \in BOOLEAN
    /\ crashed \in BOOLEAN

-----------------------------------------------------------------------------
(* Facts about what the HTTP layer's reactions do to a client record.      *)

(* Doing nothing is always among the reactions. *)
LEMMA NoReactionAllowed ==
    ASSUME NEW r \in ClientState
    PROVE  NoReaction \in Reactions(r)
BY DEF Reactions, NoReaction

(* The reactions open to the HTTP layer depend only on whether it has      *)
(* closed and on pending_writes.                                           *)
LEMMA ReactionsSame ==
    ASSUME NEW r, NEW q, q.httpClosed = r.httpClosed, q.pending = r.pending
    PROVE  Reactions(q) = Reactions(r)
BY DEF Reactions

(* worker_close keeps ClientInv and only ever starts a shutdown, on an     *)
(* open stream.                                                            *)
LEMMA WorkerCloseInv ==
    ASSUME NEW r, ClientInv(r)
    PROVE  LET s == WorkerClose(r) IN
           /\ ClientInv(s)
           /\ s.mem = r.mem /\ s.tcp = r.tcp /\ s.closeCb = r.closeCb
           /\ s.closing = r.closing /\ s.queued = r.queued
           /\ s.pending = r.pending
           /\ r.tcp # "open" => s.shut = r.shut
BY DEF WorkerClose, ClientInv, ClientState

(* app_write_cb below the bound keeps ClientInv: pending_writes and the   *)
(* writes libuv holds both grow by at most one, and on a stream that is    *)
(* not open libuv takes nothing.                                           *)
LEMMA AppWriteCbInv ==
    ASSUME NEW r, ClientInv(r), r.pending < MaxWrites
    PROVE  LET s == AppWriteCb(r) IN
           /\ ClientInv(s)
           /\ s.mem = r.mem /\ s.tcp = r.tcp /\ s.closeCb = r.closeCb
           /\ s.closing = r.closing /\ s.shut = r.shut
           /\ s.httpClosed = r.httpClosed
           /\ r.tcp # "open" => s.queued = r.queued
<1>1. /\ r \in ClientState /\ r.queued <= r.pending
      /\ r.pending \in 0 .. MaxWrites /\ r.queued \in 0 .. MaxWrites
      /\ MaxWrites \in Nat
  BY WorkerConstantsAssumption DEF ClientInv, ClientState
<1>2. /\ r.pending + 1 \in 0 .. MaxWrites
      /\ (IF r.tcp = "open" /\ r.shut = "none" THEN r.queued + 1 ELSE r.queued)
           \in 0 .. MaxWrites
      /\ (IF r.tcp = "open" /\ r.shut = "none" THEN r.queued + 1 ELSE r.queued)
           <= r.pending + 1
  BY <1>1
<1>3. AppWriteCb(r) \in ClientState
  BY <1>1, <1>2, Zenon DEF AppWriteCb, WorkerWriteToNetwork, ClientState
<1>. QED  BY <1>1, <1>2, <1>3 DEF AppWriteCb, WorkerWriteToNetwork, ClientInv

(* app_close_cb keeps ClientInv and touches neither the handle nor the     *)
(* memory; on a stream that is not open it starts nothing.                 *)
LEMMA AppCloseCbInv ==
    ASSUME NEW r, ClientInv(r)
    PROVE  LET s == AppCloseCb(r) IN
           /\ ClientInv(s)
           /\ s.mem = r.mem /\ s.tcp = r.tcp /\ s.closeCb = r.closeCb
           /\ s.closing = r.closing
           /\ r.tcp # "open" => s.queued = r.queued /\ s.shut = r.shut
<1>1. ClientInv([r EXCEPT !.httpClosed = TRUE])
  <2>1. [r EXCEPT !.httpClosed = TRUE] \in ClientState
    BY Zenon DEF ClientInv, ClientState
  <2>. QED  BY <2>1 DEF ClientInv
<1>2. LET q == [r EXCEPT !.httpClosed = TRUE] IN
      /\ q.mem = r.mem /\ q.tcp = r.tcp /\ q.closeCb = r.closeCb
      /\ q.closing = r.closing /\ q.queued = r.queued /\ q.shut = r.shut
  BY DEF ClientInv, ClientState
<1>3. LET q == [r EXCEPT !.httpClosed = TRUE]
          s == WorkerClose(q) IN
      /\ ClientInv(s)
      /\ s.mem = q.mem /\ s.tcp = q.tcp /\ s.closeCb = q.closeCb
      /\ s.closing = q.closing /\ s.queued = q.queued
      /\ q.tcp # "open" => s.shut = q.shut
  BY <1>1, WorkerCloseInv
<1>. QED  BY <1>2, <1>3 DEF AppCloseCb

(* A reaction of the HTTP layer (a write through app_write_cb, a close     *)
(* through app_close_cb) keeps ClientInv: pending_writes stays within its *)
(* bound because a write is offered only below MaxWrites, and the          *)
(* handle, its close callback and the memory are left alone.  On a stream *)
(* that is not open, libuv takes no write and no shutdown.                 *)
LEMMA ReactInv ==
    ASSUME NEW r, ClientInv(r), NEW x \in Reactions(r)
    PROVE  LET s == React(r, x) IN
           /\ ClientInv(s)
           /\ s.mem = r.mem /\ s.tcp = r.tcp /\ s.closeCb = r.closeCb
           /\ s.closing = r.closing
           /\ r.tcp # "open" => s.queued = r.queued /\ s.shut = r.shut
<1>1. x.write \in BOOLEAN /\ x.close \in BOOLEAN /\ (x.write => r.pending < MaxWrites)
  <2>1. r.httpClosed \in BOOLEAN
    BY DEF ClientInv, ClientState
  <2>2. CASE r.httpClosed
    <3>1. x = NoReaction
      BY <2>2 DEF Reactions
    <3>. QED  BY <3>1 DEF NoReaction
  <2>3. CASE ~r.httpClosed
    BY <2>3 DEF Reactions
  <2>. QED  BY <2>1, <2>2, <2>3
<1>2. CASE x.write
  <2>1. r.pending < MaxWrites
    BY <1>1, <1>2
  <2>2. ClientInv(AppWriteCb(r))
    BY <2>1, AppWriteCbInv
  <2>3. React(r, x) = IF x.close THEN AppCloseCb(AppWriteCb(r)) ELSE AppWriteCb(r)
    BY <1>2 DEF React
  <2>4. LET s == AppWriteCb(r) IN
        /\ s.mem = r.mem /\ s.tcp = r.tcp /\ s.closeCb = r.closeCb
        /\ s.closing = r.closing /\ s.shut = r.shut
        /\ r.tcp # "open" => s.queued = r.queued
    BY <2>1, AppWriteCbInv
  <2>5. LET w == AppWriteCb(r)
            s == AppCloseCb(w) IN
        /\ ClientInv(s)
        /\ s.mem = w.mem /\ s.tcp = w.tcp /\ s.closeCb = w.closeCb
        /\ s.closing = w.closing
        /\ w.tcp # "open" => s.queued = w.queued /\ s.shut = w.shut
    BY <2>2, AppCloseCbInv
  <2>. QED  BY <2>2, <2>3, <2>4, <2>5
<1>3. CASE ~x.write
  BY <1>1, <1>3, AppCloseCbInv DEF React
<1>. QED  BY <1>2, <1>3

-----------------------------------------------------------------------------
(* Every callback changes one client record: IInv is kept when the new     *)
(* record satisfies ClientInv.                                             *)
LEMMA UpdateClient ==
    ASSUME IInv, NEW c \in Clients, NEW nr, ClientInv(nr),
           cl' = [cl EXCEPT ![c] = nr],
           nextClient' \in 1 .. MaxClients + 1, pipeOpen' \in BOOLEAN,
           terminate' \in BOOLEAN, loopStopped' \in BOOLEAN, crashed' \in BOOLEAN
    PROVE  IInv'
<1>1. nr \in ClientState
  BY DEF ClientInv
<1>2. cl' \in [Clients -> ClientState]
  BY <1>1 DEF IInv
<1>3. \A d \in Clients : ClientInv(cl'[d])
  BY DEF IInv
<1>. QED  BY <1>2, <1>3 DEF IInv

(* A client whose handle is open or closing has not been freed. *)
LEMMA NotFreedWhileHandle ==
    ASSUME IInv, NEW c \in Clients, cl[c].tcp \in {"open", "closing"}
    PROVE  cl[c].mem # "freed" /\ ClientInv(cl[c])
BY DEF IInv, ClientInv

(* worker_on_new_connection: the record of the next client is a fresh     *)
(* client_t, accepted or not; or the pipe closes.                          *)
LEMMA OnNewConnectionInv ==
    ASSUME IInv, WorkerOnNewConnection
    PROVE  IInv'
<1>1. CASE /\ nextClient \in Clients
           /\ \E accepted \in IF AcceptMayFail THEN BOOLEAN ELSE {TRUE} :
                cl' = [cl EXCEPT ![nextClient] =
                         [NoClient EXCEPT !.mem = "alloc",
                                          !.tcp = IF accepted THEN "open" ELSE "closing"]]
           /\ nextClient' = nextClient + 1
           /\ UNCHANGED <<pipeOpen, terminate, loopStopped, crashed>>
  <2>1. PICK accepted \in BOOLEAN :
          cl' = [cl EXCEPT ![nextClient] =
                   [NoClient EXCEPT !.mem = "alloc",
                                    !.tcp = IF accepted THEN "open" ELSE "closing"]]
    BY <1>1, WorkerConstantsAssumption
  <2>2. [NoClient EXCEPT !.mem = "alloc", !.tcp = IF accepted THEN "open" ELSE "closing"]
          \in ClientState
    <3>1. 0 \in 0 .. MaxWrites
      BY WorkerConstantsAssumption
    <3>. QED  BY <3>1, Zenon DEF NoClient, ClientState
  <2>3. ClientInv([NoClient EXCEPT !.mem = "alloc",
                                   !.tcp = IF accepted THEN "open" ELSE "closing"])
    <3>1. /\ [NoClient EXCEPT !.mem = "alloc",
                              !.tcp = IF accepted THEN "open" ELSE "closing"].mem = "alloc"
          /\ [NoClient EXCEPT !.mem = "alloc",
                              !.tcp = IF accepted THEN "open" ELSE "closing"].queued = 0
          /\ [NoClient EXCEPT !.mem = "alloc",
                              !.tcp = IF accepted THEN "open" ELSE "closing"].pending = 0
      BY Zenon DEF NoClient
    <3>. QED  BY <2>2, <3>1 DEF ClientInv
  <2>4. nextClient' \in 1 .. MaxClients + 1
    BY <1>1, WorkerConstantsAssumption DEF Clients
  <2>. QED  BY <1>1, <2>1, <2>3, <2>4, UpdateClient DEF IInv
<1>2. CASE pipeOpen' = FALSE /\ UNCHANGED <<cl, nextClient, terminate, loopStopped, crashed>>
  BY <1>2 DEF IInv
<1>. QED  BY <1>1, <1>2 DEF WorkerOnNewConnection

(* worker_read_from_network: a read error starts the close, data or EOF   *)
(* go to the HTTP layer, a TLS failure runs worker_close.                  *)
LEMMA ReadFromNetworkInv ==
    ASSUME IInv, NEW c \in Clients, WorkerReadFromNetwork(c)
    PROVE  IInv'
<1> DEFINE r == cl[c]
<1>0. /\ r.tcp = "open" /\ r.mem # "freed" /\ ClientInv(r)
      /\ UNCHANGED <<nextClient, pipeOpen, terminate, loopStopped, crashed>>
      /\ nextClient \in 1 .. MaxClients + 1 /\ pipeOpen \in BOOLEAN
      /\ terminate \in BOOLEAN /\ loopStopped \in BOOLEAN /\ crashed \in BOOLEAN
  BY NotFreedWhileHandle DEF WorkerReadFromNetwork, IInv
<1>1. CASE cl' = [cl EXCEPT ![c] = [r EXCEPT !.tcp = "closing", !.closeCb = TRUE]]
  <2>1. [r EXCEPT !.tcp = "closing", !.closeCb = TRUE] \in ClientState
    BY <1>0, Zenon DEF ClientInv, ClientState
  <2>2. ClientInv([r EXCEPT !.tcp = "closing", !.closeCb = TRUE])
    BY <1>0, <2>1 DEF ClientInv, ClientState
  <2>. QED  BY <1>0, <1>1, <2>2, UpdateClient
<1>2. CASE \E x \in Reactions(r) : cl' = [cl EXCEPT ![c] = React([r EXCEPT !.eof = TRUE], x)]
  <2>1. PICK x \in Reactions(r) : cl' = [cl EXCEPT ![c] = React([r EXCEPT !.eof = TRUE], x)]
    BY <1>2
  <2>2. [r EXCEPT !.eof = TRUE] \in ClientState
    BY <1>0, Zenon DEF ClientInv, ClientState
  <2>3. ClientInv([r EXCEPT !.eof = TRUE])
    BY <1>0, <2>2 DEF ClientInv, ClientState
  <2>4. x \in Reactions([r EXCEPT !.eof = TRUE])
    <3>1. Reactions([r EXCEPT !.eof = TRUE]) = Reactions(r)
      BY <1>0, ReactionsSame DEF ClientInv, ClientState
    <3>. QED  BY <2>1, <3>1
  <2>5. ClientInv(React([r EXCEPT !.eof = TRUE], x))
    BY <2>3, <2>4, ReactInv
  <2>. QED  BY <1>0, <2>1, <2>5, UpdateClient
<1>3. CASE \E x \in Reactions(r) : cl' = [cl EXCEPT ![c] = React(r, x)]
  <2>1. PICK x \in Reactions(r) : cl' = [cl EXCEPT ![c] = React(r, x)]
    BY <1>3
  <2>2. ClientInv(React(r, x))
    BY <1>0, ReactInv
  <2>. QED  BY <1>0, <2>1, <2>2, UpdateClient
<1>4. CASE cl' = [cl EXCEPT ![c] = WorkerClose(r)]
  <2>1. ClientInv(WorkerClose(r))
    BY <1>0, WorkerCloseInv
  <2>. QED  BY <1>0, <1>4, <2>1, UpdateClient
<1>. QED  BY <1>1, <1>2, <1>3, <1>4 DEF WorkerReadFromNetwork

(* The scalar variables keep their types when a callback leaves them alone. *)
LEMMA ScalarsUnchanged ==
    ASSUME IInv, UNCHANGED <<nextClient, pipeOpen, terminate, loopStopped, crashed>>
    PROVE  /\ nextClient' \in 1 .. MaxClients + 1 /\ pipeOpen' \in BOOLEAN
           /\ terminate' \in BOOLEAN /\ loopStopped' \in BOOLEAN /\ crashed' \in BOOLEAN
BY DEF IInv

(* app_write_finished: one write given back, pending_writes decremented,   *)
(* and at zero the HTTP layer may react.                                   *)
LEMMA AppWriteFinishedInv ==
    ASSUME IInv, NEW c \in Clients, AppWriteFinished(c)
    PROVE  IInv'
<1> DEFINE r == [cl[c] EXCEPT !.pending = @ - 1, !.queued = @ - 1]
<1>1. /\ cl[c].tcp = "open" /\ cl[c].queued > 0 /\ cl[c].mem # "freed"
      /\ ClientInv(cl[c])
      /\ UNCHANGED <<nextClient, pipeOpen, terminate, loopStopped, crashed>>
  BY NotFreedWhileHandle DEF AppWriteFinished
<1>2. /\ cl[c].pending - 1 \in 0 .. MaxWrites /\ cl[c].queued - 1 \in 0 .. MaxWrites
      /\ cl[c].queued - 1 <= cl[c].pending - 1
  BY <1>1, WorkerConstantsAssumption DEF ClientInv, ClientState
<1>3. r \in ClientState
  BY <1>1, <1>2, Zenon DEF ClientInv, ClientState
<1>4. /\ r.pending = cl[c].pending - 1 /\ r.queued = cl[c].queued - 1
      /\ r.mem = cl[c].mem
  BY <1>1 DEF ClientInv, ClientState
<1>5. ClientInv(r)
  BY <1>1, <1>2, <1>3, <1>4 DEF ClientInv
<1>6. PICK x \in IF r.pending = 0 THEN Reactions(r) ELSE {NoReaction} :
        cl' = [cl EXCEPT ![c] = React(r, x)]
  BY DEF AppWriteFinished
<1>7. x \in Reactions(r)
  BY <1>3, <1>6, NoReactionAllowed
<1>8. ClientInv(React(r, x))
  BY <1>5, <1>7, ReactInv
<1>. QED  BY <1>1, <1>6, <1>8, ScalarsUnchanged, UpdateClient

(* uv_cb_shutdown: the shutdown is done, and unless the client is already *)
(* closing its handle is closed with app_close_finished.                   *)
LEMMA UvCbShutdownInv ==
    ASSUME IInv, NEW c \in Clients, UvCbShutdown(c)
    PROVE  IInv'
<1>1. /\ cl[c].tcp = "open" /\ cl[c].mem # "freed" /\ ClientInv(cl[c])
      /\ UNCHANGED <<nextClient, pipeOpen, terminate, loopStopped, crashed>>
  BY NotFreedWhileHandle DEF UvCbShutdown
<1>2. CASE ~cl[c].closing
  <2> DEFINE nr == [cl[c] EXCEPT !.shut = "done", !.closing = TRUE, !.tcp = "closing",
                                 !.closeCb = TRUE]
  <2>1. cl' = [cl EXCEPT ![c] = nr]
    BY <1>2 DEF UvCbShutdown
  <2>2. nr \in ClientState
    BY <1>1, Zenon DEF ClientInv, ClientState
  <2>3. ClientInv(nr)
    BY <1>1, <2>2 DEF ClientInv, ClientState
  <2>. QED  BY <1>1, <2>1, <2>3, ScalarsUnchanged, UpdateClient
<1>3. CASE cl[c].closing
  <2> DEFINE nr == [cl[c] EXCEPT !.shut = "done"]
  <2>1. cl' = [cl EXCEPT ![c] = nr]
    BY <1>3 DEF UvCbShutdown
  <2>2. nr \in ClientState
    BY <1>1, Zenon DEF ClientInv, ClientState
  <2>3. ClientInv(nr)
    BY <1>1, <2>2 DEF ClientInv, ClientState
  <2>. QED  BY <1>1, <2>1, <2>3, ScalarsUnchanged, UpdateClient
<1>. QED  BY <1>2, <1>3

(* A response of the HTTP layer on its own. *)
LEMMA HttpRespondInv ==
    ASSUME IInv, NEW c \in Clients, HttpRespond(c)
    PROVE  IInv'
<1>1. /\ ClientInv(cl[c])
      /\ UNCHANGED <<nextClient, pipeOpen, terminate, loopStopped, crashed>>
  BY DEF HttpRespond, IInv
<1>2. PICK x \in Reactions(cl[c]) \ {NoReaction} : cl' = [cl EXCEPT ![c] = React(cl[c], x)]
  BY DEF HttpRespond
<1>3. ClientInv(React(cl[c], x))
  BY <1>1, <1>2, ReactInv
<1>. QED  BY <1>1, <1>2, <1>3, ScalarsUnchanged, UpdateClient

(* The close of a client's handle finishes: its queued writes are given   *)
(* back cancelled, and the client is freed only after that, with its      *)
(* handle closed and its shutdown done, unless a second uv_close aborts.   *)
LEMMA CloseFinishedInv ==
    ASSUME IInv, NEW c \in Clients, CloseFinished(c)
    PROVE  IInv'
<1> DEFINE r == [cl[c] EXCEPT !.pending = @ - cl[c].queued, !.queued = 0]
<1>1. /\ cl[c].tcp = "closing" /\ cl[c].mem # "freed" /\ ClientInv(cl[c])
      /\ UNCHANGED <<nextClient, pipeOpen, terminate, loopStopped>>
      /\ nextClient \in 1 .. MaxClients + 1 /\ pipeOpen \in BOOLEAN
      /\ terminate \in BOOLEAN /\ loopStopped \in BOOLEAN
  BY NotFreedWhileHandle DEF CloseFinished, IInv
<1>2. cl[c].pending - cl[c].queued \in 0 .. MaxWrites /\ 0 \in 0 .. MaxWrites
  BY <1>1, WorkerConstantsAssumption DEF ClientInv, ClientState
<1>3. r \in ClientState
  BY <1>1, <1>2, Zenon DEF ClientInv, ClientState
<1>4. /\ r.pending = cl[c].pending - cl[c].queued /\ r.queued = 0
      /\ r.mem = cl[c].mem /\ r.tcp = "closing"
  BY <1>1 DEF ClientInv, ClientState
<1>5. ClientInv(r)
  BY <1>1, <1>2, <1>3, <1>4 DEF ClientInv
<1>6. PICK x \in IF cl[c].queued > 0 /\ r.pending = 0 THEN Reactions(r) ELSE {NoReaction} :
        LET s == React(r, x) IN
        IF s.shut = "pending" /\ ~s.closing
        THEN crashed' = TRUE /\ UNCHANGED cl
        ELSE /\ cl' = [cl EXCEPT ![c] =
                         [s EXCEPT !.tcp = "closed",
                                   !.shut = IF @ = "pending" THEN "done" ELSE @,
                                   !.mem = IF s.closeCb THEN "freed" ELSE @]]
             /\ UNCHANGED crashed
  BY DEF CloseFinished
<1>7. x \in Reactions(r)
  BY <1>3, <1>6, NoReactionAllowed
<1> DEFINE s == React(r, x)
<1>8. ClientInv(s) /\ s.tcp = "closing" /\ s.queued = 0
  BY <1>4, <1>5, <1>7, ReactInv
<1>9. CASE s.shut = "pending" /\ ~s.closing
  <2>1. crashed' = TRUE /\ UNCHANGED cl
    BY <1>6, <1>9
  <2>. QED  BY <1>1, <2>1 DEF IInv
<1>10. CASE ~(s.shut = "pending" /\ ~s.closing)
  <2> DEFINE nr == [s EXCEPT !.tcp = "closed",
                             !.shut = IF @ = "pending" THEN "done" ELSE @,
                             !.mem = IF s.closeCb THEN "freed" ELSE @]
  <2>1. cl' = [cl EXCEPT ![c] = nr] /\ crashed' = crashed
    BY <1>6, <1>10
  <2>2. nr \in ClientState
    BY <1>8, Zenon DEF ClientInv, ClientState
  <2>3. /\ nr.tcp = "closed" /\ nr.queued = 0 /\ nr.shut # "pending"
        /\ nr.pending = s.pending
    BY <1>8 DEF ClientInv, ClientState
  <2>4. ClientInv(nr)
    BY <1>8, <2>2, <2>3 DEF ClientInv, ClientState
  <2>5. crashed' \in BOOLEAN
    BY <2>1 DEF IInv
  <2>. QED  BY <1>1, <2>1, <2>4, <2>5, UpdateClient
<1>. QED  BY <1>9, <1>10

-----------------------------------------------------------------------------
(* worker_init and worker_run start with no client. *)
LEMMA InitIInv == Init => IInv
<1> SUFFICES ASSUME Init PROVE IInv
  OBVIOUS
<1>1. NoClient \in ClientState
  <2>1. 0 \in 0 .. MaxWrites
    BY WorkerConstantsAssumption
  <2>. QED  BY <2>1, Zenon DEF NoClient, ClientState
<1>2. ClientInv(NoClient)
  BY <1>1 DEF ClientInv, NoClient
<1>3. 1 \in 1 .. MaxClients + 1
  BY WorkerConstantsAssumption
<1>. QED  BY <1>1, <1>2, <1>3 DEF Init, IInv

(* Every step of the worker keeps IInv. *)
LEMMA StepIInv == IInv /\ [Next]_vars => IInv'
<1> SUFFICES ASSUME IInv, [Next]_vars PROVE IInv'
  OBVIOUS
<1>1. CASE WorkerOnNewConnection
  BY <1>1, OnNewConnectionInv
<1>2. ASSUME NEW c \in Clients,
             \/ WorkerReadFromNetwork(c) \/ AppWriteFinished(c) \/ UvCbShutdown(c)
             \/ CloseFinished(c) \/ HttpRespond(c)
      PROVE  IInv'
  BY <1>2, ReadFromNetworkInv, AppWriteFinishedInv, UvCbShutdownInv, CloseFinishedInv,
     HttpRespondInv
<1>3. CASE WorkerSigintHandler
  BY <1>3 DEF WorkerSigintHandler, WorkerStop, IInv
<1>4. CASE Exited \/ UNCHANGED vars
  BY <1>4 DEF Exited, vars, IInv
<1>. QED  BY <1>1, <1>2, <1>3, <1>4 DEF Next

(* Every client_t and uv_tcp_t of a worker stays within its states, and    *)
(* pending_writes within its bound, for every number of clients and writes. *)
THEOREM WorkerTypeCorrect == Spec => []TypeOK
<1>1. IInv => TypeOK
  BY DEF IInv, TypeOK
<1>. QED  BY <1>1, InitIInv, StepIInv, PTL DEF Spec

(* For every number of clients and every bound on writes, worker.c frees a *)
(* client_t (app_close_finished) only after its handle is closed and every *)
(* write and shutdown callback of it has run.                              *)
THEOREM ClientFreedOnlyWhenIdleHolds == Spec => []ClientFreedOnlyWhenIdle
<1>1. IInv => ClientFreedOnlyWhenIdle
  BY DEF IInv, ClientInv, ClientFreedOnlyWhenIdle
<1>. QED  BY <1>1, InitIInv, StepIInv, PTL DEF Spec

-----------------------------------------------------------------------------
(* In cleartext only the HTTP layer starts a shutdown, and it writes       *)
(* nothing after it has closed: while the socket is open, every write is   *)
(* taken by libuv, and a shutdown means the HTTP layer has closed.         *)
ClearInv(r) ==
    r.tcp = "open" => /\ r.pending = r.queued
                      /\ r.shut # "none" => r.httpClosed

CInv == IInv /\ \A c \in Clients : ClearInv(cl[c])

(* A reaction is a write flag and a close flag, the write offered only    *)
(* below MaxWrites.                                                        *)
LEMMA ReactionShape ==
    ASSUME NEW r \in ClientState, NEW x \in Reactions(r)
    PROVE  x.write \in BOOLEAN /\ x.close \in BOOLEAN /\ (x.write => r.pending < MaxWrites)
<1>1. CASE r.httpClosed
  <2>1. x = NoReaction
    BY <1>1 DEF Reactions
  <2>. QED  BY <2>1 DEF NoReaction
<1>2. CASE ~r.httpClosed
  BY <1>2 DEF Reactions
<1>. QED  BY <1>1, <1>2 DEF ClientState

(* A reaction of the HTTP layer keeps ClearInv: on an open socket that is  *)
(* not shut down a write is queued and counted together, and a close marks *)
(* the layer closed as it starts the shutdown; once it has closed it does  *)
(* nothing.                                                                *)
LEMMA ReactClear ==
    ASSUME NEW r, ClientInv(r), ClearInv(r), NEW x \in Reactions(r)
    PROVE  ClearInv(React(r, x))
<1>1. CASE r.tcp # "open"
  BY <1>1, ReactInv DEF ClearInv
<1>2. CASE r.tcp = "open" /\ r.shut # "none"
  <2>1. r.httpClosed
    BY <1>2 DEF ClearInv
  <2>2. x = NoReaction
    BY <2>1 DEF Reactions
  <2>3. React(r, x) = r
    BY <2>2 DEF React, NoReaction
  <2>. QED  BY <2>3
<1>3. CASE r.tcp = "open" /\ r.shut = "none"
  <2>1. r.pending = r.queued /\ r \in ClientState
    BY <1>3 DEF ClearInv, ClientInv
  <2>2. x.write \in BOOLEAN /\ x.close \in BOOLEAN
    BY <2>1, ReactionShape
  <2>3. DEFINE w == IF x.write THEN AppWriteCb(r) ELSE r
  <2>4. w.tcp = "open" /\ w.shut = "none" /\ w.pending = w.queued
    BY <1>3, <2>1, <2>2 DEF AppWriteCb, WorkerWriteToNetwork, ClientState
  <2>5. CASE x.close
    <3>1. React(r, x) = AppCloseCb(w)
      BY <2>5 DEF React
    <3>2. LET q == [w EXCEPT !.httpClosed = TRUE] IN
          q.tcp = "open" /\ q.shut = "none" /\ q.pending = q.queued /\ q.httpClosed
      BY <2>1, <2>2, <2>4 DEF AppWriteCb, WorkerWriteToNetwork, ClientState
    <3>. QED  BY <3>1, <3>2 DEF AppCloseCb, WorkerClose, ClearInv
  <2>6. CASE ~x.close
    <3>1. React(r, x) = w
      BY <2>6 DEF React
    <3>. QED  BY <3>1, <2>4 DEF ClearInv
  <2>. QED  BY <2>2, <2>5, <2>6
<1>. QED  BY <1>1, <1>2, <1>3

(* Every callback changes one client record: ClearInv holds of all when it *)
(* holds of the new one.                                                   *)
LEMMA UpdateClear ==
    ASSUME IInv, \A d \in Clients : ClearInv(cl[d]), NEW c \in Clients, NEW nr,
           ClearInv(nr), cl' = [cl EXCEPT ![c] = nr]
    PROVE  \A d \in Clients : ClearInv(cl'[d])
BY DEF IInv

(* A record whose socket is no longer open satisfies ClearInv. *)
LEMMA NotOpenClear ==
    ASSUME NEW r, r.tcp # "open"
    PROVE  ClearInv(r)
BY DEF ClearInv

(* Each callback of a cleartext worker keeps ClearInv. *)
LEMMA StepClear ==
    ASSUME ~UseTLS, CInv, [Next]_vars
    PROVE  \A d \in Clients : ClearInv(cl'[d])
<1>0. IInv /\ \A d \in Clients : ClearInv(cl[d])
  BY DEF CInv
<1>1. CASE WorkerOnNewConnection
  <2>1. CASE pipeOpen' = FALSE /\ UNCHANGED cl
    BY <1>0, <2>1
  <2>2. CASE /\ nextClient \in Clients
             /\ \E accepted \in IF AcceptMayFail THEN BOOLEAN ELSE {TRUE} :
                  cl' = [cl EXCEPT ![nextClient] =
                           [NoClient EXCEPT !.mem = "alloc",
                                            !.tcp = IF accepted THEN "open" ELSE "closing"]]
    <3>1. PICK accepted \in BOOLEAN :
            cl' = [cl EXCEPT ![nextClient] =
                     [NoClient EXCEPT !.mem = "alloc",
                                      !.tcp = IF accepted THEN "open" ELSE "closing"]]
      BY <2>2, WorkerConstantsAssumption
    <3>2. LET nr == [NoClient EXCEPT !.mem = "alloc",
                                     !.tcp = IF accepted THEN "open" ELSE "closing"]
          IN  nr.pending = 0 /\ nr.queued = 0 /\ nr.shut = "none"
      BY Zenon DEF NoClient
    <3>3. ClearInv([NoClient EXCEPT !.mem = "alloc",
                                    !.tcp = IF accepted THEN "open" ELSE "closing"])
      BY <3>2 DEF ClearInv
    <3>. QED  BY <1>0, <2>2, <3>1, <3>3, UpdateClear
  <2>. QED  BY <1>1, <2>1, <2>2 DEF WorkerOnNewConnection
<1>2. ASSUME NEW c \in Clients, WorkerReadFromNetwork(c)
      PROVE  \A d \in Clients : ClearInv(cl'[d])
  <2> DEFINE r == cl[c]
  <2>0. r.tcp = "open" /\ ClientInv(r) /\ ClearInv(r) /\ r \in ClientState
    BY <1>0, <1>2, NotFreedWhileHandle DEF WorkerReadFromNetwork, ClientInv
  <2>1. CASE cl' = [cl EXCEPT ![c] = [r EXCEPT !.tcp = "closing", !.closeCb = TRUE]]
    <3>1. [r EXCEPT !.tcp = "closing", !.closeCb = TRUE].tcp # "open"
      BY <2>0 DEF ClientState
    <3>. QED  BY <1>0, <2>1, <3>1, NotOpenClear, UpdateClear
  <2>2. CASE \E x \in Reactions(r) : cl' = [cl EXCEPT ![c] = React([r EXCEPT !.eof = TRUE], x)]
    <3>1. PICK x \in Reactions(r) : cl' = [cl EXCEPT ![c] = React([r EXCEPT !.eof = TRUE], x)]
      BY <2>2
    <3>2. [r EXCEPT !.eof = TRUE] \in ClientState
      BY <2>0, Zenon DEF ClientState
    <3>3. ClientInv([r EXCEPT !.eof = TRUE]) /\ ClearInv([r EXCEPT !.eof = TRUE])
      BY <2>0, <3>2 DEF ClientInv, ClearInv, ClientState
    <3>4. x \in Reactions([r EXCEPT !.eof = TRUE])
      <4>1. Reactions([r EXCEPT !.eof = TRUE]) = Reactions(r)
        BY <2>0, ReactionsSame DEF ClientState
      <4>. QED  BY <3>1, <4>1
    <3>5. ClearInv(React([r EXCEPT !.eof = TRUE], x))
      BY <3>3, <3>4, ReactClear
    <3>. QED  BY <1>0, <3>1, <3>5, UpdateClear
  <2>3. CASE \E x \in Reactions(r) : cl' = [cl EXCEPT ![c] = React(r, x)]
    <3>1. PICK x \in Reactions(r) : cl' = [cl EXCEPT ![c] = React(r, x)]
      BY <2>3
    <3>. QED  BY <1>0, <2>0, <3>1, ReactClear, UpdateClear
  <2>. QED  BY <1>2, <2>1, <2>2, <2>3 DEF WorkerReadFromNetwork
<1>3. ASSUME NEW c \in Clients, AppWriteFinished(c)
      PROVE  \A d \in Clients : ClearInv(cl'[d])
  <2> DEFINE r == [cl[c] EXCEPT !.pending = @ - 1, !.queued = @ - 1]
  <2>0. cl[c].tcp = "open" /\ cl[c].queued > 0 /\ ClientInv(cl[c]) /\ ClearInv(cl[c])
    BY <1>0, <1>3, NotFreedWhileHandle DEF AppWriteFinished
  <2>1. /\ cl[c].pending - 1 \in 0 .. MaxWrites /\ cl[c].queued - 1 \in 0 .. MaxWrites
    BY <2>0, WorkerConstantsAssumption DEF ClientInv, ClientState
  <2>2. r \in ClientState
    BY <2>0, <2>1, Zenon DEF ClientInv, ClientState
  <2>3. ClientInv(r) /\ ClearInv(r)
    BY <2>0, <2>1, <2>2 DEF ClientInv, ClearInv, ClientState
  <2>4. PICK x \in IF r.pending = 0 THEN Reactions(r) ELSE {NoReaction} :
          cl' = [cl EXCEPT ![c] = React(r, x)]
    BY <1>3 DEF AppWriteFinished
  <2>5. x \in Reactions(r)
    BY <2>2, <2>4, NoReactionAllowed
  <2>. QED  BY <1>0, <2>3, <2>4, <2>5, ReactClear, UpdateClear
<1>4. ASSUME NEW c \in Clients, UvCbShutdown(c)
      PROVE  \A d \in Clients : ClearInv(cl'[d])
  <2>0. /\ cl[c].tcp = "open" /\ cl[c].shut = "pending" /\ ClientInv(cl[c])
        /\ ClearInv(cl[c])
    BY <1>0, <1>4, NotFreedWhileHandle DEF UvCbShutdown
  <2>1. CASE ~cl[c].closing
    <3>1. cl' = [cl EXCEPT ![c] = [cl[c] EXCEPT !.shut = "done", !.closing = TRUE,
                                               !.tcp = "closing", !.closeCb = TRUE]]
      BY <1>4, <2>1 DEF UvCbShutdown
    <3>2. [cl[c] EXCEPT !.shut = "done", !.closing = TRUE, !.tcp = "closing",
                        !.closeCb = TRUE].tcp # "open"
      BY <2>0 DEF ClientInv, ClientState
    <3>. QED  BY <1>0, <3>1, <3>2, NotOpenClear, UpdateClear
  <2>2. CASE cl[c].closing
    <3>1. cl' = [cl EXCEPT ![c] = [cl[c] EXCEPT !.shut = "done"]]
      BY <1>4, <2>2 DEF UvCbShutdown
    <3>2. ClearInv([cl[c] EXCEPT !.shut = "done"])
      BY <2>0 DEF ClientInv, ClearInv, ClientState
    <3>. QED  BY <1>0, <3>1, <3>2, UpdateClear
  <2>. QED  BY <2>1, <2>2
<1>5. ASSUME NEW c \in Clients, CloseFinished(c)
      PROVE  \A d \in Clients : ClearInv(cl'[d])
  <2>1. PICK x \in IF cl[c].queued > 0 /\ [cl[c] EXCEPT !.pending = @ - cl[c].queued,
                                                        !.queued = 0].pending = 0
                   THEN Reactions([cl[c] EXCEPT !.pending = @ - cl[c].queued, !.queued = 0])
                   ELSE {NoReaction} :
          LET s == React([cl[c] EXCEPT !.pending = @ - cl[c].queued, !.queued = 0], x) IN
          IF s.shut = "pending" /\ ~s.closing
          THEN crashed' = TRUE /\ UNCHANGED cl
          ELSE /\ cl' = [cl EXCEPT ![c] =
                           [s EXCEPT !.tcp = "closed",
                                     !.shut = IF @ = "pending" THEN "done" ELSE @,
                                     !.mem = IF s.closeCb THEN "freed" ELSE @]]
               /\ UNCHANGED crashed
    BY <1>5 DEF CloseFinished
  <2>2. \/ UNCHANGED cl
        \/ \E nr : nr.tcp = "closed" /\ cl' = [cl EXCEPT ![c] = nr]
    <3> DEFINE r == [cl[c] EXCEPT !.pending = @ - cl[c].queued, !.queued = 0]
    <3>1. cl[c].tcp = "closing" /\ cl[c].mem # "freed" /\ ClientInv(cl[c])
      BY <1>0, <1>5, NotFreedWhileHandle DEF CloseFinished
    <3>2. cl[c].pending - cl[c].queued \in 0 .. MaxWrites /\ 0 \in 0 .. MaxWrites
      BY <3>1, WorkerConstantsAssumption DEF ClientInv, ClientState
    <3>3. r \in ClientState
      BY <3>1, <3>2, Zenon DEF ClientInv, ClientState
    <3>4. ClientInv(r)
      BY <3>1, <3>2, <3>3 DEF ClientInv, ClientState
    <3>5. x \in Reactions(r)
      BY <2>1, <3>3, NoReactionAllowed
    <3>6. React(r, x) \in ClientState
      BY <3>4, <3>5, ReactInv DEF ClientInv
    <3>7. [React(r, x) EXCEPT !.tcp = "closed",
                              !.shut = IF @ = "pending" THEN "done" ELSE @,
                              !.mem = IF React(r, x).closeCb THEN "freed" ELSE @].tcp
            = "closed"
      BY <3>6 DEF ClientState
    <3>. QED  BY <2>1, <3>7
  <2>3. ASSUME NEW nr, nr.tcp = "closed", cl' = [cl EXCEPT ![c] = nr]
        PROVE  \A d \in Clients : ClearInv(cl'[d])
    BY <1>0, <2>3, NotOpenClear, UpdateClear
  <2>. QED  BY <1>0, <2>2, <2>3
<1>6. ASSUME NEW c \in Clients, HttpRespond(c)
      PROVE  \A d \in Clients : ClearInv(cl'[d])
  <2>1. PICK x \in Reactions(cl[c]) \ {NoReaction} : cl' = [cl EXCEPT ![c] = React(cl[c], x)]
    BY <1>6 DEF HttpRespond
  <2>2. ClientInv(cl[c]) /\ ClearInv(cl[c])
    BY <1>0 DEF IInv
  <2>. QED  BY <1>0, <2>1, <2>2, ReactClear, UpdateClear
<1>7. CASE WorkerSigintHandler \/ Exited \/ UNCHANGED vars
  <2>1. UNCHANGED cl
    BY <1>7 DEF WorkerSigintHandler, Exited, vars
  <2>. QED  BY <1>0, <2>1
<1>. QED  BY <1>1, <1>2, <1>3, <1>4, <1>5, <1>6, <1>7 DEF Next

(* For every number of clients and every bound on writes, a cleartext      *)
(* worker keeps client->pending_writes equal to the writes libuv holds     *)
(* while the socket is open, so http_finished_writes fires exactly when    *)
(* the last of them has completed (worker.c:64-68).                        *)
THEOREM PendingWritesAccurateHolds ==
    ASSUME ~UseTLS
    PROVE  Spec => []PendingWritesAccurate
<1>1. Init => CInv
  <2> SUFFICES ASSUME Init PROVE CInv
    OBVIOUS
  <2>1. \A d \in Clients : ClearInv(cl[d])
    BY DEF Init, ClearInv, NoClient
  <2>. QED  BY <2>1, InitIInv DEF CInv
<1>2. CInv /\ [Next]_vars => CInv'
  BY StepIInv, StepClear DEF CInv
<1>3. CInv => PendingWritesAccurate
  BY DEF CInv, ClearInv, PendingWritesAccurate
<1>. QED  BY <1>1, <1>2, <1>3, PTL DEF Spec

=============================================================================
