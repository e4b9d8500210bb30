------------------------- MODULE MasterDispatchProofs -------------------------
(***************************************************************************)
(* Proofs about how the master (Master.tla) hands out accepted sockets and *)
(* releases their server_client_t, for every number of workers, listeners  *)
(* and connections.                                                        *)
(***************************************************************************)
EXTENDS MasterProofs

(* Connections at or beyond nextConn have not been accepted yet. *)
Unaccepted ==
    \A c \in Conns : c >= nextConn =>
        /\ cmem[c] = "none" /\ chandle[c] = "none"
        /\ cwrite[c] = "none" /\ target[c] = NoWorker

(* A write of the socket still to complete keeps the handle open: only     *)
(* on_write_complete or the cancellation in worker_pipe_closed closes it.  *)
PendingWriteOpen ==
    \A c \in Conns : cwrite[c] = "pending" => chandle[c] = "open"

ConnInv == Unaccepted /\ PendingWriteOpen /\ ClientFreedAfterClose

(* Every dispatched socket went to the worker round_robin_counter pointed  *)
(* at, and the counter has moved once per dispatch.                        *)
CounterCountsHanded == rr = Cardinality(Handed) % NumWorkers

(* A connection not yet accepted has no worker, even when uv_accept fails *)
(* and the connection is dropped before it is ever dispatched.            *)
TargetsFresh == \A c \in Conns : c >= nextConn => target[c] = NoWorker

DispatchInv == TargetsFresh /\ CounterCountsHanded /\ RoundRobin

(* The sockets handed to worker w. *)
Assigned(w) == {c \in Handed : target[c] = w}

-----------------------------------------------------------------------------
(* The server_client_t of every connection is freed only after its handle *)
(* is closed, as long as uv_accept does not fail.                          *)

LEMMA ConnInitInv == Init => ConnInv
BY DEF Init, ServerInit, SetupWorkers, ServerRun, ConnInv, Unaccepted,
       PendingWriteOpen, ClientFreedAfterClose

(* Callbacks that leave every connection alone keep ConnInv. *)
LEMMA ConnUnchanged ==
    ASSUME ConnInv, UNCHANGED connVars
    PROVE  ConnInv'
BY DEF ConnInv, Unaccepted, PendingWriteOpen, ClientFreedAfterClose, connVars

LEMMA ConnStep ==
    ASSUME ~AcceptMayFail, TypeOK, ConnInv, [Next]_vars
    PROVE  ConnInv'
<1>0. /\ Unaccepted /\ PendingWriteOpen /\ ClientFreedAfterClose
      /\ MaxConns \in Nat /\ nextConn \in 1 .. MaxConns + 1
  BY ConstantsAssumption DEF ConnInv, TypeOK
<1>1. ASSUME NEW l \in Listeners, ServerOnNewConnection(l) PROVE ConnInv'
  <2>1. /\ nextConn \in Conns /\ nextConn' = nextConn + 1
        /\ chandle' = [chandle EXCEPT ![nextConn] = "open"]
        /\ cmem' = [cmem EXCEPT ![nextConn] = "alloc"]
        /\ target' = [target EXCEPT ![nextConn] = rr]
        /\ \E o \in Write2Outcomes(slot[rr]) : cwrite' = [cwrite EXCEPT ![nextConn] = o]
    BY <1>1 DEF ServerOnNewConnection
  <2>2. Write2Outcomes(slot[rr]) \subseteq {"pending", "lost"}
    BY DEF TypeOK, Write2Outcomes
  <2>3. PICK o \in {"pending", "lost"} : cwrite' = [cwrite EXCEPT ![nextConn] = o]
    BY <2>1, <2>2
  <2>4. Unaccepted'
    BY <1>0, <2>1, <2>3 DEF Unaccepted, Conns, TypeOK
  <2>5. PendingWriteOpen'
    BY <1>0, <2>1, <2>3 DEF PendingWriteOpen, TypeOK
  <2>6. ClientFreedAfterClose'
    BY <1>0, <2>1 DEF ClientFreedAfterClose, TypeOK
  <2>. QED  BY <2>4, <2>5, <2>6 DEF ConnInv
<1>2. ASSUME NEW c \in Conns, OnWriteComplete(c) PROVE ConnInv'
  <2>1. /\ cwrite[c] = "pending" /\ chandle' = [chandle EXCEPT ![c] = "closing"]
        /\ \E st \in {"ok", "error"} : cwrite' = [cwrite EXCEPT ![c] = st]
        /\ UNCHANGED <<nextConn, cmem, target>>
    BY <1>2 DEF OnWriteComplete
  <2>2. PICK st \in {"ok", "error"} : cwrite' = [cwrite EXCEPT ![c] = st]
    BY <2>1
  <2>3. chandle[c] = "open" /\ c < nextConn /\ cmem[c] # "freed"
    BY <1>0, <2>1 DEF PendingWriteOpen, Unaccepted, ClientFreedAfterClose, Conns
  <2>. QED  BY <1>0, <2>1, <2>2, <2>3
           DEF ConnInv, Unaccepted, PendingWriteOpen, ClientFreedAfterClose, TypeOK
<1>3. ASSUME NEW c \in Conns, ClientHandleClosed(c) PROVE ConnInv'
  <2>1. /\ chandle[c] = "closing" /\ chandle' = [chandle EXCEPT ![c] = "closed"]
        /\ cmem' = [cmem EXCEPT ![c] = "freed"]
        /\ UNCHANGED <<nextConn, cwrite, target>>
    BY <1>3 DEF ClientHandleClosed
  <2>2. cwrite[c] # "pending" /\ c < nextConn
    BY <1>0, <2>1 DEF PendingWriteOpen, Unaccepted, Conns
  <2>. QED  BY <1>0, <2>1, <2>2
           DEF ConnInv, Unaccepted, PendingWriteOpen, ClientFreedAfterClose, TypeOK
<1>4. ASSUME NEW w \in Workers, WorkerPipeClosed(w) PROVE ConnInv'
  <2> DEFINE cancelled == {c \in Conns : target[c] = w /\ cwrite[c] = "pending"}
  <2>1. /\ cwrite' = [c \in Conns |-> IF c \in cancelled THEN "error" ELSE cwrite[c]]
        /\ chandle' = [c \in Conns |-> IF c \in cancelled THEN "closing" ELSE chandle[c]]
        /\ UNCHANGED <<nextConn, cmem, target>>
    BY <1>4 DEF WorkerPipeClosed
  <2>2. \A c \in cancelled : chandle[c] = "open" /\ c < nextConn /\ cmem[c] # "freed"
    BY <1>0 DEF PendingWriteOpen, Unaccepted, ClientFreedAfterClose, Conns
  <2>. QED  BY <1>0, <2>1, <2>2
           DEF ConnInv, Unaccepted, PendingWriteOpen, ClientFreedAfterClose, TypeOK
<1>5. ASSUME NEW w \in Workers, CloseProcessHandle(w) \/ ProcessHandleClosed(w)
      PROVE ConnInv'
  BY <1>5, ConnUnchanged DEF CloseProcessHandle, ProcessHandleClosed
<1>6. ASSUME NEW s \in StopSigs, StopSignal(s) PROVE ConnInv'
  BY <1>6, ConnUnchanged DEF StopSignal
<1>7. ASSUME NEW s \in Signals, HandlerClosed(s) PROVE ConnInv'
  BY <1>7, ConnUnchanged DEF HandlerClosed
<1>8. ASSUME NEW l \in Listeners, TcpListenerClosed(l) PROVE ConnInv'
  BY <1>8, ConnUnchanged DEF TcpListenerClosed
<1>9. CASE Exited \/ UNCHANGED vars
  BY <1>9, ConnUnchanged DEF Exited, vars
<1>. QED  BY <1>1, <1>2, <1>3, <1>4, <1>5, <1>6, <1>7, <1>8, <1>9 DEF Next

(* When uv_accept never fails, server.c frees a server_client_t only in    *)
(* client_handle_closed, after libuv has closed the uv_tcp_t inside it:    *)
(* for every number of workers, listeners and connections, whatever the    *)
(* order of write completions, worker exits and close callbacks.           *)
THEOREM ClientFreedAfterCloseHolds ==
    ASSUME ~AcceptMayFail
    PROVE  Spec => []ClientFreedAfterClose
<1>1. TypeOK /\ ConnInv /\ [Next]_vars => ConnInv'
  BY ConnStep
<1>2. ConnInv => ClientFreedAfterClose
  BY DEF ConnInv
<1>. QED  BY <1>1, <1>2, ConnInitInv, TypeCorrect, PTL DEF Spec

-----------------------------------------------------------------------------
(* Arithmetic of the round-robin counter: \div and % by a positive divisor *)
(* that is a constant of the model, not a literal.                         *)

(* Multiplying by a positive number keeps the order. *)
LEMMA MulMono ==
    ASSUME NEW N \in Nat \ {0}, NEW x \in Int, NEW y \in Int, x <= y
    PROVE  x * N <= y * N
<1>1. (y - x) * N \in Nat BY SMT
<1>. QED BY <1>1
(* a \div N is the m with a - m * N in 0 .. N - 1. *)
LEMMA DivChar ==
    ASSUME NEW N \in Nat \ {0}, NEW a \in Int, NEW m \in Int, a - m * N \in 0 .. N - 1
    PROVE  a \div N = m
<1>0. m * N <= a /\ a < (m + 1) * N BY SMT
<1> DEFINE d == a \div N
<1>1. d \in Int /\ d * N <= a /\ a < (d + 1) * N
  BY SMT
<1>2. ~(d >= m + 1)
  <2> SUFFICES ASSUME d >= m + 1 PROVE FALSE OBVIOUS
  <2>1. (m + 1) * N <= d * N BY MulMono, <1>1
  <2>. QED BY <2>1, <1>1
<1>3. ~(d <= m - 1)
  <2> SUFFICES ASSUME d <= m - 1 PROVE FALSE OBVIOUS
  <2>1. (d + 1) * N <= m * N BY MulMono, <1>1
  <2>. QED BY <2>1, <1>1
<1>. QED BY <1>1, <1>2, <1>3
(* One more socket raises the share (k + N - 1 - w) \div N of worker w   *)
(* exactly when w is the counter's value k % N.                          *)
LEMMA DivStep ==
    ASSUME NEW N \in Nat \ {0}, NEW k \in Nat, NEW w \in 0 .. N - 1
    PROVE  (k + N - w) \div N =
             IF w = k % N THEN (k + N - 1 - w) \div N + 1 ELSE (k + N - 1 - w) \div N
<1>1. /\ k \div N \in Nat
      /\ k % N \in 0 .. N - 1
      /\ k = (k \div N) * N + (k % N)
  BY SMT
<1>2. ((k \div N) + 1) * N = (k \div N) * N + N
  BY <1>1, SMT
<1>3. /\ k + N - w \in Int /\ k + N - 1 - w \in Int
      /\ k \div N \in Int /\ (k \div N) + 1 \in Int
  BY <1>1
<1>4. CASE w < k % N
  <2>1. (k + N - 1 - w) - ((k \div N) + 1) * N \in 0 .. N - 1  BY <1>1, <1>2, <1>4
  <2>2. (k + N - w) - ((k \div N) + 1) * N \in 0 .. N - 1  BY <1>1, <1>2, <1>4
  <2>3. (k + N - 1 - w) \div N = (k \div N) + 1  BY <2>1, <1>3, DivChar, Zenon
  <2>4. (k + N - w) \div N = (k \div N) + 1  BY <2>2, <1>3, DivChar, Zenon
  <2>. QED BY <2>3, <2>4, <1>1, <1>4
<1>5. CASE w = k % N
  <2>1. (k + N - 1 - w) - (k \div N) * N \in 0 .. N - 1  BY <1>1, <1>5
  <2>2. (k + N - w) - ((k \div N) + 1) * N \in 0 .. N - 1  BY <1>1, <1>2, <1>5
  <2>3. (k + N - 1 - w) \div N = k \div N  BY <2>1, <1>3, DivChar, Zenon
  <2>4. (k + N - w) \div N = (k \div N) + 1  BY <2>2, <1>3, DivChar, Zenon
  <2>. QED BY <2>3, <2>4, <1>1, <1>5
<1>6. CASE w > k % N
  <2>1. (k + N - 1 - w) - (k \div N) * N \in 0 .. N - 1  BY <1>1, <1>6
  <2>2. (k + N - w) - (k \div N) * N \in 0 .. N - 1  BY <1>1, <1>6
  <2>3. (k + N - 1 - w) \div N = k \div N  BY <2>1, <1>3, DivChar, Zenon
  <2>4. (k + N - w) \div N = k \div N  BY <2>2, <1>3, DivChar, Zenon
  <2>. QED BY <2>3, <2>4, <1>1, <1>6
<1>. QED BY <1>1, <1>4, <1>5, <1>6
(* Advancing the counter modulo N after k dispatches gives (k + 1) % N. *)
LEMMA ModStep ==
    ASSUME NEW N \in Nat \ {0}, NEW k \in Nat
    PROVE  ((k % N) + 1) % N = (k + 1) % N
<1>1. /\ k \div N \in Nat
      /\ k % N \in 0 .. N - 1
      /\ k = (k \div N) * N + (k % N)
  BY SMT
<1>3. CASE k % N < N - 1
  <2>1. ((k % N) + 1) % N = (k % N) + 1  BY <1>1, <1>3
  <2>2. (k + 1) - (k \div N) * N \in 0 .. N - 1  BY <1>1, <1>3
  <2>0. k + 1 \in Int /\ k \div N \in Int  BY <1>1
  <2>3. (k + 1) \div N = k \div N  BY <2>2, <2>0, DivChar, Zenon
  <2>4. (k + 1) % N = (k + 1) - ((k + 1) \div N) * N  BY SMT
  <2>. QED BY <1>1, <2>1, <2>3, <2>4
<1>4. CASE k % N = N - 1
  <2>1. ((k % N) + 1) % N = 0  BY <1>4
  <2>2. (k + 1) % N = 0  BY <1>1, <1>4
  <2>. QED BY <2>1, <2>2
<1>. QED BY <1>1, <1>3, <1>4

-----------------------------------------------------------------------------
(* server_on_new_connection hands sockets to the workers in turn.          *)

LEMMA HandedFinite ==
    ASSUME TypeOK
    PROVE  /\ IsFiniteSet(Handed) /\ Cardinality(Handed) \in Nat
           /\ \A w \in Workers : IsFiniteSet(Assigned(w))
<1>1. IsFiniteSet(Conns)
  BY ConstantsAssumption, FS_Interval DEF Conns
<1>2. IsFiniteSet(Handed)
  BY <1>1, FS_Subset DEF Handed
<1>. QED  BY <1>2, FS_Subset, FS_CardinalityType DEF Assigned

LEMMA DispatchInitInv == Init => DispatchInv
<1> SUFFICES ASSUME Init PROVE DispatchInv
  OBVIOUS
<1>1. Handed = {} /\ rr = 0 /\ \A w \in Workers : Assigned(w) = {}
  BY DEF Init, ServerInit, SetupWorkers, ServerRun, Handed, Assigned
<1>2. \A w \in Workers : (NumWorkers - 1 - w) \div NumWorkers = 0
  <2> TAKE w \in Workers
  <2>1. (NumWorkers - 1 - w) - 0 * NumWorkers \in 0 .. NumWorkers - 1
    BY ConstantsAssumption DEF Workers
  <2>. QED  BY <2>1, ConstantsAssumption, DivChar DEF Workers
<1>3. 0 % NumWorkers = 0
  BY ConstantsAssumption
<1>4. TargetsFresh
  BY DEF Init, ServerInit, SetupWorkers, ServerRun, TargetsFresh
<1>5. Cardinality(Handed) = 0 /\ \A w \in Workers : Cardinality(Assigned(w)) = 0
  BY <1>1, FS_EmptySet
<1>6. CounterCountsHanded
  BY <1>1, <1>3, <1>5 DEF CounterCountsHanded
<1>7. RoundRobin
  <2> SUFFICES ASSUME NEW w \in Workers
               PROVE  Cardinality(Assigned(w))
                        = (Cardinality(Handed) + NumWorkers - 1 - w) \div NumWorkers
    BY DEF RoundRobin, Assigned
  <2>1. Cardinality(Handed) + NumWorkers - 1 - w = NumWorkers - 1 - w
    BY <1>5, ConstantsAssumption DEF Workers
  <2>. QED  BY <1>2, <1>5, <2>1
<1>. QED  BY <1>4, <1>6, <1>7 DEF DispatchInv

(* Steps that leave the counter and every connection's worker alone. *)
LEMMA DispatchUnchanged ==
    ASSUME DispatchInv, UNCHANGED <<rr, target>>,
           nextConn \in Nat, nextConn' \in {nextConn, nextConn + 1}
    PROVE  DispatchInv'
<1>1. TargetsFresh'
  BY DEF DispatchInv, TargetsFresh, Conns
<1>2. Handed' = Handed
  BY DEF Handed
<1>3. CounterCountsHanded' /\ RoundRobin'
  BY <1>2 DEF DispatchInv, CounterCountsHanded, RoundRobin
<1>. QED  BY <1>1, <1>3 DEF DispatchInv

LEMMA DispatchStutter ==
    ASSUME DispatchInv, nextConn \in Nat, UNCHANGED <<rr, target, nextConn>>
    PROVE  DispatchInv'
BY DispatchUnchanged

(* A dispatch adds the socket nextConn to Handed and to the share of the    *)
(* worker the counter names, and advances the counter.                     *)
LEMMA DispatchAccept ==
    ASSUME TypeOK, DispatchInv,
           nextConn \in Conns, nextConn' = nextConn + 1,
           target' = [target EXCEPT ![nextConn] = rr], rr' = NextWorker
    PROVE  DispatchInv'
<1> USE DEF TypeOK
<1>0. /\ NumWorkers \in Nat \ {0} /\ rr \in Workers /\ rr # NoWorker
      /\ target[nextConn] = NoWorker /\ nextConn \notin Handed
  BY ConstantsAssumption DEF DispatchInv, TargetsFresh, Workers, NoWorker, Handed
<1>1. Handed' = Handed \cup {nextConn}
  BY <1>0 DEF Handed
<1>2. \A w \in Workers :
        Assigned(w)' = IF w = rr THEN Assigned(w) \cup {nextConn} ELSE Assigned(w)
  BY <1>0, <1>1 DEF Assigned, Handed, Workers, NoWorker
<1>3. /\ Cardinality(Handed) \in Nat
      /\ Cardinality(Handed') = Cardinality(Handed) + 1
  BY <1>0, <1>1, HandedFinite, FS_AddElement
<1>4. rr = Cardinality(Handed) % NumWorkers
  BY DEF DispatchInv, CounterCountsHanded
<1>5. CounterCountsHanded'
  BY <1>0, <1>3, <1>4, ModStep DEF CounterCountsHanded, NextWorker
<1>6. RoundRobin'
  <2> SUFFICES ASSUME NEW w \in Workers
               PROVE  Cardinality(Assigned(w)')
                        = (Cardinality(Handed) + 1 + NumWorkers - 1 - w) \div NumWorkers
    BY <1>3 DEF RoundRobin, Assigned
  <2>1. /\ IsFiniteSet(Assigned(w))
        /\ Cardinality(Assigned(w))
             = (Cardinality(Handed) + NumWorkers - 1 - w) \div NumWorkers
        /\ nextConn \notin Assigned(w)
    BY <1>0, HandedFinite DEF DispatchInv, RoundRobin, Assigned
  <2>2. (Cardinality(Handed) + 1 + NumWorkers - 1 - w) \div NumWorkers
          = (Cardinality(Handed) + NumWorkers - w) \div NumWorkers
    BY <1>0, <1>3 DEF Workers
  <2>3. (Cardinality(Handed) + NumWorkers - w) \div NumWorkers
          = IF w = rr
              THEN (Cardinality(Handed) + NumWorkers - 1 - w) \div NumWorkers + 1
              ELSE (Cardinality(Handed) + NumWorkers - 1 - w) \div NumWorkers
    BY <1>0, <1>3, <1>4, DivStep DEF Workers
  <2>4. CASE w = rr
    BY <1>2, <2>1, <2>2, <2>3, <2>4, FS_AddElement
  <2>5. CASE w # rr
    BY <1>2, <2>1, <2>2, <2>3, <2>5
  <2>. QED  BY <2>4, <2>5
<1>7. TargetsFresh'
  BY <1>0 DEF DispatchInv, TargetsFresh, Conns
<1>. QED  BY <1>5, <1>6, <1>7 DEF DispatchInv

LEMMA DispatchStep ==
    ASSUME TypeOK, DispatchInv, [Next]_vars
    PROVE  DispatchInv'
<1>0. nextConn \in Nat
  BY ConstantsAssumption DEF TypeOK
<1>1. ASSUME NEW l \in Listeners, ServerOnNewConnection(l) PROVE DispatchInv'
  <2>1. nextConn \in Conns /\ nextConn' = nextConn + 1
    BY <1>1 DEF ServerOnNewConnection
  <2>2. CASE target' = [target EXCEPT ![nextConn] = rr] /\ rr' = NextWorker
    BY <2>1, <2>2, DispatchAccept
  <2>3. CASE UNCHANGED <<target, rr>>
    BY <1>0, <2>1, <2>3, DispatchUnchanged
  <2>. QED  BY <1>1, <2>2, <2>3 DEF ServerOnNewConnection
<1>2. ASSUME NEW c \in Conns, OnWriteComplete(c) \/ ClientHandleClosed(c)
      PROVE DispatchInv'
  <2>1. UNCHANGED <<rr, target, nextConn>>
    BY <1>2 DEF OnWriteComplete, ClientHandleClosed, serverVars
  <2>. QED  BY <1>0, <2>1, DispatchStutter
<1>3. ASSUME NEW w \in Workers,
             CloseProcessHandle(w) \/ ProcessHandleClosed(w) \/ WorkerPipeClosed(w)
      PROVE DispatchInv'
  <2>1. UNCHANGED <<rr, target, nextConn>>
    BY <1>3 DEF CloseProcessHandle, ProcessHandleClosed, WorkerPipeClosed, serverVars,
              connVars
  <2>. QED  BY <1>0, <2>1, DispatchStutter
<1>4. ASSUME NEW s \in StopSigs, StopSignal(s) PROVE DispatchInv'
  <2>1. UNCHANGED <<rr, target, nextConn>>
    BY <1>4 DEF StopSignal, connVars
  <2>. QED  BY <1>0, <2>1, DispatchStutter
<1>5. ASSUME NEW s \in Signals, HandlerClosed(s) PROVE DispatchInv'
  <2>1. UNCHANGED <<rr, target, nextConn>>
    BY <1>5 DEF HandlerClosed, connVars
  <2>. QED  BY <1>0, <2>1, DispatchStutter
<1>6. ASSUME NEW l \in Listeners, TcpListenerClosed(l) PROVE DispatchInv'
  <2>1. UNCHANGED <<rr, target, nextConn>>
    BY <1>6 DEF TcpListenerClosed, connVars
  <2>. QED  BY <1>0, <2>1, DispatchStutter
<1>7. CASE Exited \/ UNCHANGED vars
  <2>1. UNCHANGED <<rr, target, nextConn>>
    BY <1>7 DEF Exited, vars, serverVars, connVars
  <2>. QED  BY <1>0, <2>1, DispatchStutter
<1>. QED  BY <1>1, <1>2, <1>3, <1>4, <1>5, <1>6, <1>7 DEF Next

(* server_on_new_connection passes each accepted socket to the worker      *)
(* round_robin_counter names and then advances the counter modulo the      *)
(* number of workers, so after k dispatches worker w has been given        *)
(* exactly ceil((k - w) / N) of them: for every number N of workers and    *)
(* of connections, whether or not uv_accept fails in between.              *)
THEOREM RoundRobinHolds == Spec => []RoundRobin
<1>1. TypeOK /\ DispatchInv /\ [Next]_vars => DispatchInv'
  BY DispatchStep
<1>2. DispatchInv => RoundRobin
  BY DEF DispatchInv
<1>. QED  BY <1>1, <1>2, DispatchInitInv, TypeCorrect, PTL DEF Spec

=============================================================================
