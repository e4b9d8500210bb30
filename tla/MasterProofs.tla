---------------------------- MODULE MasterProofs ----------------------------
(***************************************************************************)
(* Proofs about the master (Master.tla), for every number of workers,      *)
(* every finite set of listeners and every bound on connections.           *)
(*                                                                         *)
(* LoopStopsQuiescent is not inductive by itself: the loop is stopped when *)
(* the three active_* counters reach zero, so the proof needs that each    *)
(* counter equals the number of handles of its kind still open            *)
(* (CountersAccurate), and that no handle is closed before server_stop has *)
(* run (NotStoppingAllOpen), without which a fresh server_stop could       *)
(* find the counters at zero.                                              *)
(***************************************************************************)
EXTENDS Master, FiniteSetTheorems, TLAPS

CountersAccurate ==
    /\ activeWorkers = Cardinality(LiveWorkers)
    /\ activeListeners = Cardinality(OpenListeners)
    /\ activeHandlers = Cardinality(OpenSignals)

NotStoppingAllOpen ==
    ~stopping => /\ \A s \in Signals : signal[s] = "active"
                 /\ \A l \in Listeners : listener[l] = "listening"

IInv == TypeOK /\ CountersAccurate /\ NotStoppingAllOpen /\ LoopStopsQuiescent


-----------------------------------------------------------------------------
(* Facts about the constant sets.                                          *)

LEMMA FiniteConstants ==
    /\ IsFiniteSet(Workers) /\ Cardinality(Workers) = NumWorkers
    /\ IsFiniteSet(Listeners) /\ Cardinality(Listeners) \in Nat
    /\ IsFiniteSet(Signals) /\ Cardinality(Signals) = 3
<1>1. IsFiniteSet(Workers) /\ Cardinality(Workers) = NumWorkers
  BY ConstantsAssumption, FS_Interval DEF Workers
<1>2. IsFiniteSet(Listeners) /\ Cardinality(Listeners) \in Nat
  BY ConstantsAssumption, FS_CardinalityType
<1>3. IsFiniteSet(Signals) /\ Cardinality(Signals) = 3
  <2>1. IsFiniteSet({"SIGPIPE"}) /\ Cardinality({"SIGPIPE"}) = 1
    BY FS_Singleton
  <2>2. IsFiniteSet({"SIGPIPE"} \cup {"SIGINT"})
        /\ Cardinality({"SIGPIPE"} \cup {"SIGINT"}) = 2
    BY <2>1, FS_AddElement
  <2>3. IsFiniteSet(({"SIGPIPE"} \cup {"SIGINT"}) \cup {"SIGTERM"})
        /\ Cardinality(({"SIGPIPE"} \cup {"SIGINT"}) \cup {"SIGTERM"}) = 3
    BY <2>2, FS_AddElement
  <2>4. Signals = ({"SIGPIPE"} \cup {"SIGINT"}) \cup {"SIGTERM"}
    BY DEF Signals
  <2>. QED  BY <2>3, <2>4
<1>. QED  BY <1>1, <1>2, <1>3

(* Removing a member of a finite set lowers its cardinality by one. *)
LEMMA CardRemove ==
    ASSUME NEW S, IsFiniteSet(S), NEW x \in S
    PROVE  /\ IsFiniteSet(S \ {x})
           /\ Cardinality(S \ {x}) = Cardinality(S) - 1
BY FS_RemoveElement

(* A finite set of cardinality below one is empty. *)
LEMMA CardZero ==
    ASSUME NEW S, IsFiniteSet(S), Cardinality(S) < 1
    PROVE  S = {}
BY FS_EmptySet, FS_CardinalityType

(* A subset of a finite set has at most its cardinality. *)
LEMMA CardInRange ==
    ASSUME NEW S, NEW T, IsFiniteSet(T), S \subseteq T
    PROVE  Cardinality(S) \in 0 .. Cardinality(T)
BY FS_Subset, FS_CardinalityType

(* The three sets the counters count are finite subsets of the constants. *)
LEMMA CountedSetsFinite ==
    /\ IsFiniteSet(LiveWorkers) /\ Cardinality(LiveWorkers) \in 0 .. NumWorkers
    /\ IsFiniteSet(OpenListeners) /\ Cardinality(OpenListeners) \in 0 .. Cardinality(Listeners)
    /\ IsFiniteSet(OpenSignals) /\ Cardinality(OpenSignals) \in 0 .. 3
<1>1. LiveWorkers \subseteq Workers /\ OpenListeners \subseteq Listeners
      /\ OpenSignals \subseteq Signals
  BY DEF LiveWorkers, OpenListeners, OpenSignals
<1>. QED  BY <1>1, FiniteConstants, FS_Subset, FS_CardinalityType

-----------------------------------------------------------------------------
(* The initial state satisfies the inductive invariant. *)

LEMMA InitIInv == Init => IInv
<1> SUFFICES ASSUME Init PROVE IInv
  OBVIOUS
<1>1. LiveWorkers = Workers /\ OpenListeners = Listeners /\ OpenSignals = Signals
  BY DEF Init, ServerInit, SetupWorkers, ServerRun, LiveWorkers, OpenListeners, OpenSignals
<1>2. CountersAccurate
  BY <1>1, FiniteConstants DEF Init, ServerInit, SetupWorkers, ServerRun, CountersAccurate
<1>3. TypeOK
  <2>1. /\ rr \in Workers
        /\ activeWorkers \in 0 .. NumWorkers
        /\ activeListeners \in 0 .. Cardinality(Listeners)
        /\ activeHandlers \in 0 .. 3
        /\ nextConn \in 1 .. MaxConns + 1
    BY ConstantsAssumption, FiniteConstants DEF Init, ServerInit, SetupWorkers, ServerRun, Workers
  <2>2. target \in [Conns -> Workers \cup {NoWorker}]
    BY DEF Init, ServerInit, SetupWorkers, ServerRun
  <2>. QED  BY <2>1, <2>2 DEF Init, ServerInit, SetupWorkers, ServerRun, TypeOK
<1>4. NotStoppingAllOpen /\ LoopStopsQuiescent
  BY DEF Init, ServerInit, SetupWorkers, ServerRun, NotStoppingAllOpen, LoopStopsQuiescent
<1>. QED  BY <1>2, <1>3, <1>4 DEF IInv


-----------------------------------------------------------------------------
(* What server_stop_continue does once server_stop has run: nothing but,   *)
(* when every counter is down, uv_stop.                                    *)
LEMMA ContinueWhenStopping ==
    ASSUME stopping = TRUE, loopStopped \in BOOLEAN,
           NEW aw, NEW al, NEW ah, NEW sig, NEW lis,
           ServerStopContinue(aw, al, ah, sig, lis)
    PROVE  /\ signal' = sig /\ listener' = lis
           /\ UNCHANGED <<stopped, killed, stopping, staleRead>>
           /\ loopStopped' = (loopStopped \/ AllClosed(aw, al, ah))
BY DEF ServerStopContinue, ServerStop

(* What server_stop does the first time it runs: every signal handle and   *)
(* listener closing; the loop is not stopped, as the signal handles are    *)
(* still counted.                                                          *)
LEMMA FreshStop ==
    ASSUME IInv, stopping = FALSE, NEW aw, NEW al,
           ServerStop(aw, al, activeHandlers, signal, listener)
    PROVE  /\ stopping' = TRUE
           /\ signal' = [s \in Signals |-> "closing"]
           /\ listener' = [l \in Listeners |-> "closing"]
           /\ stopped' \in [Workers -> BOOLEAN]
           /\ killed' \in [Workers -> BOOLEAN]
           /\ staleRead' \in BOOLEAN
           /\ loopStopped' = FALSE
<1>1. activeHandlers = 3
  <2>1. OpenSignals = Signals
    BY DEF IInv, NotStoppingAllOpen, OpenSignals
  <2>. QED  BY <2>1, FiniteConstants DEF IInv, CountersAccurate
<1>2. ~AllClosed(aw, al, activeHandlers)
  BY <1>1 DEF AllClosed
<1>3. /\ stopping' = TRUE
      /\ signal' = [s \in Signals |-> "closing"]
      /\ listener' = [l \in Listeners |-> "closing"]
      /\ stopped' = [w \in Workers |-> stopped[w] \/ w \in ToKill(aw)]
      /\ killed' = [w \in Workers |-> killed[w] \/ w \in ToKill(aw)]
      /\ staleRead' = (staleRead \/ (aw > 0 /\ \E w \in Workers : slot[w] = "freed"))
      /\ loopStopped' = AllClosed(aw, al, activeHandlers)
  BY DEF ServerStop
<1>4. stopped \in [Workers -> BOOLEAN] /\ killed \in [Workers -> BOOLEAN]
      /\ staleRead \in BOOLEAN
  BY DEF IInv, TypeOK
<1>. QED  BY <1>2, <1>3, <1>4

(* The new values of the counted sets after a fresh server_stop. *)
LEMMA FreshStopSets ==
    ASSUME signal' = [s \in Signals |-> "closing"],
           listener' = [l \in Listeners |-> "closing"]
    PROVE  OpenSignals' = Signals /\ OpenListeners' = Listeners
BY DEF OpenSignals, OpenListeners


(* With the counters accurate, all three at zero means every counted       *)
(* handle is closed: the step at which uv_stop is called is quiescent.     *)
LEMMA QuiescentWhenZero ==
    ASSUME CountersAccurate', AllClosed(activeWorkers', activeListeners', activeHandlers')
    PROVE  LoopStopsQuiescent!2'
<1>1. /\ IsFiniteSet(LiveWorkers') /\ IsFiniteSet(OpenListeners')
      /\ IsFiniteSet(OpenSignals')
  <2>1. /\ LiveWorkers' \subseteq Workers /\ OpenListeners' \subseteq Listeners
        /\ OpenSignals' \subseteq Signals
    BY DEF LiveWorkers, OpenListeners, OpenSignals
  <2>. QED  BY <2>1, FiniteConstants, FS_Subset
<1>2. LiveWorkers' = {} /\ OpenListeners' = {} /\ OpenSignals' = {}
  BY <1>1, CardZero DEF CountersAccurate, AllClosed
<1>. QED  BY <1>2 DEF LiveWorkers, OpenListeners, OpenSignals, LoopStopsQuiescent

-----------------------------------------------------------------------------
(* Every step keeps the inductive invariant.                               *)

LEMMA StepIInv == IInv /\ [Next]_vars => IInv'
<1> SUFFICES ASSUME IInv, [Next]_vars PROVE IInv'
  OBVIOUS
<1>0. TypeOK /\ CountersAccurate /\ NotStoppingAllOpen /\ LoopStopsQuiescent
  BY DEF IInv
<1>1. ASSUME NEW l \in Listeners, ServerOnNewConnection(l) PROVE IInv'
  <2>1. /\ UNCHANGED <<slot, stopped, killed, listener, signal, stopping, loopStopped,
                       activeWorkers, activeListeners, activeHandlers>>
        /\ nextConn \in Conns /\ nextConn' = nextConn + 1
    BY <1>1 DEF ServerOnNewConnection, workerVars
  <2>2. CountersAccurate' /\ NotStoppingAllOpen' /\ LoopStopsQuiescent'
    BY <1>0, <2>1 DEF CountersAccurate, LiveWorkers, OpenListeners, OpenSignals,
                      NotStoppingAllOpen, LoopStopsQuiescent
  <2>3. /\ cmem' \in [Conns -> {"none", "alloc", "freed"}]
        /\ chandle' \in [Conns -> {"none", "open", "closing", "closed"}]
        /\ cwrite' \in [Conns -> {"none", "pending", "ok", "error", "lost"}]
        /\ target' \in [Conns -> Workers \cup {NoWorker}]
        /\ rr' \in Workers /\ staleRead' \in BOOLEAN
    <3>1. CASE /\ chandle' = [chandle EXCEPT ![nextConn] = "open"]
               /\ cmem' = [cmem EXCEPT ![nextConn] = "alloc"]
               /\ target' = [target EXCEPT ![nextConn] = rr]
               /\ \E outcome \in Write2Outcomes(slot[rr]) :
                     cwrite' = [cwrite EXCEPT ![nextConn] = outcome]
               /\ staleRead' = (staleRead \/ slot[rr] = "freed")
               /\ rr' = NextWorker
      <4>1. NextWorker \in Workers
        BY <1>0, ConstantsAssumption DEF TypeOK, NextWorker, Workers
      <4>2. Write2Outcomes(slot[rr]) \subseteq {"pending", "lost"}
        BY <1>0 DEF TypeOK, Write2Outcomes
      <4>. QED  BY <3>1, <4>1, <4>2, <2>1, <1>0 DEF TypeOK
    <3>2. CASE /\ AcceptMayFail
               /\ chandle' = [chandle EXCEPT ![nextConn] = "closing"]
               /\ cmem' = [cmem EXCEPT ![nextConn] = "freed"]
               /\ UNCHANGED <<cwrite, target, rr, staleRead>>
      BY <3>2, <2>1, <1>0 DEF TypeOK
    <3>. QED  BY <3>1, <3>2, <1>1 DEF ServerOnNewConnection
  <2>4. TypeOK'
    BY <1>0, <2>1, <2>3, ConstantsAssumption DEF TypeOK, Conns
  <2>. QED  BY <2>2, <2>4 DEF IInv
<1>2. ASSUME NEW c \in Conns, OnWriteComplete(c) \/ ClientHandleClosed(c) PROVE IInv'
  <2>1. UNCHANGED <<workerVars, serverVars, nextConn, target, staleRead>>
    BY <1>2 DEF OnWriteComplete, ClientHandleClosed
  <2>2. CountersAccurate' /\ NotStoppingAllOpen' /\ LoopStopsQuiescent'
    BY <1>0, <2>1 DEF CountersAccurate, LiveWorkers, OpenListeners, OpenSignals,
                      NotStoppingAllOpen, LoopStopsQuiescent, workerVars, serverVars
  <2>3. TypeOK'
    BY <1>0, <1>2, <2>1 DEF OnWriteComplete, ClientHandleClosed, TypeOK,
                            workerVars, serverVars
  <2>. QED  BY <2>2, <2>3 DEF IInv
<1>3. ASSUME NEW w \in Workers, CloseProcessHandle(w) \/ ProcessHandleClosed(w)
      PROVE IInv'
  <2>1. /\ UNCHANGED <<killed, serverVars, connVars, staleRead>>
        /\ ~loopStopped
    BY <1>3 DEF CloseProcessHandle, ProcessHandleClosed
  <2>2. LiveWorkers' = LiveWorkers
    BY <1>3, <1>0 DEF CloseProcessHandle, ProcessHandleClosed, LiveWorkers, TypeOK
  <2>3. CountersAccurate' /\ NotStoppingAllOpen' /\ LoopStopsQuiescent'
    BY <1>0, <2>1, <2>2 DEF CountersAccurate, OpenListeners, OpenSignals,
                      NotStoppingAllOpen, LoopStopsQuiescent, serverVars
  <2>4. slot' \in [Workers -> {"running", "exiting", "pipeClosing", "freed"}]
        /\ stopped' \in [Workers -> BOOLEAN]
    <3>1. CASE CloseProcessHandle(w)
      BY <3>1, <1>0 DEF CloseProcessHandle, TypeOK
    <3>2. CASE ProcessHandleClosed(w)
      BY <3>2, <1>0 DEF ProcessHandleClosed, TypeOK
    <3>. QED  BY <3>1, <3>2, <1>3
  <2>5. TypeOK'
    BY <1>0, <2>1, <2>4 DEF TypeOK, serverVars, connVars
  <2>. QED  BY <2>3, <2>5 DEF IInv
<1>4. ASSUME NEW w \in Workers, WorkerPipeClosed(w) PROVE IInv'
  <2>1. /\ slot[w] = "pipeClosing" /\ ~loopStopped
        /\ slot' = [slot EXCEPT ![w] = "freed"]
        /\ activeWorkers' = activeWorkers - 1
        /\ ServerStopContinue(activeWorkers - 1, activeListeners, activeHandlers,
                              signal, listener)
        /\ UNCHANGED <<rr, activeListeners, activeHandlers, nextConn, cmem, target>>
    BY <1>4 DEF WorkerPipeClosed
  <2>2. LiveWorkers' = LiveWorkers \ {w} /\ w \in LiveWorkers
    BY <2>1, <1>0 DEF LiveWorkers, TypeOK
  <2>3. activeWorkers' = Cardinality(LiveWorkers')
    BY <2>1, <2>2, <1>0, CardRemove, CountedSetsFinite DEF CountersAccurate
  <2>4. /\ cwrite' \in [Conns -> {"none", "pending", "ok", "error", "lost"}]
        /\ chandle' \in [Conns -> {"none", "open", "closing", "closed"}]
        /\ slot' \in [Workers -> {"running", "exiting", "pipeClosing", "freed"}]
    BY <1>4, <1>0 DEF WorkerPipeClosed, TypeOK
  <2>5. activeWorkers' \in 0 .. NumWorkers
    <3>1. LiveWorkers' \subseteq Workers
      BY DEF LiveWorkers
    <3>. QED  BY <2>3, <3>1, CardInRange, FiniteConstants
  <2>6. CASE stopping
    <3>1. /\ signal' = signal /\ listener' = listener
          /\ UNCHANGED <<stopped, killed, stopping, staleRead>>
          /\ loopStopped' \in BOOLEAN
          /\ loopStopped' => AllClosed(activeWorkers', activeListeners', activeHandlers')
      <4>1. /\ signal' = signal /\ listener' = listener
            /\ UNCHANGED <<stopped, killed, stopping, staleRead>>
            /\ loopStopped' = (loopStopped \/ AllClosed(activeWorkers - 1, activeListeners,
                                                       activeHandlers))
        <5>1. ServerStopContinue(activeWorkers - 1, activeListeners, activeHandlers,
                                 signal, listener)
          BY <2>1
        <5>2. stopping = TRUE /\ loopStopped \in BOOLEAN
          BY <2>6, <1>0 DEF TypeOK
        <5>. QED  BY <5>1, <5>2, ContinueWhenStopping
      <4>2. AllClosed(activeWorkers - 1, activeListeners, activeHandlers)
              => AllClosed(activeWorkers', activeListeners', activeHandlers')
        BY <2>1 DEF AllClosed
      <4>. QED  BY <4>1, <4>2, <2>1
    <3>2. CountersAccurate'
      BY <3>1, <2>1, <2>3, <1>0 DEF CountersAccurate, OpenListeners, OpenSignals
    <3>3. LoopStopsQuiescent'
      BY <3>1, <3>2, QuiescentWhenZero DEF LoopStopsQuiescent
    <3>4. TypeOK'
      BY <3>1, <2>1, <2>4, <2>5, <1>0 DEF TypeOK
    <3>. QED  BY <2>6, <3>1, <3>2, <3>3, <3>4 DEF IInv, NotStoppingAllOpen
  <2>7. CASE ~stopping /\ activeWorkers - 1 < 1
    <3>1. OpenSignals = Signals /\ OpenListeners = Listeners
      BY <2>7, <1>0 DEF NotStoppingAllOpen, OpenSignals, OpenListeners
    <3>2. activeHandlers = 3
      BY <3>1, <1>0, FiniteConstants DEF CountersAccurate
    <3>3. /\ stopping' = TRUE
          /\ signal' = [s \in Signals |-> "closing"]
          /\ listener' = [l \in Listeners |-> "closing"]
          /\ stopped' \in [Workers -> BOOLEAN] /\ killed' \in [Workers -> BOOLEAN]
          /\ staleRead' \in BOOLEAN /\ loopStopped' = FALSE
      <4>1. ServerStop(activeWorkers - 1, activeListeners, activeHandlers, signal, listener)
        BY <2>1, <2>7, <3>2 DEF ServerStopContinue, AllClosed
      <4>2. /\ stopping' = TRUE
            /\ signal' = [s \in Signals |-> "closing"]
            /\ listener' = [l \in Listeners |-> "closing"]
            /\ stopped' = [x \in Workers |-> stopped[x] \/ x \in ToKill(activeWorkers - 1)]
            /\ killed' = [x \in Workers |-> killed[x] \/ x \in ToKill(activeWorkers - 1)]
            /\ staleRead' \in BOOLEAN
            /\ loopStopped' = FALSE
        BY <4>1, <2>7, <3>2, <1>0 DEF ServerStop, AllClosed, TypeOK
      <4>3. stopped' \in [Workers -> BOOLEAN] /\ killed' \in [Workers -> BOOLEAN]
        BY <4>2, Zenon
      <4>. QED  BY <4>2, <4>3
    <3>4. OpenSignals' = Signals /\ OpenListeners' = Listeners
      BY <3>3 DEF OpenSignals, OpenListeners
    <3>5. CountersAccurate'
      BY <3>1, <3>4, <2>1, <2>3, <1>0 DEF CountersAccurate
    <3>6. TypeOK'
      <4>1. /\ signal' \in [Signals -> {"active", "closing", "closed"}]
            /\ listener' \in [Listeners -> {"listening", "closing", "closed"}]
        BY <3>3
      <4>. QED  BY <4>1, <3>3, <2>1, <2>4, <2>5, <1>0 DEF TypeOK
    <3>. QED  BY <3>3, <3>5, <3>6 DEF IInv, NotStoppingAllOpen, LoopStopsQuiescent
  <2>8. CASE ~stopping /\ ~(activeWorkers - 1 < 1)
    <3>1. /\ signal' = signal /\ listener' = listener
          /\ UNCHANGED <<stopped, killed, stopping, loopStopped, staleRead>>
      BY <2>1, <2>8 DEF ServerStopContinue, AllClosed
    <3>2. CountersAccurate'
      BY <3>1, <2>1, <2>3, <1>0 DEF CountersAccurate, OpenListeners, OpenSignals
    <3>3. TypeOK'
      BY <3>1, <2>1, <2>4, <2>5, <1>0 DEF TypeOK
    <3>. QED  BY <2>1, <3>1, <3>2, <3>3, <1>0
              DEF IInv, NotStoppingAllOpen, LoopStopsQuiescent
  <2>. QED  BY <2>6, <2>7, <2>8
<1>5. ASSUME NEW s \in StopSigs, StopSignal(s) PROVE IInv'
  <2>1. /\ ServerStop(activeWorkers, activeListeners, activeHandlers, signal, listener)
        /\ UNCHANGED <<slot, rr, activeWorkers, activeListeners, activeHandlers, connVars>>
    BY <1>5 DEF StopSignal
  <2>2. CASE stopping
    <3>1. UNCHANGED <<signal, listener, stopped, killed, stopping, loopStopped, staleRead>>
      BY <2>1, <2>2 DEF ServerStop
    <3>. QED  BY <3>1, <2>1, <1>0 DEF IInv, TypeOK, CountersAccurate, LiveWorkers,
                 OpenListeners, OpenSignals, NotStoppingAllOpen, LoopStopsQuiescent, connVars
  <2>3. CASE ~stopping
    <3>1. /\ stopping' = TRUE
          /\ signal' = [s2 \in Signals |-> "closing"]
          /\ listener' = [l \in Listeners |-> "closing"]
          /\ stopped' \in [Workers -> BOOLEAN] /\ killed' \in [Workers -> BOOLEAN]
          /\ staleRead' \in BOOLEAN /\ loopStopped' = FALSE
      <4>1. ServerStop(activeWorkers, activeListeners, activeHandlers, signal, listener)
        BY <2>1
      <4>2. stopping = FALSE
        BY <2>3, <1>0 DEF TypeOK
      <4>. QED  BY <4>1, <4>2, FreshStop
    <3>2. OpenSignals' = Signals /\ OpenListeners' = Listeners
          /\ OpenSignals = Signals /\ OpenListeners = Listeners
      BY <3>1, <2>3, <1>0, FreshStopSets DEF NotStoppingAllOpen, OpenSignals, OpenListeners
    <3>3. CountersAccurate'
      BY <3>2, <2>1, <1>0 DEF CountersAccurate, LiveWorkers
    <3>4. TypeOK'
      BY <3>1, <2>1, <1>0 DEF TypeOK, connVars
    <3>. QED  BY <3>1, <3>3, <3>4 DEF IInv, NotStoppingAllOpen, LoopStopsQuiescent
  <2>. QED  BY <2>2, <2>3
<1>6. ASSUME NEW s \in Signals, HandlerClosed(s) PROVE IInv'
  <2>1. /\ signal[s] = "closing" /\ ~loopStopped
        /\ activeHandlers' = activeHandlers - 1
        /\ ServerStopContinue(activeWorkers, activeListeners, activeHandlers - 1,
                              [signal EXCEPT ![s] = "closed"], listener)
        /\ UNCHANGED <<slot, rr, activeWorkers, activeListeners, connVars>>
    BY <1>6 DEF HandlerClosed
  <2>2. stopping
    BY <2>1, <1>0 DEF NotStoppingAllOpen, TypeOK
  <2>3. /\ signal' = [signal EXCEPT ![s] = "closed"] /\ listener' = listener
        /\ UNCHANGED <<stopped, killed, stopping, staleRead>>
        /\ loopStopped' = AllClosed(activeWorkers', activeListeners', activeHandlers')
    <3>1. ServerStopContinue(activeWorkers, activeListeners, activeHandlers - 1,
                             [signal EXCEPT ![s] = "closed"], listener)
      BY <2>1
    <3>2. stopping = TRUE /\ loopStopped = FALSE
      BY <2>1, <2>2, <1>0 DEF TypeOK
    <3>3. /\ signal' = [signal EXCEPT ![s] = "closed"] /\ listener' = listener
          /\ UNCHANGED <<stopped, killed, stopping, staleRead>>
          /\ loopStopped' = (loopStopped \/ AllClosed(activeWorkers, activeListeners, activeHandlers - 1))
      BY <3>1, <3>2, ContinueWhenStopping
    <3>4. AllClosed(activeWorkers, activeListeners, activeHandlers - 1) = AllClosed(activeWorkers', activeListeners', activeHandlers')
      BY <2>1 DEF AllClosed, connVars
    <3>. QED  BY <3>2, <3>3, <3>4 DEF AllClosed
  <2>4. OpenSignals' = OpenSignals \ {s} /\ s \in OpenSignals
    BY <2>1, <2>3, <1>0 DEF OpenSignals, TypeOK
  <2>5. CountersAccurate'
    BY <2>1, <2>3, <2>4, <1>0, CardRemove, CountedSetsFinite
    DEF CountersAccurate, LiveWorkers, OpenListeners
  <2>6. activeHandlers' \in 0 .. 3
    <3>1. OpenSignals' \subseteq Signals
      BY DEF OpenSignals
    <3>. QED  BY <2>5, <3>1, FiniteConstants, CardInRange DEF CountersAccurate
  <2>7. TypeOK'
    <3>1. signal' \in [Signals -> {"active", "closing", "closed"}]
      BY <2>3, <1>0 DEF TypeOK
    <3>. QED  BY <3>1, <2>1, <2>3, <2>6, <1>0 DEF TypeOK, connVars, AllClosed
  <2>8. LoopStopsQuiescent'
    BY <2>3, <2>5, QuiescentWhenZero DEF LoopStopsQuiescent
  <2>. QED  BY <2>2, <2>3, <2>5, <2>7, <2>8 DEF IInv, NotStoppingAllOpen
<1>7. ASSUME NEW l \in Listeners, TcpListenerClosed(l) PROVE IInv'
  <2>1. /\ listener[l] = "closing" /\ ~loopStopped
        /\ activeListeners' = activeListeners - 1
        /\ ServerStopContinue(activeWorkers, activeListeners - 1, activeHandlers,
                              signal, [listener EXCEPT ![l] = "closed"])
        /\ UNCHANGED <<slot, rr, activeWorkers, activeHandlers, connVars>>
    BY <1>7 DEF TcpListenerClosed
  <2>2. stopping
    BY <2>1, <1>0 DEF NotStoppingAllOpen, TypeOK
  <2>3. /\ listener' = [listener EXCEPT ![l] = "closed"] /\ signal' = signal
        /\ UNCHANGED <<stopped, killed, stopping, staleRead>>
        /\ loopStopped' = AllClosed(activeWorkers', activeListeners', activeHandlers')
    <3>1. ServerStopContinue(activeWorkers, activeListeners - 1, activeHandlers,
                             signal, [listener EXCEPT ![l] = "closed"])
      BY <2>1
    <3>2. stopping = TRUE /\ loopStopped = FALSE
      BY <2>1, <2>2, <1>0 DEF TypeOK
    <3>3. /\ signal' = signal /\ listener' = [listener EXCEPT ![l] = "closed"]
          /\ UNCHANGED <<stopped, killed, stopping, staleRead>>
          /\ loopStopped' = (loopStopped \/ AllClosed(activeWorkers, activeListeners - 1, activeHandlers))
      BY <3>1, <3>2, ContinueWhenStopping
    <3>4. AllClosed(activeWorkers, activeListeners - 1, activeHandlers) = AllClosed(activeWorkers', activeListeners', activeHandlers')
      BY <2>1 DEF AllClosed, connVars
    <3>. QED  BY <3>2, <3>3, <3>4 DEF AllClosed
  <2>4. OpenListeners' = OpenListeners \ {l} /\ l \in OpenListeners
    BY <2>1, <2>3, <1>0 DEF OpenListeners, TypeOK
  <2>5. CountersAccurate'
    BY <2>1, <2>3, <2>4, <1>0, CardRemove, CountedSetsFinite
    DEF CountersAccurate, LiveWorkers, OpenSignals
  <2>6. activeListeners' \in 0 .. Cardinality(Listeners)
    <3>1. OpenListeners' \subseteq Listeners
      BY DEF OpenListeners
    <3>. QED  BY <2>5, <3>1, FiniteConstants, CardInRange DEF CountersAccurate
  <2>7. TypeOK'
    <3>1. listener' \in [Listeners -> {"listening", "closing", "closed"}]
      BY <2>3, <1>0 DEF TypeOK
    <3>. QED  BY <3>1, <2>1, <2>3, <2>6, <1>0 DEF TypeOK, connVars, AllClosed
  <2>8. LoopStopsQuiescent'
    BY <2>3, <2>5, QuiescentWhenZero DEF LoopStopsQuiescent
  <2>. QED  BY <2>2, <2>3, <2>5, <2>7, <2>8 DEF IInv, NotStoppingAllOpen
<1>8. CASE Exited \/ UNCHANGED vars
  <2>1. UNCHANGED vars
    BY <1>8 DEF Exited
  <2>. QED  BY <2>1, <1>0 DEF vars, workerVars, serverVars, connVars, IInv, TypeOK,
              CountersAccurate, LiveWorkers, OpenListeners, OpenSignals,
              NotStoppingAllOpen, LoopStopsQuiescent
<1>. QED  BY <1>1, <1>2, <1>3, <1>4, <1>5, <1>6, <1>7, <1>8 DEF Next

-----------------------------------------------------------------------------
(* The main results.                                                       *)

(* Type correctness of the master (Master!TypeOK) for every instance.      *)
THEOREM TypeCorrect == Spec => []TypeOK
<1>1. Spec => []IInv
  BY InitIInv, StepIInv, PTL DEF Spec
<1>. QED  BY <1>1, PTL DEF IInv

(* The master's loop is stopped only when every worker record has been    *)
(* released and every listener and signal handle closed                    *)
(* (Master!LoopStopsQuiescent), for every number of workers and listeners.  *)
THEOREM LoopStopsQuiescentHolds == Spec => []LoopStopsQuiescent
<1>1. Spec => []IInv
  BY InitIInv, StepIInv, PTL DEF Spec
<1>. QED  BY <1>1, PTL DEF IInv

=============================================================================
