-------------------------- MODULE MasterRefinement --------------------------
(***************************************************************************)
(* The master implements ServerLifecycle (Master!ImplementsLifecycle) for  *)
(* every number of workers and every finite set of listeners.              *)
(*                                                                         *)
(* The argument rests on the inductive invariant IInv of MasterProofs:     *)
(* with the active_* counters equal to the sizes of the sets they count,   *)
(* "every counter is zero", which is what server_stop_continue tests       *)
(* before uv_stop, is the abstract "nothing left" (LC!Drained); and with   *)
(* every handle open before server_stop, a fresh stop never halts the      *)
(* loop.  Each callback is then one abstract step or a stutter:            *)
(* worker_pipe_closed is WorkerGone, handler_closed and                   *)
(* tcp_listener_closed are HandleClosed, a first SIGINT/SIGTERM is Stop,   *)
(* and every other callback leaves the abstract state alone.               *)
(***************************************************************************)
EXTENDS MasterProofs

-----------------------------------------------------------------------------
(* A finite set has a cardinality below one exactly when it is empty. *)
LEMMA EmptyIffZero ==
    ASSUME NEW S, IsFiniteSet(S)
    PROVE  (Cardinality(S) < 1) <=> (S = {})
BY FS_EmptySet, FS_CardinalityType

(* The counted sets of the next state are finite. *)
LEMMA CountedSetsFiniteNext ==
    /\ IsFiniteSet(LiveWorkers') /\ IsFiniteSet(OpenListeners')
    /\ IsFiniteSet(OpenSignals')
<1>1. /\ LiveWorkers' \subseteq Workers /\ OpenListeners' \subseteq Listeners
      /\ OpenSignals' \subseteq Signals
  BY DEF LiveWorkers, OpenListeners, OpenSignals
<1>. QED  BY <1>1, FiniteConstants, FS_Subset

(* With accurate counters, server_stop_continue's test is the abstract     *)
(* "no worker and no handle left", in the next state.                      *)
LEMMA ZeroIffDrainedNext ==
    ASSUME CountersAccurate'
    PROVE  AllClosed(activeWorkers', activeListeners', activeHandlers')
             <=> LC!Drained(LiveWorkers', LCOpen')
<1>1. /\ (activeWorkers' < 1) <=> (LiveWorkers' = {})
      /\ (activeListeners' < 1) <=> (OpenListeners' = {})
      /\ (activeHandlers' < 1) <=> (OpenSignals' = {})
  BY CountedSetsFiniteNext, EmptyIffZero DEF CountersAccurate
<1>2. (LCOpen' = {}) <=> (OpenListeners' = {} /\ OpenSignals' = {})
  BY DEF LCOpen
<1>. QED  BY <1>1, <1>2 DEF AllClosed, LC!Drained

(* Before server_stop every listener and signal handle is open, so the     *)
(* abstract set of open handles is not empty.                              *)
LEMMA OpenWhileRunning ==
    ASSUME NotStoppingAllOpen, ~stopping
    PROVE  LCOpen # {}
<1>1. "SIGPIPE" \in OpenSignals
  BY DEF NotStoppingAllOpen, OpenSignals, Signals
<1>. QED  BY <1>1 DEF LCOpen

-----------------------------------------------------------------------------
(* Every step of the master is a step of ServerLifecycle or leaves its     *)
(* state unchanged.                                                        *)
LEMMA StepRefines == IInv /\ IInv' /\ [Next]_vars => [LC!Next]_LC!lvars
<1> SUFFICES ASSUME IInv, IInv', [Next]_vars PROVE [LC!Next]_LC!lvars
  OBVIOUS
<1>0. /\ TypeOK /\ CountersAccurate /\ NotStoppingAllOpen
      /\ CountersAccurate'
  BY DEF IInv
<1>1. ASSUME UNCHANGED <<stopping, loopStopped>>,
             LiveWorkers' = LiveWorkers, OpenListeners' = OpenListeners,
             OpenSignals' = OpenSignals
      PROVE  [LC!Next]_LC!lvars
  BY <1>1 DEF LC!lvars, LCPhase, LCOpen
<1>2. ASSUME NEW l \in Listeners, ServerOnNewConnection(l) PROVE [LC!Next]_LC!lvars
  <2>1. UNCHANGED <<slot, listener, signal, stopping, loopStopped>>
    BY <1>2 DEF ServerOnNewConnection, workerVars
  <2>. QED  BY <2>1, <1>1 DEF LiveWorkers, OpenListeners, OpenSignals
<1>3. ASSUME NEW c \in Conns, OnWriteComplete(c) \/ ClientHandleClosed(c)
      PROVE [LC!Next]_LC!lvars
  <2>1. UNCHANGED <<slot, listener, signal, stopping, loopStopped>>
    BY <1>3 DEF OnWriteComplete, ClientHandleClosed, workerVars, serverVars
  <2>. QED  BY <2>1, <1>1 DEF LiveWorkers, OpenListeners, OpenSignals
<1>4. ASSUME NEW w \in Workers, CloseProcessHandle(w) \/ ProcessHandleClosed(w)
      PROVE [LC!Next]_LC!lvars
  <2>1. UNCHANGED <<listener, signal, stopping, loopStopped>>
    BY <1>4 DEF CloseProcessHandle, ProcessHandleClosed, serverVars
  <2>2. LiveWorkers' = LiveWorkers
    BY <1>4, <1>0 DEF CloseProcessHandle, ProcessHandleClosed, LiveWorkers, TypeOK
  <2>. QED  BY <2>1, <2>2, <1>1 DEF OpenListeners, OpenSignals
<1>5. ASSUME NEW w \in Workers, WorkerPipeClosed(w) PROVE [LC!Next]_LC!lvars
  <2>1. /\ slot[w] = "pipeClosing" /\ ~loopStopped
        /\ slot' = [slot EXCEPT ![w] = "freed"]
        /\ activeWorkers' = activeWorkers - 1
        /\ ServerStopContinue(activeWorkers - 1, activeListeners, activeHandlers,
                              signal, listener)
        /\ UNCHANGED <<activeListeners, activeHandlers>>
    BY <1>5 DEF WorkerPipeClosed
  <2>2. LiveWorkers' = LiveWorkers \ {w} /\ w \in LiveWorkers
    BY <2>1, <1>0 DEF LiveWorkers, TypeOK
  <2>3. LCPhase # "stopped"
    BY <2>1 DEF LCPhase
  <2>4. ASSUME LCOpen' = LCOpen,
                        LCPhase' = IF LCPhase = "running" /\ LiveWorkers' # {}
                                   THEN "running"
                                   ELSE LC!AfterRelease(LiveWorkers', LCOpen)
                 PROVE  [LC!Next]_LC!lvars
    <3>1. LC!WorkerGone(w)
      BY <2>4, <2>2, <2>3 DEF LC!WorkerGone
    <3>. QED  BY <3>1, <2>2 DEF LC!Next
  <2>5. CASE stopping
    <3>1. /\ signal' = signal /\ listener' = listener /\ stopping' = stopping
          /\ loopStopped' = AllClosed(activeWorkers', activeListeners', activeHandlers')
      <4>1. ServerStopContinue(activeWorkers - 1, activeListeners, activeHandlers,
                               signal, listener)
        BY <2>1
      <4>2. stopping = TRUE /\ loopStopped \in BOOLEAN
        BY <2>5, <1>0 DEF TypeOK
      <4>3. /\ signal' = signal /\ listener' = listener /\ stopping' = stopping
            /\ loopStopped' = (loopStopped \/ AllClosed(activeWorkers - 1, activeListeners,
                                                       activeHandlers))
        BY <4>1, <4>2, ContinueWhenStopping
      <4>. QED  BY <4>3, <2>1 DEF AllClosed
    <3>2. LCOpen' = LCOpen
      BY <3>1 DEF LCOpen, OpenListeners, OpenSignals
    <3>3. loopStopped' <=> LC!Drained(LiveWorkers', LCOpen)
      BY <3>1, <3>2, <1>0, ZeroIffDrainedNext
    <3>4. LCPhase = "stopping" /\ LCPhase' = LC!AfterRelease(LiveWorkers', LCOpen)
      BY <2>1, <2>5, <3>1, <3>3 DEF LCPhase, LC!AfterRelease
    <3>. QED  BY <3>2, <3>4, <2>4
  <2>6. CASE ~stopping /\ activeWorkers - 1 < 1
    <3>1. activeHandlers = 3
      <4>1. OpenSignals = Signals
        BY <2>6, <1>0 DEF NotStoppingAllOpen, OpenSignals
      <4>. QED  BY <4>1, <1>0, FiniteConstants DEF CountersAccurate
    <3>2. /\ stopping' = TRUE /\ loopStopped' = FALSE
          /\ signal' = [x \in Signals |-> "closing"]
          /\ listener' = [l \in Listeners |-> "closing"]
      <4>1. ServerStop(activeWorkers - 1, activeListeners, activeHandlers, signal, listener)
        BY <2>1, <2>6, <3>1 DEF ServerStopContinue, AllClosed
      <4>2. stopping = FALSE
        BY <2>6, <1>0 DEF TypeOK
      <4>. QED  BY <4>1, <4>2, FreshStop
    <3>3. OpenSignals' = OpenSignals /\ OpenListeners' = OpenListeners
      BY <3>2, <2>6, <1>0 DEF NotStoppingAllOpen, OpenSignals, OpenListeners
    <3>4. LCOpen' = LCOpen /\ LCOpen # {}
      BY <3>3, <2>6, <1>0, OpenWhileRunning DEF LCOpen
    <3>5. LiveWorkers' = {}
      <4>1. activeWorkers' < 1
        BY <2>1, <2>6
      <4>. QED  BY <4>1, <1>0, CountedSetsFiniteNext, EmptyIffZero DEF CountersAccurate
    <3>6. LCPhase' = LC!AfterRelease(LiveWorkers', LCOpen)
      BY <3>2, <3>4, <3>5 DEF LCPhase, LC!AfterRelease, LC!Drained
    <3>. QED  BY <3>4, <3>5, <3>6, <2>4
  <2>7. CASE ~stopping /\ ~(activeWorkers - 1 < 1)
    <3>1. /\ signal' = signal /\ listener' = listener
          /\ UNCHANGED <<stopping, loopStopped>>
      BY <2>1, <2>7 DEF ServerStopContinue, AllClosed
    <3>2. LCOpen' = LCOpen
      BY <3>1 DEF LCOpen, OpenListeners, OpenSignals
    <3>3. LiveWorkers' # {}
      <4>1. ~(activeWorkers' < 1)
        BY <2>1, <2>7
      <4>. QED  BY <4>1, <1>0, CountedSetsFiniteNext, EmptyIffZero DEF CountersAccurate
    <3>4. LCPhase = "running" /\ LCPhase' = "running"
      BY <3>1, <2>1, <2>7 DEF LCPhase
    <3>. QED  BY <3>2, <3>3, <3>4, <2>4
  <2>. QED  BY <2>5, <2>6, <2>7
<1>6. ASSUME NEW s \in StopSigs, StopSignal(s) PROVE [LC!Next]_LC!lvars
  <2>1. /\ ServerStop(activeWorkers, activeListeners, activeHandlers, signal, listener)
        /\ UNCHANGED slot /\ ~loopStopped
    BY <1>6 DEF StopSignal
  <2>2. LiveWorkers' = LiveWorkers
    BY <2>1 DEF LiveWorkers
  <2>3. CASE stopping
    <3>1. UNCHANGED <<signal, listener, stopping, loopStopped>>
      BY <2>1, <2>3 DEF ServerStop
    <3>. QED  BY <3>1, <2>2, <1>1 DEF OpenListeners, OpenSignals
  <2>4. CASE ~stopping
    <3>1. /\ stopping' = TRUE /\ loopStopped' = FALSE
          /\ signal' = [x \in Signals |-> "closing"]
          /\ listener' = [l \in Listeners |-> "closing"]
      <4>1. stopping = FALSE
        BY <2>4, <1>0 DEF TypeOK
      <4>. QED  BY <2>1, <4>1, FreshStop
    <3>2. OpenSignals' = OpenSignals /\ OpenListeners' = OpenListeners
      BY <3>1, <2>4, <1>0 DEF NotStoppingAllOpen, OpenSignals, OpenListeners
    <3>3. LCOpen' = LCOpen /\ LCOpen # {}
      BY <3>2, <2>4, <1>0, OpenWhileRunning DEF LCOpen
    <3>4. LCPhase = "running" /\ LCPhase' = LC!AfterRelease(LiveWorkers, LCOpen)
      BY <3>1, <3>3, <2>1, <2>4 DEF LCPhase, LC!AfterRelease, LC!Drained
    <3>. QED  BY <3>3, <3>4, <2>2 DEF LC!Next, LC!Stop
  <2>. QED  BY <2>3, <2>4
<1>7. ASSUME NEW s \in Signals, HandlerClosed(s) PROVE [LC!Next]_LC!lvars
  <2>1. /\ signal[s] = "closing" /\ ~loopStopped
        /\ activeHandlers' = activeHandlers - 1
        /\ ServerStopContinue(activeWorkers, activeListeners, activeHandlers - 1,
                              [signal EXCEPT ![s] = "closed"], listener)
        /\ UNCHANGED <<slot, activeWorkers, activeListeners>>
    BY <1>7 DEF HandlerClosed
  <2>2. stopping = TRUE
    BY <2>1, <1>0 DEF NotStoppingAllOpen, TypeOK
  <2>3. /\ signal' = [signal EXCEPT ![s] = "closed"] /\ listener' = listener
        /\ stopping' = stopping
        /\ loopStopped' = AllClosed(activeWorkers', activeListeners', activeHandlers')
    <3>1. ServerStopContinue(activeWorkers, activeListeners, activeHandlers - 1,
                             [signal EXCEPT ![s] = "closed"], listener)
      BY <2>1
    <3>2. stopping = TRUE /\ loopStopped = FALSE
      BY <2>1, <2>2, <1>0 DEF TypeOK
    <3>3. /\ signal' = [signal EXCEPT ![s] = "closed"] /\ listener' = listener
          /\ stopping' = stopping
          /\ loopStopped' = (loopStopped \/ AllClosed(activeWorkers, activeListeners,
                                                     activeHandlers - 1))
      BY <3>1, <3>2, ContinueWhenStopping
    <3>. QED  BY <3>2, <3>3, <2>1 DEF AllClosed
  <2>4. /\ OpenSignals' = OpenSignals \ {s} /\ s \in OpenSignals
        /\ OpenListeners' = OpenListeners /\ LiveWorkers' = LiveWorkers
    BY <2>1, <2>3, <1>0 DEF OpenSignals, OpenListeners, LiveWorkers, TypeOK
  <2>5. LCOpen' = LCOpen \ {<<"signal", s>>} /\ <<"signal", s>> \in LCOpen
    BY <2>4 DEF LCOpen
  <2>6. LCPhase = "stopping" /\ LCPhase' = LC!AfterRelease(LiveWorkers, LCOpen')
    <3>1. loopStopped' <=> LC!Drained(LiveWorkers', LCOpen')
      BY <2>3, <1>0, ZeroIffDrainedNext
    <3>. QED  BY <3>1, <2>1, <2>2, <2>3, <2>4 DEF LCPhase, LC!AfterRelease
  <2>7. LC!HandleClosed(<<"signal", s>>)
    BY <2>4, <2>5, <2>6 DEF LC!HandleClosed
  <2>. QED  BY <2>5, <2>7 DEF LC!Next
<1>8. ASSUME NEW l \in Listeners, TcpListenerClosed(l) PROVE [LC!Next]_LC!lvars
  <2>1. /\ listener[l] = "closing" /\ ~loopStopped
        /\ activeListeners' = activeListeners - 1
        /\ ServerStopContinue(activeWorkers, activeListeners - 1, activeHandlers,
                              signal, [listener EXCEPT ![l] = "closed"])
        /\ UNCHANGED <<slot, activeWorkers, activeHandlers>>
    BY <1>8 DEF TcpListenerClosed
  <2>2. stopping = TRUE
    BY <2>1, <1>0 DEF NotStoppingAllOpen, TypeOK
  <2>3. /\ listener' = [listener EXCEPT ![l] = "closed"] /\ signal' = signal
        /\ stopping' = stopping
        /\ loopStopped' = AllClosed(activeWorkers', activeListeners', activeHandlers')
    <3>1. ServerStopContinue(activeWorkers, activeListeners - 1, activeHandlers,
                             signal, [listener EXCEPT ![l] = "closed"])
      BY <2>1
    <3>2. stopping = TRUE /\ loopStopped = FALSE
      BY <2>1, <2>2, <1>0 DEF TypeOK
    <3>3. /\ signal' = signal /\ listener' = [listener EXCEPT ![l] = "closed"]
          /\ stopping' = stopping
          /\ loopStopped' = (loopStopped \/ AllClosed(activeWorkers, activeListeners - 1,
                                                     activeHandlers))
      BY <3>1, <3>2, ContinueWhenStopping
    <3>. QED  BY <3>2, <3>3, <2>1 DEF AllClosed
  <2>4. /\ OpenListeners' = OpenListeners \ {l} /\ l \in OpenListeners
        /\ OpenSignals' = OpenSignals /\ LiveWorkers' = LiveWorkers
    BY <2>1, <2>3, <1>0 DEF OpenSignals, OpenListeners, LiveWorkers, TypeOK
  <2>5. LCOpen' = LCOpen \ {<<"listener", l>>} /\ <<"listener", l>> \in LCOpen
    BY <2>4 DEF LCOpen
  <2>6. LCPhase = "stopping" /\ LCPhase' = LC!AfterRelease(LiveWorkers, LCOpen')
    <3>1. loopStopped' <=> LC!Drained(LiveWorkers', LCOpen')
      BY <2>3, <1>0, ZeroIffDrainedNext
    <3>. QED  BY <3>1, <2>1, <2>2, <2>3, <2>4 DEF LCPhase, LC!AfterRelease
  <2>7. LC!HandleClosed(<<"listener", l>>)
    BY <2>4, <2>5, <2>6 DEF LC!HandleClosed
  <2>. QED  BY <2>5, <2>7 DEF LC!Next
<1>9. CASE Exited \/ UNCHANGED vars
  <2>1. UNCHANGED vars
    BY <1>9 DEF Exited
  <2>. QED  BY <2>1, <1>1 DEF vars, workerVars, serverVars, LiveWorkers,
                              OpenListeners, OpenSignals
<1>. QED  BY <1>2, <1>3, <1>4, <1>5, <1>6, <1>7, <1>8, <1>9 DEF Next

-----------------------------------------------------------------------------
(* The master's initial state is ServerLifecycle's: running, every worker *)
(* live, every listener and signal handle open.                            *)
LEMMA InitRefines == Init => LC!Init
<1> SUFFICES ASSUME Init PROVE LC!Init
  OBVIOUS
<1>1. LiveWorkers = Workers /\ OpenListeners = Listeners /\ OpenSignals = Signals
  BY DEF Init, ServerInit, SetupWorkers, ServerRun, LiveWorkers, OpenListeners, OpenSignals
<1>2. LCPhase = "running"
  BY DEF Init, ServerInit, LCPhase
<1>. QED  BY <1>1, <1>2 DEF LC!Init, LCOpen, MasterHandles

(* The master implements ServerLifecycle (Master!ImplementsLifecycle):     *)
(* server.c's callbacks start stopping only on a signal or the loss of the *)
(* last worker, never reopen what they released, and call uv_stop exactly  *)
(* when the last worker record and handle have gone.                       *)
THEOREM Refinement == Spec => ImplementsLifecycle
<1>1. Spec => []IInv
  BY InitIInv, StepIInv, PTL DEF Spec
<1>. QED  BY <1>1, StepRefines, InitRefines, PTL DEF Spec, ImplementsLifecycle, LC!Spec

=============================================================================
