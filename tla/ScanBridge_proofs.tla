-------------------------- MODULE ScanBridge_proofs --------------------------
(***************************************************************************)
(* Proofs about ScanBridge, for any set of threads, any failure threshold  *)
(* and any number of retries.                                              *)
(***************************************************************************)
EXTENDS ScanBridge, TLAPS

(* ShadowStrikeScanBridgeInitialize establishes the invariant.             *)
LEMMA InitInv == Init => IInv
<1> SUFFICES ASSUME Init PROVE IInv
  OBVIOUS
<1>1. TypeOK
  <2>1. failures \in 0 .. Threshold /\ 0 \in 0 .. MaxRetries
    BY BridgeAssumption DEF Init
  <2> QED BY <2>1 DEF Init, TypeOK, Circuits, Labels
<1>2. ProtectedExact /\ BufferOwned /\ HoldingExact /\ ListsGone
  BY DEF Init, ProtectedExact, BufferOwned, HoldingExact, ListsGone, Inside
<1> QED BY <1>1, <1>2 DEF IInv

(* Every step of a thread, of the shutdown and of the environment keeps    *)
(* every variable within its type; a retry is only counted below           *)
(* SB_MAX_RETRY_COUNT.                                                     *)
LEMMA TypeStep == ASSUME TypeOK, [Next]_vars PROVE TypeOK'
<1> USE BridgeAssumption
    DEF TypeOK, upVars, breakerVars, eventVars, localVars, resultVars, Goto,
        Labels
<1>1. ASSUME NEW t \in Threads, Call(t) PROVE TypeOK'
  BY <1>1 DEF Call, SbSendScanRequest, SendEvent
<1>2. ASSUME NEW t \in Threads, ThreadStep(t) PROVE TypeOK'
  <2>1. CASE CheckShuttingDown(t)
    BY <2>1 DEF CheckShuttingDown, Refuse
  <2>2. CASE AcquireRundownProtection(t)
    BY <2>2 DEF AcquireRundownProtection, Refuse
  <2>3. CASE ReleaseRundownProtection(t)
    BY <2>3 DEF ReleaseRundownProtection, Circuits
  <2>4. CASE CheckState(t)
    BY <2>4 DEF CheckState
  <2>5. CASE CheckAge(t)
    BY <2>5 DEF CheckAge
  <2>6. CASE HalfOpenCircuit(t)
    BY <2>6 DEF HalfOpenCircuit, Circuits
  <2>7. CASE SendAttempt(t)
    <3>1. PICK status \in Statuses :
            IF MayRetry(t, status)
            THEN NextAttempt(t) /\ UNCHANGED <<pc, resultVars>>
            ELSE /\ timedOut' = IF status = "TIMEOUT" THEN timedOut \cup {t}
                                                     ELSE timedOut
                 /\ verdict' = [verdict EXCEPT ![t] = ScanVerdict(status)]
                 /\ Goto(t, IF NT_SUCCESS(status) THEN "success"
                                                  ELSE "failure")
                 /\ LastAttempt(t)
      BY <2>7 DEF SendAttempt, Statuses
    <3>2. ScanVerdict(status) \in {"Reply", "Unknown", "Timeout", "Error"}
      BY DEF ScanVerdict
    <3>3. attempt' \in [Threads -> 0 .. MaxRetries]
      BY <3>1 DEF MayRetry, NextAttempt, LastAttempt
    <3> QED BY <2>7, <3>1, <3>2, <3>3 DEF SendAttempt
  <2>8. CASE RecordRead(t)
    BY <2>8 DEF RecordRead
  <2>9. CASE RecordSuccess(t)
    BY <2>9 DEF RecordSuccess
  <2>10. CASE RecordFailure(t)
    BY <2>10 DEF RecordFailure
  <2>11. CASE TransitionStamp(t)
    BY <2>11 DEF TransitionStamp
  <2>12. CASE TransitionCircuitState(t)
    BY <2>12 DEF TransitionCircuitState, Circuits
  <2>13. CASE AllocateMessageBuffer(t)
    BY <2>13 DEF AllocateMessageBuffer
  <2>14. CASE AcquirePort(t)
    BY <2>14 DEF AcquirePort, LastAttempt
  <2>15. CASE SendWithRetry(t)
    BY <2>15 DEF SendWithRetry, MayRetry, NextAttempt, LastAttempt
  <2>16. CASE FreeMessageBuffer(t)
    BY <2>16 DEF FreeMessageBuffer
  <2> QED
    BY <1>2, <2>1, <2>2, <2>3, <2>4, <2>5, <2>6, <2>7, <2>8, <2>9, <2>10,
       <2>11, <2>12, <2>13, <2>14, <2>15, <2>16
    DEF ThreadStep
<1>3. CASE ShutdownBegin \/ ShutdownStep
  BY <1>3 DEF ShutdownBegin, ShutdownStep, ShutdownWait, ShutdownDeleteLists,
              ShutdownDone
<1>4. CASE Tick
  BY <1>4 DEF Tick
<1>5. CASE Heal
  BY <1>5 DEF Heal
<1>6. CASE UNCHANGED vars
  BY <1>6 DEF vars
<1> QED BY <1>1, <1>2, <1>3, <1>4, <1>5, <1>6 DEF Next

(* A step between two labels inside a call, or between two outside, that   *)
(* takes and gives back nothing.                                           *)
PlainStep(t) ==
    /\ UNCHANGED <<rundown, lists, protected, buffer, holding>>
    /\ \E label : pc' = [pc EXCEPT ![t] = label]
    /\ t \in Inside <=> t \in Inside'
    /\ pc[t] \notin {"acquirePort", "sendEvent", "free"}
    /\ pc'[t] # "sendEvent"

(* The circuit breaker, the retry loop of the scans and the look at        *)
(* ShuttingDown are such steps.                                            *)
LEMMA BreakerPlain ==
    ASSUME TypeOK, NEW t \in Threads,
           \/ Call(t) \/ CheckShuttingDown(t) \/ CheckState(t) \/ CheckAge(t)
           \/ HalfOpenCircuit(t) \/ SendAttempt(t) \/ RecordRead(t)
           \/ RecordSuccess(t) \/ RecordFailure(t) \/ TransitionStamp(t)
           \/ TransitionCircuitState(t)
    PROVE  PlainStep(t)
<1> USE DEF TypeOK, upVars, eventVars, Goto, PlainStep, Inside
<1>1. CASE Call(t)
  BY <1>1 DEF Call, SbSendScanRequest, SendEvent
<1>2. CASE CheckShuttingDown(t)
  BY <1>2 DEF CheckShuttingDown, Refuse
<1>3. CASE CheckState(t)
  BY <1>3 DEF CheckState
<1>4. CASE CheckAge(t)
  BY <1>4 DEF CheckAge
<1>5. CASE HalfOpenCircuit(t)
  BY <1>5 DEF HalfOpenCircuit
<1>6. CASE SendAttempt(t)
  <2>1. pc[t] = "attempt" /\ UNCHANGED <<rundown, lists, protected, buffer, holding>>
    BY <1>6 DEF SendAttempt
  <2>2. \/ UNCHANGED pc
        \/ \E label \in {"success", "failure"} : pc' = [pc EXCEPT ![t] = label]
    BY <1>6 DEF SendAttempt
  <2>3. CASE UNCHANGED pc
    <3>1. pc' = [pc EXCEPT ![t] = "attempt"]
      BY <2>1, <2>3
    <3> QED BY <2>1, <3>1
  <2>4. CASE \E label \in {"success", "failure"} : pc' = [pc EXCEPT ![t] = label]
    BY <2>1, <2>4
  <2> QED BY <2>2, <2>3, <2>4
<1>7. CASE RecordRead(t)
  BY <1>7 DEF RecordRead
<1>8. CASE RecordSuccess(t)
  BY <1>8 DEF RecordSuccess
<1>9. CASE RecordFailure(t)
  BY <1>9 DEF RecordFailure
<1>10. CASE TransitionStamp(t)
  BY <1>10 DEF TransitionStamp
<1>11. CASE TransitionCircuitState(t)
  BY <1>11 DEF TransitionCircuitState
<1> QED
  BY <1>1, <1>2, <1>3, <1>4, <1>5, <1>6, <1>7, <1>8, <1>9, <1>10, <1>11

(* Every step preserves the invariant.                                     *)
LEMMA NextInv == IInv /\ [Next]_vars => IInv'
<1> SUFFICES ASSUME IInv, [Next]_vars PROVE IInv'
  OBVIOUS
<1>1. TypeOK /\ TypeOK'
  BY TypeStep DEF IInv
<1> USE <1>1 DEF IInv
<1> DEFINE Rest == ProtectedExact /\ BufferOwned /\ HoldingExact /\ ListsGone
<1>2. ASSUME NEW t \in Threads, PlainStep(t) PROVE Rest'
  BY <1>2
  DEF PlainStep, TypeOK, Inside, ProtectedExact, BufferOwned, HoldingExact,
      ListsGone
<1>3. ASSUME NEW t \in Threads, Call(t) \/ ThreadStep(t) PROVE Rest'
  <2> USE DEF TypeOK, upVars, eventVars, Goto, Inside, ProtectedExact,
              BufferOwned, HoldingExact, ListsGone
  <2>1. CASE AcquireRundownProtection(t)
    BY <2>1 DEF AcquireRundownProtection, Refuse
  <2>2. CASE ReleaseRundownProtection(t)
    BY <2>2 DEF ReleaseRundownProtection
  <2>3. CASE AllocateMessageBuffer(t)
    BY <2>3 DEF AllocateMessageBuffer
  <2>4. CASE AcquirePort(t)
    BY <2>4 DEF AcquirePort
  <2>5. CASE SendWithRetry(t)
    BY <2>5 DEF SendWithRetry
  <2>6. CASE FreeMessageBuffer(t)
    BY <2>6 DEF FreeMessageBuffer
  <2> QED
    BY <1>2, <1>3, <2>1, <2>2, <2>3, <2>4, <2>5, <2>6, BreakerPlain
    DEF ThreadStep
<1>4. CASE ShutdownBegin \/ ShutdownStep
  BY <1>4
  DEF ShutdownBegin, ShutdownStep, ShutdownWait, ShutdownDeleteLists,
      ShutdownDone, eventVars, Inside, ProtectedExact, BufferOwned,
      HoldingExact, ListsGone
<1>5. CASE Tick \/ Heal \/ UNCHANGED vars
  BY <1>5
  DEF Tick, Heal, vars, upVars, eventVars, Inside, ProtectedExact,
      BufferOwned, HoldingExact, ListsGone
<1> QED BY <1>1, <1>3, <1>4, <1>5 DEF Next

(* The invariant holds in every state of the bridge.                       *)
THEOREM InductiveInvariant == Spec => []IInv
  BY InitInv, NextInv, PTL DEF Spec

(* Every variable keeps its type; in particular the attempts of a scan and *)
(* of an event stay within SB_MAX_RETRY_COUNT.                             *)
THEOREM TypeCorrect == Spec => []TypeOK
<1>1. IInv => TypeOK
  BY DEF IInv
<1> QED BY <1>1, InductiveInvariant, PTL

(* The lookaside lists are only deleted when no call is inside the bridge  *)
(* and none of their buffers is left, however the shutdown and the calls   *)
(* interleave.                                                             *)
THEOREM ShutdownOutlivesCalls == Spec => []ListsOutliveCalls
<1>1. IInv => ListsOutliveCalls
  BY DEF IInv, TypeOK, ProtectedExact, BufferOwned, HoldingExact, ListsGone,
         ListsOutliveCalls, Inside
<1> QED BY <1>1, InductiveInvariant, PTL

=============================================================================
