----------------------------- MODULE ScanBridge -----------------------------
(***************************************************************************)
(* The scan bridge of the kernel driver                                    *)
(* (PhantomSensor/Communication/ScanBridge.c): rundown protection against  *)
(* the shutdown, the circuit breaker in front of the scan requests, their  *)
(* retry loop, and the event notifications, which allocate a message       *)
(* buffer and send it with retries of their own.                           *)
(*                                                                         *)
(* A thread runs SbSendScanRequestEx ("scan") or one of the functions      *)
(* ShadowStrikeSendProcessEvent and Send{Thread,Image,Registry}-           *)
(* Notification ("event"), which differ only in the message they build.    *)
(* What CommPort does with a message is abstracted to the status it        *)
(* returns, and the connection, which may come and go at any moment, to    *)
(* the outcome of each check of it.                                        *)
(*                                                                         *)
(* The breaker's State is read without its lock and acted upon later, so   *)
(* every read, every interlocked operation and every locked write is a     *)
(* step of its own.  The clock is reduced to what the breaker asks of it:  *)
(* whether the recovery time has passed since a time stamp was taken.      *)
(***************************************************************************)
EXTENDS Naturals

CONSTANTS
    Threads,
    Threshold,    \* SB_CIRCUIT_BREAKER_THRESHOLD
    MaxRetries    \* SB_MAX_RETRY_COUNT

ASSUME BridgeAssumption ==
    /\ Threshold \in Nat \ {0}
    /\ MaxRetries \in Nat

(* What FltSendMessage, or ShadowStrikeSendScanRequest around it, returns: *)
(* success, STATUS_TIMEOUT, a status on which the caller retries, or       *)
(* another error.                                                          *)
Statuses == {"SUCCESS", "TIMEOUT", "RETRIABLE", "FATAL"}

(* The NT_SUCCESS macro tests the sign; STATUS_TIMEOUT is 0x00000102.      *)
NT_SUCCESS(status) == status \in {"SUCCESS", "TIMEOUT"}

Retried(status) == status \in {"TIMEOUT", "RETRIABLE"}

Circuits == {"Closed", "Open", "HalfOpen"}

VARIABLES
    healthy,       \* user mode answers every request from now on
    initialized,   \* Initialized
    shuttingDown,  \* ShuttingDown
    rundown,       \* the rundown has begun: no new protection is granted
    protected,     \* threads that hold rundown protection
    lists,         \* the lookaside lists exist (LookasideInitialized)
    circuit,       \* CircuitBreaker.State
    failures,      \* CircuitBreaker.ConsecutiveFailures, up to Threshold
    recovered,     \* the recovery time has passed since OpenedTime
    late,          \* thread -> it has passed since its own time stamp
    buffer,        \* threads that own a buffer of a lookaside list
    holding,       \* threads that hold a client port reference
    attempt,       \* thread -> attempt
    saved,         \* thread -> the State it read in RecordSuccess/Failure
    timedOut,      \* threads whose last attempt timed out
    verdict,       \* thread -> Result->Verdict of the scan it runs
    pc             \* thread -> where it is

upVars == <<initialized, shuttingDown, rundown, lists>>
breakerVars == <<circuit, failures, recovered>>
eventVars == <<buffer, holding>>
localVars == <<attempt, saved, late>>
resultVars == <<timedOut, verdict>>
vars == <<healthy, upVars, protected, breakerVars, eventVars, localVars,
          resultVars, pc>>

Goto(t, label) == pc' = [pc EXCEPT ![t] = label]

(* ShadowStrikeScanBridgeInitialize and SbpInitializeCircuitBreaker.       *)
Init ==
    /\ healthy = FALSE
    /\ initialized = TRUE
    /\ shuttingDown = FALSE
    /\ rundown = FALSE
    /\ protected = {}
    /\ lists = TRUE
    /\ circuit = "Closed"
    /\ failures = 0
    /\ recovered = TRUE
    /\ late = [t \in Threads |-> FALSE]
    /\ buffer = {}
    /\ holding = {}
    /\ attempt = [t \in Threads |-> 0]
    /\ saved = [t \in Threads |-> "Closed"]
    /\ timedOut = {}
    /\ verdict = [t \in Threads |-> "None"]
    /\ pc = [t \in Threads |-> "idle"]

-----------------------------------------------------------------------------
(* Rundown protection, common to scans and events.                         *)

(* A call that loses against the shutdown returns at once; the result goes *)
(* with it to the caller.                                                  *)
Refuse(t) == Goto(t, "idle")

(* A call that finds the bridge not ready, or nobody connected, returns    *)
(* without a trace; this is one that goes on.                              *)
SbSendScanRequest(t) ==
    /\ pc[t] = "idle"
    /\ initialized /\ ~shuttingDown
    /\ Goto(t, "scanProtect")
    /\ UNCHANGED <<healthy, upVars, protected, breakerVars, eventVars,
                   localVars, resultVars>>

(* The event functions ask for a connection, not for the bridge.           *)
SendEvent(t) ==
    /\ pc[t] = "idle"
    /\ Goto(t, "eventProtect")
    /\ UNCHANGED <<healthy, upVars, protected, breakerVars, eventVars,
                   localVars, resultVars>>

(* SbpAcquireRundownProtection reads ShuttingDown ...                      *)
CheckShuttingDown(t) ==
    /\ pc[t] \in {"scanProtect", "eventProtect"}
    /\ IF shuttingDown
       THEN Refuse(t)
       ELSE Goto(t, IF pc[t] = "scanProtect" THEN "scanAcquire"
                                             ELSE "eventAcquire")
    /\ UNCHANGED <<healthy, upVars, protected, breakerVars, eventVars,
                   localVars, resultVars>>

(* Seeded fault: the flag was clear, the grant is taken for certain.       *)
AcquireWithoutGrant(t) ==
    /\ pc[t] \in {"scanAcquire", "eventAcquire"}
    /\ protected' = protected \cup {t}
    /\ Goto(t, IF pc[t] = "scanAcquire" THEN "check" ELSE "allocate")
    /\ UNCHANGED <<healthy, upVars, breakerVars, eventVars, localVars,
                   resultVars>>

(* ... and then asks ExAcquireRundownProtection.                           *)
AcquireRundownProtection(t) ==
    /\ pc[t] \in {"scanAcquire", "eventAcquire"}
    /\ IF rundown
       THEN Refuse(t) /\ UNCHANGED protected
       ELSE /\ protected' = protected \cup {t}
            /\ Goto(t, IF pc[t] = "scanAcquire" THEN "check" ELSE "allocate")
    /\ UNCHANGED <<healthy, upVars, breakerVars, eventVars, localVars,
                   resultVars>>

(* The end of every call that got in; its locals and its result are gone.  *)
ReleaseRundownProtection(t) ==
    /\ pc[t] = "release"
    /\ protected' = protected \ {t}
    /\ saved' = [saved EXCEPT ![t] = "Closed"]
    /\ late' = [late EXCEPT ![t] = FALSE]
    /\ timedOut' = timedOut \ {t}
    /\ verdict' = [verdict EXCEPT ![t] = "None"]
    /\ Goto(t, "idle")
    /\ UNCHANGED <<healthy, upVars, breakerVars, eventVars, attempt>>

-----------------------------------------------------------------------------
(* SbpCheckCircuitBreaker.                                                 *)

CheckState(t) ==
    /\ pc[t] = "check"
    /\ Goto(t, IF circuit = "Open" THEN "age" ELSE "attempt")
    /\ UNCHANGED <<healthy, upVars, protected, breakerVars, eventVars,
                   localVars, resultVars>>

(* Seeded fault: the rejected scan keeps its rundown protection.           *)
CheckAgeLeaks(t) ==
    /\ pc[t] = "age"
    /\ Goto(t, IF recovered THEN "halfOpen" ELSE "idle")
    /\ UNCHANGED <<healthy, upVars, protected, breakerVars, eventVars,
                   localVars, resultVars>>

(* The age of OpenedTime; a circuit that is open for less than the         *)
(* recovery time rejects the scan.                                         *)
CheckAge(t) ==
    /\ pc[t] = "age"
    /\ IF recovered
       THEN Goto(t, "halfOpen") /\ UNCHANGED verdict
       ELSE /\ Goto(t, "release")
            /\ verdict' = [verdict EXCEPT ![t] = "Error"]
    /\ UNCHANGED <<healthy, upVars, protected, breakerVars, eventVars,
                   localVars, timedOut>>

(* InterlockedCompareExchange(&State, HalfOpen, Open); a loser goes on all *)
(* the same.                                                               *)
HalfOpenCircuit(t) ==
    /\ pc[t] = "halfOpen"
    /\ circuit' = IF circuit = "Open" THEN "HalfOpen" ELSE circuit
    /\ Goto(t, "attempt")
    /\ UNCHANGED <<healthy, upVars, protected, failures, recovered, eventVars,
                   localVars, resultVars>>

-----------------------------------------------------------------------------
(* The retry loop of SbSendScanRequestEx, and what it makes of the status. *)

(* Seeded fault: one retry too many.                                       *)
MayRetryOnceMore(t, status) ==
    ~NT_SUCCESS(status) /\ Retried(status) /\ attempt[t] <= MaxRetries

(* The condition both retry loops have.                                    *)
MayRetry(t, status) ==
    ~NT_SUCCESS(status) /\ Retried(status) /\ attempt[t] < MaxRetries

(* Seeded fault: the attempt is not counted.                               *)
NextAttemptUncounted(t) == UNCHANGED attempt

NextAttempt(t) == attempt' = [attempt EXCEPT ![t] = @ + 1]

(* The loop is left and its counter dead.                                  *)
LastAttempt(t) == attempt' = [attempt EXCEPT ![t] = 0]

ScanVerdict(status) ==
    CASE status = "SUCCESS" -> "Reply"      \* what user mode answered
      [] NT_SUCCESS(status) -> "Unknown"    \* the zeroed reply buffer
      [] status = "TIMEOUT" -> "Timeout"
      [] OTHER -> "Error"

SendAttempt(t) ==
    /\ pc[t] = "attempt"
    /\ \E status \in IF healthy THEN {"SUCCESS"} ELSE Statuses :
        IF MayRetry(t, status)
        THEN NextAttempt(t) /\ UNCHANGED <<pc, resultVars>>
        ELSE /\ timedOut' = IF status = "TIMEOUT" THEN timedOut \cup {t}
                                                 ELSE timedOut
             /\ verdict' = [verdict EXCEPT ![t] = ScanVerdict(status)]
             /\ Goto(t, IF NT_SUCCESS(status) THEN "success" ELSE "failure")
             /\ LastAttempt(t)
    /\ UNCHANGED <<healthy, upVars, protected, breakerVars, eventVars, saved,
                   late>>

(* SbpRecordSuccess and SbpRecordFailure read State first ...              *)
RecordRead(t) ==
    /\ pc[t] \in {"success", "failure"}
    /\ saved' = [saved EXCEPT ![t] = circuit]
    /\ Goto(t, IF pc[t] = "success" THEN "reset" ELSE "count")
    /\ UNCHANGED <<healthy, upVars, protected, breakerVars, eventVars,
                   attempt, late, resultVars>>

(* Seeded fault: a successful probe leaves the circuit half-open.          *)
RecordSuccessNoClose(t) ==
    /\ pc[t] = "reset"
    /\ failures' = 0
    /\ Goto(t, "release")
    /\ UNCHANGED <<healthy, upVars, protected, circuit, recovered, eventVars,
                   localVars, resultVars>>

(* ... then they update ConsecutiveFailures, which is only compared with   *)
(* the threshold and is therefore kept up to Threshold ...                 *)
RecordSuccess(t) ==
    /\ pc[t] = "reset"
    /\ failures' = 0
    /\ Goto(t, IF saved[t] = "HalfOpen" THEN "close" ELSE "release")
    /\ UNCHANGED <<healthy, upVars, protected, circuit, recovered, eventVars,
                   localVars, resultVars>>

RecordFailure(t) ==
    /\ pc[t] = "count"
    /\ failures' = IF failures < Threshold THEN failures + 1 ELSE failures
    /\ Goto(t, IF \/ saved[t] = "HalfOpen"
                  \/ saved[t] = "Closed" /\ failures + 1 >= Threshold
               THEN "stamp" ELSE "release")
    /\ UNCHANGED <<healthy, upVars, protected, circuit, recovered, eventVars,
                   localVars, resultVars>>

(* ... and SbpTransitionCircuitState takes the time before it takes the    *)
(* lock and writes the state unconditionally.                              *)
TransitionStamp(t) ==
    /\ pc[t] = "stamp"
    /\ late' = [late EXCEPT ![t] = FALSE]
    /\ Goto(t, "open")
    /\ UNCHANGED <<healthy, upVars, protected, breakerVars, eventVars,
                   attempt, saved, resultVars>>

TransitionCircuitState(t) ==
    /\ pc[t] \in {"open", "close"}
    /\ circuit' = IF pc[t] = "open" THEN "Open" ELSE "Closed"
    /\ recovered' = IF pc[t] = "open" THEN late[t] ELSE recovered
    /\ Goto(t, "release")
    /\ UNCHANGED <<healthy, upVars, protected, failures, eventVars, localVars,
                   resultVars>>

-----------------------------------------------------------------------------
(* Events: SbAllocateMessageBuffer, SbpSendWithRetry, SbFreeMessageBuffer. *)

(* The buffer comes from a lookaside list while they exist, else from the  *)
(* pool.  No buffer, no event.                                             *)
AllocateMessageBuffer(t) ==
    /\ pc[t] = "allocate"
    /\ \/ Goto(t, "release") /\ UNCHANGED buffer
       \/ /\ buffer' = IF lists THEN buffer \cup {t} ELSE buffer
          /\ Goto(t, "acquirePort")
    /\ UNCHANGED <<healthy, upVars, protected, breakerVars, holding,
                   localVars, resultVars>>

(* The connection check of SendMessageEx and AcquirePrimaryScannerPort,    *)
(* before the first attempt and again after every delay.                   *)
AcquirePort(t) ==
    /\ pc[t] = "acquirePort"
    /\ \/ /\ holding' = holding \cup {t}
          /\ Goto(t, "sendEvent")
          /\ UNCHANGED attempt
       \/ /\ ~healthy
          /\ Goto(t, "free")
          /\ LastAttempt(t)
          /\ UNCHANGED holding
    /\ UNCHANGED <<healthy, upVars, protected, breakerVars, buffer, saved,
                   late, resultVars>>

(* FltSendMessage; on every outcome the reference is released, and a       *)
(* retry takes a new one after its delay.                                  *)
SendWithRetry(t) ==
    /\ pc[t] = "sendEvent"
    /\ holding' = holding \ {t}
    /\ \E status \in IF healthy THEN {"SUCCESS"} ELSE Statuses :
        IF MayRetry(t, status)
        THEN NextAttempt(t) /\ Goto(t, "acquirePort")
        ELSE Goto(t, "free") /\ LastAttempt(t)
    /\ UNCHANGED <<healthy, upVars, protected, breakerVars, buffer, saved,
                   late, resultVars>>

FreeMessageBuffer(t) ==
    /\ pc[t] = "free"
    /\ buffer' = buffer \ {t}
    /\ Goto(t, "release")
    /\ UNCHANGED <<healthy, upVars, protected, breakerVars, holding,
                   localVars, resultVars>>

-----------------------------------------------------------------------------
(* ShadowStrikeScanBridgeShutdown.  The pending request lists it empties   *)
(* never get an entry.                                                     *)

ShutdownBegin ==
    /\ initialized /\ ~shuttingDown
    /\ shuttingDown' = TRUE
    /\ UNCHANGED <<healthy, initialized, rundown, lists, protected,
                   breakerVars, eventVars, localVars, resultVars, pc>>

(* ExWaitForRundownProtectionRelease: from its start nobody gets in ...    *)
ShutdownWait ==
    /\ shuttingDown /\ ~rundown
    /\ rundown' = TRUE
    /\ UNCHANGED <<healthy, initialized, shuttingDown, lists, protected,
                   breakerVars, eventVars, localVars, resultVars, pc>>

(* ... and it returns when everybody has left; the lists are deleted.      *)
ShutdownDeleteLists ==
    /\ rundown /\ lists
    /\ protected = {}
    /\ lists' = FALSE
    /\ UNCHANGED <<healthy, initialized, shuttingDown, rundown, protected,
                   breakerVars, eventVars, localVars, resultVars, pc>>

ShutdownDone ==
    /\ initialized /\ ~lists
    /\ initialized' = FALSE
    /\ UNCHANGED <<healthy, shuttingDown, rundown, lists, protected,
                   breakerVars, eventVars, localVars, resultVars, pc>>

ShutdownStep == ShutdownWait \/ ShutdownDeleteLists \/ ShutdownDone

-----------------------------------------------------------------------------
(* The environment.                                                        *)

(* The recovery time passes.                                               *)
Tick ==
    /\ recovered' = TRUE
    /\ late' = [t \in Threads |-> pc[t] = "open" \/ late[t]]
    /\ UNCHANGED <<healthy, upVars, protected, circuit, failures, eventVars,
                   attempt, saved, resultVars, pc>>

(* From here on user mode stays and answers in time.                       *)
Heal ==
    /\ healthy' = TRUE
    /\ UNCHANGED <<upVars, protected, breakerVars, eventVars, localVars,
                   resultVars, pc>>

-----------------------------------------------------------------------------
Call(t) == SbSendScanRequest(t) \/ SendEvent(t)

ThreadStep(t) ==
    \/ CheckShuttingDown(t) \/ AcquireRundownProtection(t)
    \/ ReleaseRundownProtection(t)
    \/ CheckState(t) \/ CheckAge(t) \/ HalfOpenCircuit(t)
    \/ SendAttempt(t) \/ RecordRead(t) \/ RecordSuccess(t) \/ RecordFailure(t)
    \/ TransitionStamp(t) \/ TransitionCircuitState(t)
    \/ AllocateMessageBuffer(t) \/ AcquirePort(t) \/ SendWithRetry(t)
    \/ FreeMessageBuffer(t)

Next ==
    \/ \E t \in Threads : Call(t) \/ ThreadStep(t)
    \/ ShutdownBegin \/ ShutdownStep
    \/ Tick \/ Heal

Spec == Init /\ [][Next]_vars

(* A call that started goes on, since sends have timeouts and delays end;  *)
(* so does the shutdown; and time passes.  Nobody is obliged to call.      *)
Fairness ==
    /\ \A t \in Threads : WF_vars(ThreadStep(t))
    /\ WF_vars(ShutdownStep)
    /\ WF_vars(Tick)

FairSpec == Spec /\ Fairness

-----------------------------------------------------------------------------
(* Properties.                                                             *)

Labels == {"idle", "scanProtect", "eventProtect", "scanAcquire",
           "eventAcquire", "check", "age", "halfOpen", "attempt", "success",
           "failure", "reset", "count", "stamp", "open", "close", "allocate",
           "acquirePort", "sendEvent", "free", "release"}

TypeOK ==
    /\ healthy \in BOOLEAN
    /\ initialized \in BOOLEAN /\ shuttingDown \in BOOLEAN
    /\ rundown \in BOOLEAN /\ lists \in BOOLEAN
    /\ protected \subseteq Threads
    /\ circuit \in Circuits
    /\ failures \in 0 .. Threshold
    /\ recovered \in BOOLEAN
    /\ late \in [Threads -> BOOLEAN]
    /\ buffer \subseteq Threads /\ holding \subseteq Threads
    /\ attempt \in [Threads -> 0 .. MaxRetries]
    /\ saved \in [Threads -> Circuits]
    /\ timedOut \subseteq Threads
    /\ verdict \in [Threads -> {"None", "Reply", "Unknown", "Timeout", "Error"}]
    /\ pc \in [Threads -> Labels]

(* A thread between the grant of its rundown protection and its release.   *)
Inside == {t \in Threads : pc[t] \notin
              {"idle", "scanProtect", "eventProtect", "scanAcquire",
               "eventAcquire"}}

(* The shutdown deletes the lookaside lists only when no thread is inside  *)
(* a protected call, and none of their buffers is left: every early return *)
(* of the scan and event functions frees and releases, and a call that     *)
(* read ShuttingDown before it was set does not slip in after the wait.    *)
ListsOutliveCalls ==
    ~lists => Inside = {} /\ buffer = {} /\ holding = {}

(* The inductive invariant behind it.  Rundown protection is held from the *)
(* grant to the release and at no other time; a buffer and a port          *)
(* reference belong to a thread that is between taking and giving back;    *)
(* the lists are gone only after the rundown has let everybody out.        *)
ProtectedExact == protected = Inside
BufferOwned ==
    \A t \in buffer : pc[t] \in {"acquirePort", "sendEvent", "free"}
HoldingExact == holding = {t \in Threads : pc[t] = "sendEvent"}
ListsGone == ~lists => rundown /\ protected = {}

IInv ==
    /\ TypeOK
    /\ ProtectedExact /\ BufferOwned /\ HoldingExact
    /\ ListsGone

(* Every scan and every event returns, whatever user mode does.            *)
CallsReturn == \A t \in Threads : pc[t] # "idle" ~> pc[t] = "idle"

(* The shutdown returns: new callers cannot keep it waiting.               *)
ShutdownReturns == shuttingDown ~> ~initialized

(* Once user mode answers again the circuit closes for good, provided that *)
(* scans keep coming, whatever the requests still in flight report.        *)
CircuitRecovers ==
    ([]<>(\E t \in Threads : pc[t] = "check"))
        => (healthy ~> [](circuit = "Closed"))

(* SbSendScanRequestEx has a branch for STATUS_TIMEOUT that sets           *)
(* Verdict_Timeout: a scan whose last send timed out returns that verdict. *)
TimeoutReported ==
    \A t \in Threads :
        pc[t] = "release" /\ t \in timedOut => verdict[t] = "Timeout"

=============================================================================
