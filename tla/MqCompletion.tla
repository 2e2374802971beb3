---------------------------- MODULE MqCompletion ----------------------------
(***************************************************************************)
(* Blocking messages of the kernel message queue                           *)
(* (PhantomSensor/Communication/MessageQueue.c): MqEnqueueMessageAndWait   *)
(* against MqCompleteMessage, the worker thread that expires old           *)
(* completions, and MqShutdown.                                            *)
(*                                                                         *)
(* A call allocates an MQ_PENDING_COMPLETION from a lookaside list, so     *)
(* that a structure just freed may come back with the next call.  It is    *)
(* created with two references, one for the caller and one for             *)
(* g_PendingCompletionList; whoever answers takes one more.  The last      *)
(* reference frees it.                                                     *)
(*                                                                         *)
(* A section under g_PendingCompletionLock is one step, except that of the *)
(* shutdown, which lets others run without the lock between its steps; so  *)
(* is each interlocked operation, each event operation and each read       *)
(* outside the lock.  The priority queues are left to module MessageQueue: *)
(* here a message is either accepted or refused.                           *)
(***************************************************************************)
EXTENDS Integers, FiniteSets

CONSTANTS
    Callers,      \* threads that call MqEnqueueMessageAndWait
    Completers,   \* threads that call MqCompleteMessage
    Completions,  \* memory for MQ_PENDING_COMPLETION structures
    NULL,
    Worker,       \* the worker thread
    MaxPending,   \* MQ_MAX_PENDING_COMPLETIONS
    DetachDuringExpiry  \* a caller may detach while the worker is still
                        \* busy with its list of expired completions

ASSUME CompletionAssumption ==
    /\ IsFiniteSet(Callers) /\ IsFiniteSet(Completers)
    /\ IsFiniteSet(Completions) /\ NULL \notin Completions
    /\ Callers \cap Completers = {}
    /\ Worker \notin Callers \cup Completers
    /\ "shutdown" \notin Callers \cup Completers \cup {Worker}
    /\ MaxPending \in Nat
    /\ DetachDuringExpiry \in BOOLEAN

Shutdown == "shutdown"  \* MqShutdown

Actors == Callers \cup Completers \cup {Worker, Shutdown}

VARIABLES
    mqState,      \* g_MqGlobals.State
    stopping,     \* WorkerStopping
    rundown,      \* the rundown wait has begun
    protected,    \* callers that hold rundown protection
    lookaside,    \* the lookaside lists exist
    alive,        \* completions whose Magic is valid
    refCount,     \* completion -> RefCount
    state,        \* completion -> State
    event,        \* completions whose CompletionEvent is set
    answered,     \* completions whose response fields are written
    entry,        \* completion -> the list its ListEntry is linked into
    pendingCount, \* g_PendingCompletionCount
    outstanding,  \* OutstandingCompletions
    allReleased,  \* AllCompletionsReleasedEvent
    corrupted,    \* a list operation worked on links that were not there
    on,           \* actor -> the completion it works on
    todo,         \* actor -> references it still has to release
    torn,         \* callers that returned an answer that was not there
    pc            \* actor -> where it is

lifeVars == <<mqState, stopping, rundown, lookaside>>
objVars == <<alive, refCount, state, event, answered, entry>>
countVars == <<pendingCount, outstanding, allReleased>>
vars == <<lifeVars, protected, objVars, countVars, corrupted, on, todo,
          torn, pc>>

Goto(a, label) == pc' = [pc EXCEPT ![a] = label]

(* g_PendingCompletionList, the expiredList of the worker and the          *)
(* orphanedCompletions of the shutdown.  An entry the worker removes is    *)
(* "stale" until InitializeListHead makes it point to itself.              *)
Pending == {x \in Completions : entry[x] = "pending"}
Expired == {x \in Completions : entry[x] = "expired"}
Orphans == {x \in Completions : entry[x] = "orphan"}

(* Memory the lookaside list may hand out.                                 *)
Free == Completions \ (alive \cup Orphans)

(* Only the shutdown keeps g_PendingCompletionLock for more than a step.   *)
LockFree == pc[Shutdown] \notin {"cancel", "drop", "clear"}

(* MqInitialize.                                                           *)
Init ==
    /\ mqState = "Running"
    /\ stopping = FALSE
    /\ rundown = FALSE
    /\ protected = {}
    /\ lookaside = TRUE
    /\ alive = {}
    /\ refCount = [x \in Completions |-> 0]
    /\ state = [x \in Completions |-> "Pending"]
    /\ event = {}
    /\ answered = {}
    /\ entry = [x \in Completions |-> "self"]
    /\ pendingCount = 0
    /\ outstanding = 0
    /\ allReleased = TRUE
    /\ corrupted = FALSE
    /\ on = [a \in Actors |-> NULL]
    /\ todo = [a \in Actors |-> 0]
    /\ torn = {}
    /\ pc = [a \in Actors |-> CASE a = Shutdown -> "off"
                                 [] a = Worker -> "poll"
                                 [] OTHER -> "idle"]

-----------------------------------------------------------------------------
(* MqEnqueueMessageAndWait.                                                *)

(* MqpIsRunning; a call that finds the queue not running is no step.       *)
EnqueueAndWait(c) ==
    /\ pc[c] = "idle"
    /\ mqState = "Running"
    /\ Goto(c, "protect")
    /\ UNCHANGED <<lifeVars, protected, objVars, countVars, corrupted, on,
                   todo, torn>>

AcquireRundown(c) ==
    /\ pc[c] = "protect"
    /\ IF rundown
       THEN Goto(c, "idle") /\ UNCHANGED protected
       ELSE Goto(c, "limit") /\ protected' = protected \cup {c}
    /\ UNCHANGED <<lifeVars, objVars, countVars, corrupted, on, todo, torn>>

(* Parameter checks, the limit on pending completions, the allocations and *)
(* the reservation of a place in the queue: any of them may fail and send  *)
(* the caller back.  A completion that was allocated by then is freed      *)
(* without touching OutstandingCompletions (MqpFreeUnregisteredCompletion).*)
EnqueueRefused(c) ==
    /\ pc[c] = "limit"
    /\ protected' = protected \ {c}
    /\ Goto(c, "idle")
    /\ UNCHANGED <<lifeVars, objVars, countVars, corrupted, on, todo, torn>>

(* Free structures are interchangeable, so any one of them is taken.       *)
AllocatePendingCompletion(c) ==
    /\ pc[c] = "limit"
    /\ pendingCount < MaxPending
    /\ Free # {}
    /\ LET x == CHOOSE x \in Free : TRUE IN
        /\ alive' = alive \cup {x}
        /\ refCount' = [refCount EXCEPT ![x] = 2]
        /\ entry' = [entry EXCEPT ![x] = "self"]
        /\ on' = [on EXCEPT ![c] = x]
    /\ Goto(c, "register")
    /\ UNCHANGED <<lifeVars, protected, state, event, answered, countVars,
                   corrupted, todo, torn>>

RegisterCompletion(c) ==
    /\ pc[c] = "register"
    /\ LockFree
    /\ entry' = [entry EXCEPT ![on[c]] = "pending"]
    /\ pendingCount' = pendingCount + 1
    /\ outstanding' = outstanding + 1
    /\ allReleased' = FALSE
    /\ Goto(c, "enqueue")
    /\ UNCHANGED <<lifeVars, protected, alive, refCount, state, event,
                   answered, corrupted, on, todo, torn>>

(* The message goes into its priority queue, whence user mode learns its   *)
(* id, and the rundown protection ends before the wait, which is without   *)
(* limit when TimeoutMs is 0.                                              *)
EnqueueBlockingMessage(c) ==
    /\ pc[c] = "enqueue"
    /\ protected' = protected \ {c}
    /\ \E w \in {"wait", "waitForever"} : Goto(c, w)
    /\ UNCHANGED <<lifeVars, objVars, countVars, corrupted, on, todo, torn>>

(* KeWaitForSingleObject returns because of the event ...                  *)
WaitSignalled(c) ==
    /\ pc[c] \in {"wait", "waitForever"}
    /\ on[c] \in event
    /\ Goto(c, "woken")
    /\ UNCHANGED <<lifeVars, protected, objVars, countVars, corrupted, on,
                   todo, torn>>

(* ... or of the timeout, after which State is not looked at.              *)
WaitTimeout(c) ==
    /\ pc[c] = "wait"
    /\ on[c] \notin event
    /\ Goto(c, "detach")
    /\ todo' = [todo EXCEPT ![c] = 1]
    /\ UNCHANGED <<lifeVars, protected, objVars, countVars, corrupted, on,
                   torn>>

(* A woken caller reads State and chooses its exit: the answer is copied,  *)
(* STATUS_TIMEOUT or STATUS_CANCELLED returned.  Only the last one skips   *)
(* the detach.                                                             *)
ReadCompletionState(c) ==
    /\ pc[c] = "woken"
    /\ torn' = IF state[on[c]] = "Completed" /\ on[c] \notin answered
               THEN torn \cup {c} ELSE torn
    /\ Goto(c, IF state[on[c]] = "Cancelled" THEN "release" ELSE "detach")
    /\ todo' = [todo EXCEPT ![c] = 1]
    /\ UNCHANGED <<lifeVars, protected, objVars, countVars, corrupted, on>>

(* Seeded fault: one reference too many is released.                       *)
DetachReleasesTwice(c) ==
    /\ pc[c] = "detach"
    /\ LockFree
    /\ DetachDuringExpiry \/ entry[on[c]] \in {"self", "pending"}
    /\ state' = [state EXCEPT ![on[c]] = "Detached"]
    /\ entry' = [entry EXCEPT ![on[c]] = "self"]
    /\ todo' = [todo EXCEPT ![c] = 3]
    /\ Goto(c, "release")
    /\ UNCHANGED <<lifeVars, protected, alive, refCount, event, answered,
                   countVars, corrupted, on, torn>>

(* MqpDetachPendingCompletion: the entry is unlinked from whichever list   *)
(* it is in, and the reference of the list is released along with the      *)
(* caller's own.  An entry that points to itself is left alone.  The code  *)
(* does not ask whether the worker is done with the entry.                 *)
DetachPendingCompletion(c) ==
    /\ pc[c] = "detach"
    /\ LockFree
    /\ DetachDuringExpiry \/ entry[on[c]] \in {"self", "pending"}
    /\ state' = [state EXCEPT ![on[c]] = "Detached"]
    /\ entry' = [entry EXCEPT ![on[c]] = "self"]
    /\ IF entry[on[c]] # "self"
       THEN /\ pendingCount' = pendingCount - 1
            /\ todo' = [todo EXCEPT ![c] = 2]
       ELSE UNCHANGED <<pendingCount, todo>>
    /\ corrupted' = (corrupted \/ entry[on[c]] = "stale")
    /\ Goto(c, "release")
    /\ UNCHANGED <<lifeVars, protected, alive, refCount, event, answered,
                   outstanding, allReleased, on, torn>>

-----------------------------------------------------------------------------
(* MqpReleasePendingCompletion, for every kind of actor.                   *)

(* One reference less to release; after the last the caller or completer   *)
(* returns, and the worker and the shutdown go on with their lists.        *)
Released(a) ==
    /\ todo' = [todo EXCEPT ![a] = @ - 1]
    /\ IF todo[a] > 1
       THEN Goto(a, "release") /\ UNCHANGED on
       ELSE /\ Goto(a, CASE a = Worker -> "expired"
                         [] a = Shutdown -> "orphans"
                         [] OTHER -> "idle")
            /\ on' = [on EXCEPT ![a] = NULL]

(* What is in a freed structure is of no interest.                         *)
Freed(x) ==
    /\ alive' = alive \ {x}
    /\ state' = [state EXCEPT ![x] = "Pending"]
    /\ event' = event \ {x}
    /\ answered' = answered \ {x}
    /\ UNCHANGED entry

(* A structure whose Magic is gone is left alone; the last reference frees *)
(* the structure, before the shutdown may learn of it.                     *)
ReleasePendingCompletion(a) ==
    /\ pc[a] = "release"
    /\ IF on[a] \notin alive
       THEN Released(a) /\ UNCHANGED objVars
       ELSE /\ refCount' = [refCount EXCEPT ![on[a]] = @ - 1]
            /\ IF refCount[on[a]] = 1
               THEN /\ Freed(on[a])
                    /\ Goto(a, "count")
                    /\ UNCHANGED <<todo, on>>
               ELSE /\ Released(a)
                    /\ UNCHANGED <<alive, state, event, answered, entry>>
    /\ UNCHANGED <<lifeVars, protected, countVars, corrupted, torn>>

CountReleased(a) ==
    /\ pc[a] = "count"
    /\ outstanding' = outstanding - 1
    /\ IF outstanding = 1
       THEN Goto(a, "signal") /\ UNCHANGED <<todo, on>>
       ELSE Released(a)
    /\ UNCHANGED <<lifeVars, protected, objVars, pendingCount, allReleased,
                   corrupted, torn>>

SignalAllReleased(a) ==
    /\ pc[a] = "signal"
    /\ allReleased' = TRUE
    /\ Released(a)
    /\ UNCHANGED <<lifeVars, protected, objVars, pendingCount, outstanding,
                   corrupted, torn>>

ReleaseStep(a) ==
    ReleasePendingCompletion(a) \/ CountReleased(a) \/ SignalAllReleased(a)

-----------------------------------------------------------------------------
(* MqCompleteMessage.                                                      *)

(* Seeded fault: the completion is found but not referenced.               *)
FindWithoutReference(k) ==
    /\ pc[k] = "idle"
    /\ LockFree
    /\ \E x \in Pending :
        /\ \A c \in Callers : on[c] = x => pc[c] # "enqueue"
        /\ state[x] = "Pending"
        /\ on' = [on EXCEPT ![k] = x]
    /\ todo' = [todo EXCEPT ![k] = 1]
    /\ Goto(k, "complete")
    /\ UNCHANGED <<lifeVars, protected, objVars, countVars, corrupted, torn>>

(* MqpFindAndReferencePendingCompletion.  Only an id that went out with a  *)
(* message is known; a reply that finds nothing is no step.                *)
FindAndReference(k) ==
    /\ pc[k] = "idle"
    /\ LockFree
    /\ \E x \in Pending :
        /\ \A c \in Callers : on[c] = x => pc[c] # "enqueue"
        /\ state[x] = "Pending"
        /\ refCount' = [refCount EXCEPT ![x] = @ + 1]
        /\ on' = [on EXCEPT ![k] = x]
    /\ todo' = [todo EXCEPT ![k] = 1]
    /\ Goto(k, "complete")
    /\ UNCHANGED <<lifeVars, protected, alive, state, event, answered, entry,
                   countVars, corrupted, torn>>

(* The exchange Pending -> Completed; who loses it only releases.          *)
CompleteExchange(k) ==
    /\ pc[k] = "complete"
    /\ IF state[on[k]] = "Pending"
       THEN /\ state' = [state EXCEPT ![on[k]] = "Completed"]
            /\ Goto(k, "respond")
       ELSE Goto(k, "release") /\ UNCHANGED state
    /\ UNCHANGED <<lifeVars, protected, alive, refCount, event, answered,
                   entry, countVars, corrupted, on, todo, torn>>

(* Seeded fault: the waiter is woken before the response is in place.      *)
RespondSignalFirst(k) ==
    /\ pc[k] = "respond"
    /\ LockFree
    /\ event' = event \cup {on[k]}
    /\ Goto(k, "signalWaiter")
    /\ UNCHANGED <<lifeVars, protected, alive, refCount, state, answered,
                   entry, countVars, corrupted, on, todo, torn>>

(* The response, or the status that there was no memory for it, is stored  *)
(* under the lock ...                                                      *)
Respond(k) ==
    /\ pc[k] = "respond"
    /\ LockFree
    /\ answered' = answered \cup {on[k]}
    /\ Goto(k, "signalWaiter")
    /\ UNCHANGED <<lifeVars, protected, alive, refCount, state, event, entry,
                   countVars, corrupted, on, todo, torn>>

(* ... then the waiter is woken.                                           *)
SignalWaiter(k) ==
    /\ pc[k] = "signalWaiter"
    /\ event' = event \cup {on[k]}
    /\ Goto(k, "release")
    /\ UNCHANGED <<lifeVars, protected, alive, refCount, state, answered,
                   entry, countVars, corrupted, on, todo, torn>>

-----------------------------------------------------------------------------
(* MqpWorkerThread and MqpCleanupExpiredCompletions.                       *)

(* Under the lock: completions that are too old and still pending are      *)
(* marked, their callers woken, and the entries moved to a list of the     *)
(* worker's own.                                                           *)
CleanupExpired ==
    /\ pc[Worker] = "poll"
    /\ LockFree
    /\ \E old \in SUBSET {x \in Pending : state[x] = "Pending"} :
        /\ old # {}
        /\ state' = [x \in Completions |-> IF x \in old THEN "TimedOut"
                                                        ELSE state[x]]
        /\ event' = event \cup old
        /\ entry' = [x \in Completions |-> IF x \in old THEN "expired"
                                                        ELSE entry[x]]
        /\ pendingCount' = pendingCount - Cardinality(old)
    /\ Goto(Worker, "expired")
    /\ UNCHANGED <<lifeVars, protected, alive, refCount, answered,
                   outstanding, allReleased, corrupted, on, todo, torn>>

(* Outside the lock the worker empties its list: IsListEmpty ...           *)
ExpiredTest ==
    /\ pc[Worker] = "expired"
    /\ Goto(Worker, IF Expired = {} THEN "poll" ELSE "unlink")
    /\ UNCHANGED <<lifeVars, protected, objVars, countVars, corrupted, on,
                   todo, torn>>

(* ... RemoveHeadList, which takes the list head for an entry when a       *)
(* caller has emptied the list in between ...                              *)
ExpiredUnlink ==
    /\ pc[Worker] = "unlink"
    /\ IF Expired = {}
       THEN /\ corrupted' = TRUE
            /\ Goto(Worker, "expired")
            /\ UNCHANGED <<on, entry>>
       ELSE /\ \E x \in Expired :
                  /\ on' = [on EXCEPT ![Worker] = x]
                  /\ entry' = [entry EXCEPT ![x] = "stale"]
            /\ Goto(Worker, "relink")
            /\ UNCHANGED corrupted
    /\ UNCHANGED <<lifeVars, protected, alive, refCount, state, event,
                   answered, countVars, todo, torn>>

(* ... InitializeListHead, and the release of the list's reference.        *)
ExpiredRelink ==
    /\ pc[Worker] = "relink"
    /\ entry' = [entry EXCEPT ![on[Worker]] = "self"]
    /\ todo' = [todo EXCEPT ![Worker] = 1]
    /\ Goto(Worker, "release")
    /\ UNCHANGED <<lifeVars, protected, alive, refCount, state, event,
                   answered, countVars, corrupted, on, torn>>

WorkerExit ==
    /\ pc[Worker] = "poll"
    /\ stopping
    /\ Goto(Worker, "exited")
    /\ UNCHANGED <<lifeVars, protected, objVars, countVars, corrupted, on,
                   todo, torn>>

-----------------------------------------------------------------------------
(* MqShutdown.                                                             *)

ShutdownBegin ==
    /\ pc[Shutdown] = "off"
    /\ mqState = "Running"
    /\ mqState' = "ShuttingDown"
    /\ stopping' = TRUE
    /\ Goto(Shutdown, "worker")
    /\ UNCHANGED <<rundown, lookaside, protected, objVars, countVars,
                   corrupted, on, todo, torn>>

(* With the worker gone, the shutdown takes the lock ...                   *)
ShutdownLock ==
    /\ pc[Shutdown] = "worker"
    /\ pc[Worker] = "exited"
    /\ Goto(Shutdown, "cancel")
    /\ UNCHANGED <<lifeVars, protected, objVars, countVars, corrupted, on,
                   todo, torn>>

(* Seeded fault: the waiter is not told of the cancellation.               *)
ShutdownCancelSilently ==
    /\ pc[Shutdown] = "cancel"
    /\ \E x \in Pending :
        /\ entry' = [entry EXCEPT ![x] = "self"]
        /\ state' = [state EXCEPT ![x] = "Cancelled"]
        /\ on' = [on EXCEPT ![Shutdown] = x]
    /\ pendingCount' = pendingCount - 1
    /\ Goto(Shutdown, "drop")
    /\ UNCHANGED <<lifeVars, protected, alive, refCount, event, answered,
                   outstanding, allReleased, corrupted, todo, torn>>

(* ... takes one pending completion after the other out of the list, marks *)
(* it and wakes its caller, which reads State without the lock ...         *)
ShutdownCancel ==
    /\ pc[Shutdown] = "cancel"
    /\ \E x \in Pending :
        /\ entry' = [entry EXCEPT ![x] = "self"]
        /\ state' = [state EXCEPT ![x] = "Cancelled"]
        /\ event' = event \cup {x}
        /\ on' = [on EXCEPT ![Shutdown] = x]
    /\ pendingCount' = pendingCount - 1
    /\ Goto(Shutdown, "drop")
    /\ UNCHANGED <<lifeVars, protected, alive, refCount, answered,
                   outstanding, allReleased, corrupted, todo, torn>>

(* ... and drops the reference of the list.  A caller that found itself    *)
(* cancelled does not detach; when it has released its own reference by    *)
(* now, this one is the last and the completion becomes an orphan.         *)
ShutdownDrop ==
    /\ pc[Shutdown] = "drop"
    /\ LET x == on[Shutdown] IN
        /\ refCount' = [refCount EXCEPT ![x] = @ - 1]
        /\ IF refCount[x] = 1
           THEN /\ alive' = alive \ {x}
                /\ entry' = [entry EXCEPT ![x] = "orphan"]
           ELSE UNCHANGED <<alive, entry>>
    /\ on' = [on EXCEPT ![Shutdown] = NULL]
    /\ Goto(Shutdown, "cancel")
    /\ UNCHANGED <<lifeVars, protected, state, event, answered, countVars,
                   corrupted, todo, torn>>

(* When the list is empty the shutdown looks at OutstandingCompletions and *)
(* clears the event it may have to wait for; others count without the      *)
(* lock.                                                                   *)
ShutdownTestOutstanding ==
    /\ pc[Shutdown] = "cancel"
    /\ Pending = {}
    /\ Goto(Shutdown, IF outstanding > 0 THEN "clear" ELSE "orphans")
    /\ UNCHANGED <<lifeVars, protected, objVars, countVars, corrupted, on,
                   todo, torn>>

ShutdownClearEvent ==
    /\ pc[Shutdown] = "clear"
    /\ allReleased' = FALSE
    /\ Goto(Shutdown, "orphans")
    /\ UNCHANGED <<lifeVars, protected, objVars, pendingCount, outstanding,
                   corrupted, on, todo, torn>>

(* Seeded fault: an orphan is freed but stays outstanding.                 *)
ShutdownFreeUncounted ==
    /\ pc[Shutdown] = "orphans"
    /\ \E x \in Orphans :
        /\ entry' = [entry EXCEPT ![x] = "self"]
        /\ state' = [state EXCEPT ![x] = "Pending"]
        /\ event' = event \ {x}
        /\ answered' = answered \ {x}
    /\ UNCHANGED <<lifeVars, protected, alive, refCount, countVars, corrupted,
                   on, todo, torn, pc>>

(* Without the lock the orphans are freed; each is counted off, and the    *)
(* event set if it was the last, as after any last release.                *)
ShutdownFreeOrphan ==
    /\ pc[Shutdown] = "orphans"
    /\ \E x \in Orphans :
        /\ entry' = [entry EXCEPT ![x] = "self"]
        /\ state' = [state EXCEPT ![x] = "Pending"]
        /\ event' = event \ {x}
        /\ answered' = answered \ {x}
        /\ on' = [on EXCEPT ![Shutdown] = x]
    /\ todo' = [todo EXCEPT ![Shutdown] = 1]
    /\ Goto(Shutdown, "count")
    /\ UNCHANGED <<lifeVars, protected, alive, refCount, countVars, corrupted,
                   torn>>

ShutdownOrphansFreed ==
    /\ pc[Shutdown] = "orphans"
    /\ Orphans = {}
    /\ Goto(Shutdown, "drain")
    /\ UNCHANGED <<lifeVars, protected, objVars, countVars, corrupted, on,
                   todo, torn>>

(* The wait for AllCompletionsReleasedEvent, taken when completions are    *)
(* outstanding; after each timeout of it they are looked at again.  Then   *)
(* the rundown wait begins.                                                *)
ShutdownDrain ==
    /\ pc[Shutdown] = "drain"
    /\ allReleased \/ outstanding <= 0
    /\ rundown' = TRUE
    /\ Goto(Shutdown, "rundown")
    /\ UNCHANGED <<mqState, stopping, lookaside, protected, objVars,
                   countVars, corrupted, on, todo, torn>>

ShutdownDelete ==
    /\ pc[Shutdown] = "rundown"
    /\ protected = {}
    /\ lookaside' = FALSE
    /\ mqState' = "Shutdown"
    /\ Goto(Shutdown, "done")
    /\ UNCHANGED <<stopping, rundown, protected, objVars, countVars,
                   corrupted, on, todo, torn>>

-----------------------------------------------------------------------------
CallerStep(c) ==
    \/ AcquireRundown(c) \/ EnqueueRefused(c) \/ AllocatePendingCompletion(c)
    \/ RegisterCompletion(c) \/ EnqueueBlockingMessage(c) \/ WaitSignalled(c)
    \/ WaitTimeout(c) \/ ReadCompletionState(c) \/ DetachPendingCompletion(c)
    \/ ReleaseStep(c)

CompleterStep(k) ==
    \/ CompleteExchange(k) \/ Respond(k) \/ SignalWaiter(k) \/ ReleaseStep(k)

WorkerStep ==
    \/ ExpiredTest \/ ExpiredUnlink \/ ExpiredRelink \/ WorkerExit
    \/ ReleaseStep(Worker)

ShutdownStep ==
    \/ ShutdownLock \/ ShutdownCancel \/ ShutdownDrop
    \/ ShutdownTestOutstanding \/ ShutdownClearEvent
    \/ ShutdownFreeOrphan \/ ShutdownOrphansFreed
    \/ CountReleased(Shutdown) \/ SignalAllReleased(Shutdown)
    \/ ShutdownDrain \/ ShutdownDelete

(* With every call back and the queue going down nothing more happens; a   *)
(* shutdown that stays like that is caught by ShutdownReturns.             *)
Stopped ==
    /\ mqState # "Running"
    /\ \A a \in Callers \cup Completers : pc[a] = "idle"
    /\ UNCHANGED vars

Next ==
    \/ \E c \in Callers : EnqueueAndWait(c) \/ CallerStep(c)
    \/ \E k \in Completers : FindAndReference(k) \/ CompleterStep(k)
    \/ CleanupExpired \/ WorkerStep
    \/ ShutdownBegin \/ ShutdownStep
    \/ Stopped

Spec == Init /\ [][Next]_vars

(* Threads run, and a wait with a timeout ends.  A wait without one ends   *)
(* only when the event is set: WaitTimeout is no step of "waitForever".    *)
(* Nobody has to call, to answer or to shut down.                          *)
Fairness ==
    /\ \A c \in Callers : WF_vars(CallerStep(c))
    /\ \A k \in Completers : WF_vars(CompleterStep(k))
    /\ WF_vars(WorkerStep)
    /\ WF_vars(ShutdownStep)

FairSpec == Spec /\ Fairness

-----------------------------------------------------------------------------
(* Properties.                                                             *)

CallerLabels == {"idle", "protect", "limit", "register", "enqueue", "wait",
                 "waitForever", "woken", "detach", "release", "count", "signal"}
CompleterLabels == {"idle", "complete", "respond", "signalWaiter", "release",
                    "count", "signal"}
WorkerLabels == {"poll", "expired", "unlink", "relink", "release", "count",
                 "signal", "exited"}
ShutdownLabels == {"off", "worker", "cancel", "drop", "clear", "orphans",
                   "count", "signal", "drain", "rundown", "done"}
Labels == CallerLabels \cup CompleterLabels \cup WorkerLabels
          \cup ShutdownLabels

TypeOK ==
    /\ mqState \in {"Running", "ShuttingDown", "Shutdown"}
    /\ stopping \in BOOLEAN /\ rundown \in BOOLEAN /\ lookaside \in BOOLEAN
    /\ protected \subseteq Callers
    /\ alive \subseteq Completions
    /\ refCount \in [Completions -> Int]
    /\ state \in [Completions -> {"Pending", "Completed", "TimedOut",
                                  "Cancelled", "Detached"}]
    /\ event \subseteq Completions /\ answered \subseteq Completions
    /\ entry \in [Completions -> {"self", "pending", "expired", "stale",
                                  "orphan"}]
    /\ pendingCount \in Int /\ outstanding \in Int
    /\ allReleased \in BOOLEAN /\ corrupted \in BOOLEAN
    /\ on \in [Actors -> Completions \cup {NULL}]
    /\ todo \in [Actors -> 0 .. 2]
    /\ torn \subseteq Callers
    /\ pc \in [Actors -> Labels]
    /\ \A c \in Callers : pc[c] \in CallerLabels
    /\ \A k \in Completers : pc[k] \in CompleterLabels
    /\ pc[Worker] \in WorkerLabels
    /\ pc[Shutdown] \in ShutdownLabels

(* Who owns a reference on x: a caller from the allocation on, a completer *)
(* from its find on, the worker and the shutdown from the removal of x from*)
(* a list on.                                                              *)
Holding == {"register", "enqueue", "wait", "waitForever", "woken", "detach",
            "complete", "respond", "signalWaiter", "relink", "drop",
            "release"}
Holders(x) == {a \in Actors : on[a] = x /\ pc[a] \in Holding}

(* The second reference of a caller: the one made for the list, before x   *)
(* is in it and after the detach.                                          *)
ListReferences(x) ==
    {a \in Callers :
        /\ on[a] = x
        /\ \/ pc[a] = "register"
           \/ pc[a] = "release" /\ todo[a] = 2}

Refs(x) == Cardinality(Holders(x)) + Cardinality(ListReferences(x))
           + (IF x \in Pending \cup Expired THEN 1 ELSE 0)

(* "Reference-counted pending completions prevent use-after-free": RefCount*)
(* is what the callers, the lists, the completers and the worker hold, so  *)
(* that a completion is freed by the last of them and nobody works on a    *)
(* freed one; and no list is touched through links that are not there.     *)
RefCountExact ==
    /\ ~corrupted
    /\ \A x \in Completions :
          IF x \in alive THEN refCount[x] = Refs(x) ELSE Refs(x) = 0

Registered == {x \in alive :
                  \A c \in Callers : on[c] = x => pc[c] # "register"}
Counting == {a \in Actors : pc[a] = "count"}

(* g_PendingCompletionCount, which limits new calls, counts the list, and  *)
(* OutstandingCompletions, on which the shutdown waits, counts the         *)
(* registered completions, and the orphans, until they are freed and       *)
(* counted off.                                                            *)
CountersExact ==
    /\ pendingCount = Cardinality(Pending)
    /\ outstanding = Cardinality(Registered) + Cardinality(Orphans)
                     + Cardinality(Counting)

(* A caller that is told its message was answered has the whole answer:    *)
(* whatever set the event it woke up from, and whoever changed State since.*)
ResponseComplete == torn = {}

(* A caller that waits without limit and is in the list that MqShutdown has*)
(* emptied for good: it passed MqpIsRunning before the shutdown began and  *)
(* registered after the cancellation, so nobody has to wake it.            *)
Stranded(c) ==
    /\ pc[Shutdown] \in {"orphans", "count", "signal", "drain"}
    /\ pc[c] = "waitForever"
    /\ on[c] \in Pending

(* The shutdown waits without limit, as "Waiters have been signaled        *)
(* (STATUS_CANCELLED) - they MUST complete".  It ends, callers without a   *)
(* timeout included, unless one of those is stranded.                      *)
ShutdownReturns ==
    mqState = "ShuttingDown" ~>
        (mqState = "Shutdown" \/ \E c \in Callers : Stranded(c))

(* The comment at the wait of MqShutdown: it waits "because deleting the   *)
(* lookaside while completions are outstanding would cause pool            *)
(* corruption".                                                            *)
LookasideOutlivesCompletions == ~lookaside => alive = {}

(* The inductive invariant.  Who works on a completion and how many        *)
(* references it still has to release.                                     *)
Owing == {"complete", "respond", "signalWaiter", "detach", "release",
          "count", "signal"}

WorkShape ==
    /\ \A a \in Actors :
          /\ on[a] # NULL <=> pc[a] \in Holding \cup {"count", "signal"}
          /\ pc[a] \in Owing => todo[a] >= 1
    /\ pc[Shutdown] \in {"count", "signal"} => todo[Shutdown] = 1

(* A completion belongs to the one call it was allocated for.  Two places  *)
(* are released only by a caller that has detached it.                     *)
OwnerShape ==
    /\ \A c, d \in Callers :
          pc[c] \in Holding /\ pc[d] \in Holding /\ on[c] = on[d] => c = d
    /\ \A a \in Actors :
          pc[a] \in Owing /\ todo[a] # 1 => a \in Callers /\ pc[a] = "release"

(* The links of a completion: registering puts it into the list, only the  *)
(* worker takes anything off its own list, and only an orphan is in the    *)
(* list of orphans.                                                        *)
LinkShape ==
    /\ \A x \in Orphans : x \notin alive
    /\ \A c \in Callers : pc[c] = "register" => entry[on[c]] = "self"
    /\ pc[Worker] = "relink" => entry[on[Worker]] = "stale"
    /\ pc[Worker] = "unlink" => Expired # {}

(* An event is set for a reason that State names, for good.                *)
AnswerShape ==
    /\ \A x \in event : /\ state[x] # "Pending"
                        /\ state[x] = "Completed" => x \in answered
    /\ \A c \in Callers : pc[c] = "woken" => on[c] \in event
    /\ \A k \in Completers :
          /\ pc[k] \in {"respond", "signalWaiter"} => state[on[k]] # "Pending"
          /\ pc[k] = "signalWaiter" => on[k] \in answered

(* All but the first two parts need that no caller detaches a completion   *)
(* the worker is still busy with.                                          *)
IInv ==
    /\ TypeOK /\ WorkShape
    /\ ~DetachDuringExpiry =>
          /\ OwnerShape /\ LinkShape /\ AnswerShape
          /\ RefCountExact /\ CountersExact /\ ResponseComplete

=============================================================================
