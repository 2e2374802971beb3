---------------------------- MODULE MessageQueue ----------------------------
(***************************************************************************)
(* The priority queues of the kernel message queue                         *)
(* (PhantomSensor/Communication/MessageQueue.c): MqEnqueueMessage, called  *)
(* by CommPort.c while no client is connected, MqDequeueBatch and          *)
(* MqFreeMessage, called when one connects, and MqShutdown.  Blocking      *)
(* messages and their completions are the subject of module MqCompletion.  *)
(*                                                                         *)
(* There is one list and one lock per priority and a TotalMessageCount     *)
(* that is counted without any lock: up before a message is in its list,   *)
(* down after it left it.  A section under a lock is one step, and so is   *)
(* each interlocked operation and each read of the counter.                *)
(***************************************************************************)
EXTENDS Integers, Sequences, FiniteSets

CONSTANTS
    Producers,    \* threads that call MqEnqueueMessage
    Consumer,     \* the thread that calls MqDequeueBatch
    Messages,     \* memory for QUEUED_MESSAGE structures
    NULL,
    Top,          \* MessagePriority_Max - 1, the highest priority
    HighPriority, \* MessagePriority_High
    MaxQueueDepth,
    MaxBatch      \* messages a call of MqDequeueBatch returns at most

ASSUME QueueAssumption ==
    /\ IsFiniteSet(Producers) /\ IsFiniteSet(Messages)
    /\ Consumer \notin Producers /\ NULL \notin Messages
    /\ "shutdown" \notin Producers \cup {Consumer}
    /\ Top \in Nat /\ HighPriority \in 0 .. Top
    /\ MaxQueueDepth \in Nat \ {0}
    /\ MaxBatch \in Nat \ {0}

VARIABLES
    mqState,     \* g_MqGlobals.State
    rundown,     \* the rundown wait has begun
    protected,   \* threads that hold rundown protection
    lookaside,   \* the lookaside list of messages exists
    queue,       \* priority -> its list of messages
    total,       \* TotalMessageCount
    flow,        \* FlowControlActive
    space,       \* SpaceAvailableEvent
    available,   \* MessageAvailableEvent
    allocated,   \* messages that are allocated
    leaked,      \* messages MqFreeMessage gave up
    prio,        \* message -> its Priority
    want,        \* producer -> Priority it was called with
    msg,         \* producer -> its message, not yet in a list
    depth,       \* thread -> TotalMessageCount as it read it
    batch,       \* what the consumer was given and has not freed
    level,       \* priority the consumer's scan has come to
    older,       \* messages that were in the lists when the scan began
    waited,      \* the consumer is past its wait
    inverted,    \* the consumer took a message out of order
    swept,       \* the list MqShutdown empties next
    pc

lifeVars == <<mqState, rundown, lookaside>>
flowVars == <<flow, space>>
memVars == <<allocated, leaked, prio>>
prodVars == <<want, msg>>
consVars == <<batch, level, older, waited, inverted>>
vars == <<lifeVars, protected, queue, total, flowVars, available,
          memVars, prodVars, depth, consVars, swept, pc>>

Shutdown == "shutdown"

Goto(a, label) == pc' = [pc EXCEPT ![a] = label]

Priorities == 0 .. Top

Members(list) == {list[j] : j \in 1 .. Len(list)}

InQueue(i) == Members(queue[i])
Queued == UNION {InQueue(i) : i \in Priorities}
InBatch == Members(batch) \ {NULL}

(* 80% and 50% of the depth, in integers.                                  *)
HighWaterMark == (MaxQueueDepth * 80) \div 100
LowWaterMark == (MaxQueueDepth * 50) \div 100

(* MqInitialize.                                                           *)
Init ==
    /\ mqState = "Running"
    /\ rundown = FALSE
    /\ protected = {}
    /\ lookaside = TRUE
    /\ queue = [i \in Priorities |-> <<>>]
    /\ total = 0
    /\ flow = FALSE
    /\ space = TRUE
    /\ available = FALSE
    /\ allocated = {}
    /\ leaked = {}
    /\ prio = [m \in Messages |-> 0]
    /\ want = [p \in Producers |-> 0]
    /\ msg = [p \in Producers |-> NULL]
    /\ depth = [a \in Producers \cup {Consumer} |-> 0]
    /\ batch = <<>>
    /\ level = Top
    /\ older = {}
    /\ waited = FALSE
    /\ inverted = FALSE
    /\ swept = 0
    /\ pc = [a \in Producers \cup {Consumer, Shutdown} |-> "idle"]

-----------------------------------------------------------------------------
(* MqEnqueueMessage.                                                       *)

(* MqpIsRunning; a call that finds the queue not running is no step.       *)
EnqueueMessage(p) ==
    /\ pc[p] = "idle"
    /\ mqState = "Running"
    /\ want' \in {[want EXCEPT ![p] = i] : i \in Priorities}
    /\ Goto(p, "protect")
    /\ UNCHANGED <<lifeVars, protected, queue, total, flowVars,
                   available, memVars, msg, depth, consVars, swept>>

(* Rundown protection and the parameter checks.                            *)
AcquireRundown(p) ==
    /\ pc[p] = "protect"
    /\ IF rundown
       THEN Goto(p, "idle") /\ UNCHANGED protected
       ELSE /\ protected' = protected \cup {p}
            /\ Goto(p, "reserve")
    /\ UNCHANGED <<lifeVars, queue, total, flowVars, available,
                   memVars, want, msg, depth, consVars, swept>>

Leave(p) ==
    /\ protected' = protected \ {p}
    /\ want' = [want EXCEPT ![p] = 0]
    /\ Goto(p, "idle")

(* Seeded fault: the limit is off by one.                                  *)
MayReserveUpToLimit(p) == want[p] >= HighPriority \/ total <= MaxQueueDepth

(* A message of high priority always finds a place; another one has it by  *)
(* a compare-and-exchange that is repeated until it succeeds.              *)
MayReserve(p) == want[p] >= HighPriority \/ total < MaxQueueDepth

Reserve(p) ==
    /\ pc[p] = "reserve"
    /\ MayReserve(p)
    /\ total' = total + 1
    /\ Goto(p, "allocate")
    /\ UNCHANGED <<lifeVars, protected, queue, flowVars, available,
                   memVars, prodVars, depth, consVars, swept>>

QueueFull(p) ==
    /\ pc[p] = "reserve"
    /\ ~MayReserve(p)
    /\ Leave(p)
    /\ UNCHANGED <<lifeVars, queue, total, flowVars, available,
                   memVars, msg, depth, consVars, swept>>

(* Free structures are interchangeable, so any one of them is taken.       *)
AllocateMessage(p) ==
    /\ pc[p] = "allocate"
    /\ Messages \ allocated # {}
    /\ LET m == CHOOSE m \in Messages \ allocated : TRUE IN
        /\ allocated' = allocated \cup {m}
        /\ prio' = [prio EXCEPT ![m] = want[p]]
        /\ msg' = [msg EXCEPT ![p] = m]
    /\ Goto(p, "insert")
    /\ UNCHANGED <<lifeVars, protected, queue, total, flowVars,
                   available, leaked, want, depth, consVars, swept>>

(* Seeded fault: the place is kept when there is no memory.                *)
AllocateFailedKeepsPlace(p) ==
    /\ pc[p] = "allocate"
    /\ Leave(p)
    /\ UNCHANGED <<lifeVars, queue, total, flowVars, available,
                   memVars, msg, depth, consVars, swept>>

AllocateFailed(p) ==
    /\ pc[p] = "allocate"
    /\ total' = total - 1
    /\ Leave(p)
    /\ UNCHANGED <<lifeVars, queue, flowVars, available, memVars,
                   msg, depth, consVars, swept>>

(* Seeded fault: the producer keeps a message that it has handed over.     *)
EnqueueKeepsMessage(p) ==
    /\ pc[p] = "insert"
    /\ queue' = [queue EXCEPT ![want[p]] = Append(@, msg[p])]
    /\ Goto(p, "read")
    /\ UNCHANGED <<lifeVars, protected, total, flowVars, available, memVars,
                   want, msg, depth, consVars, swept>>

EnqueueToPriorityQueue(p) ==
    /\ pc[p] = "insert"
    /\ queue' = [queue EXCEPT ![want[p]] = Append(@, msg[p])]
    /\ msg' = [msg EXCEPT ![p] = NULL]
    /\ Goto(p, "read")
    /\ UNCHANGED <<lifeVars, protected, total, flowVars, available,
                   memVars, want, depth, consVars, swept>>

(* Seeded fault: the waiting consumer is not told.                         *)
SetAvailableNever(p) ==
    /\ pc[p] = "notify"
    /\ Leave(p)
    /\ UNCHANGED <<lifeVars, queue, total, flowVars, available,
                   memVars, msg, depth, consVars, swept>>

(* MessageAvailableEvent is set after the message is in its list.          *)
SetAvailable(p) ==
    /\ pc[p] = "notify"
    /\ available' = TRUE
    /\ Leave(p)
    /\ UNCHANGED <<lifeVars, queue, total, flowVars, memVars, msg,
                   depth, consVars, swept>>

-----------------------------------------------------------------------------
(* MqpUpdateFlowControl, for producers and the consumer.                   *)

(* A producer goes on to the event; the consumer, woken from its wait, to  *)
(* the rest of its batch, and else to what it has taken.                   *)
AfterFlow(a) ==
    CASE a # Consumer -> "notify"
      [] a = Consumer /\ waited -> "again"
      [] OTHER -> "free"

ReadDepth(a) ==
    /\ pc[a] = "read"
    /\ depth' = [depth EXCEPT ![a] = total]
    /\ Goto(a, "flow")
    /\ UNCHANGED <<lifeVars, protected, queue, total, flowVars,
                   available, memVars, prodVars, consVars, swept>>

(* The exchange of FlowControlActive, for the depth that was read.  Whoever*)
(* changes it goes on to the events.                                       *)
UpdateFlowControl(a) ==
    /\ pc[a] = "flow"
    /\ depth' = [depth EXCEPT ![a] = 0]
    /\ LET raise == depth[a] >= HighWaterMark
           lower == ~raise /\ depth[a] <= LowWaterMark
       IN /\ flow' = IF raise THEN TRUE ELSE IF lower THEN FALSE ELSE flow
          /\ Goto(a, IF flow' = flow THEN AfterFlow(a)
                     ELSE IF raise THEN "clearSpace" ELSE "setSpace")
    /\ UNCHANGED <<lifeVars, protected, queue, total, space,
                   available, memVars, prodVars, consVars, swept>>

SignalFlow(a) ==
    /\ pc[a] \in {"clearSpace", "setSpace"}
    /\ space' = (pc[a] = "setSpace")
    /\ Goto(a, AfterFlow(a))
    /\ UNCHANGED <<lifeVars, protected, queue, total, flow,
                   available, memVars, prodVars, depth, consVars, swept>>

FlowStep(a) == ReadDepth(a) \/ UpdateFlowControl(a) \/ SignalFlow(a)

-----------------------------------------------------------------------------
(* MqDequeueBatch, which begins with MqDequeueMessage, and MqFreeMessage.  *)

(* Every scan begins with the highest priority.                            *)
BeginScan ==
    /\ level' = Top
    /\ older' = Queued
    /\ Goto(Consumer, "scan")

DequeueBatch ==
    /\ pc[Consumer] = "idle"
    /\ mqState = "Running"
    /\ BeginScan
    /\ UNCHANGED <<lifeVars, protected, queue, total, flowVars,
                   available, memVars, prodVars, depth, batch, waited,
                   inverted, swept>>

(* Seeded fault: the scan goes up from the lowest priority.                *)
ScanUpward ==
    /\ pc[Consumer] = "scan"
    /\ queue[Top - level] # <<>>
    /\ LET m == Head(queue[Top - level]) IN
        /\ batch' = Append(batch, m)
        /\ inverted' = (inverted \/ \E n \in older : prio[n] > prio[m])
    /\ queue' = [queue EXCEPT ![Top - level] = Tail(@)]
    /\ level' = Top
    /\ older' = {}
    /\ Goto(Consumer, "taken")
    /\ UNCHANGED <<lifeVars, protected, total, flowVars, available,
                   memVars, prodVars, depth, waited, swept>>

(* MqpDequeueFromPriorityQueues: the head of the first list that is not    *)
(* empty.                                                                  *)
ScanTake ==
    /\ pc[Consumer] = "scan"
    /\ queue[level] # <<>>
    /\ LET m == Head(queue[level]) IN
        /\ batch' = Append(batch, m)
        /\ inverted' = (inverted \/ \E n \in older : prio[n] > prio[m])
    /\ queue' = [queue EXCEPT ![level] = Tail(@)]
    /\ level' = Top
    /\ older' = {}
    /\ Goto(Consumer, "taken")
    /\ UNCHANGED <<lifeVars, protected, total, flowVars, available,
                   memVars, prodVars, depth, waited, swept>>

(* Seeded fault: the loop runs one priority too far.                       *)
ScanNextBelow ==
    /\ pc[Consumer] = "scan"
    /\ queue[level] = <<>>
    /\ level >= 0
    /\ level' = level - 1
    /\ UNCHANGED <<lifeVars, protected, queue, total, flowVars, available,
                   memVars, prodVars, depth, batch, older, waited, inverted,
                   swept, pc>>

ScanNext ==
    /\ pc[Consumer] = "scan"
    /\ queue[level] = <<>>
    /\ level > 0
    /\ level' = level - 1
    /\ UNCHANGED <<lifeVars, protected, queue, total, flowVars,
                   available, memVars, prodVars, depth, batch, older, waited,
                   inverted, pc, swept>>

(* All lists were empty.  A batch that has begun ends here; a call without *)
(* messages returns if it has waited or was told not to wait.  It returns  *)
(* without a look at the flow control.                                     *)
ScanEmpty ==
    /\ pc[Consumer] = "scan"
    /\ queue[level] = <<>>
    /\ level = 0
    /\ level' = Top
    /\ older' = {}
    /\ \/ /\ batch # <<>>
          /\ Goto(Consumer, "read")
          /\ UNCHANGED waited
       \/ /\ batch = <<>>
          /\ Goto(Consumer, "idle")
          /\ waited' = FALSE
       \/ /\ batch = <<>> /\ ~waited
          /\ Goto(Consumer, "await")
          /\ UNCHANGED waited
    /\ UNCHANGED <<lifeVars, protected, queue, total, flowVars,
                   available, memVars, prodVars, depth, batch, inverted,
                   swept>>

(* The count follows; a call that has waited updates the flow control      *)
(* after its first message, any call after its last.                       *)
CountTaken ==
    /\ pc[Consumer] = "taken"
    /\ total' = total - 1
    /\ IF Len(batch) < MaxBatch /\ ~(waited /\ Len(batch) = 1)
       THEN BeginScan
       ELSE Goto(Consumer, "read") /\ UNCHANGED <<level, older>>
    /\ UNCHANGED <<lifeVars, protected, queue, flowVars, available,
                   memVars, prodVars, depth, batch, waited, inverted,
                   swept>>

ContinueBatch ==
    /\ pc[Consumer] = "again"
    /\ waited' = FALSE
    /\ IF Len(batch) < MaxBatch
       THEN BeginScan
       ELSE Goto(Consumer, "read") /\ UNCHANGED <<level, older>>
    /\ UNCHANGED <<lifeVars, protected, queue, total, flowVars,
                   available, memVars, prodVars, depth, batch, inverted,
                   swept>>

(* The wait for MessageAvailableEvent, which the wait resets.              *)
AwaitSignalled ==
    /\ pc[Consumer] = "await"
    /\ available
    /\ available' = FALSE
    /\ IF mqState = "Running"
       THEN BeginScan /\ waited' = TRUE
       ELSE Goto(Consumer, "idle") /\ UNCHANGED <<level, older, waited>>
    /\ UNCHANGED <<lifeVars, protected, queue, total, flowVars,
                   memVars, prodVars, depth, batch, inverted, swept>>

(* STATUS_TIMEOUT is a success code: the batch goes on, with the NULL that *)
(* MqDequeueMessage has stored for its first message.                      *)
AwaitTimeout ==
    /\ pc[Consumer] = "await"
    /\ batch' = <<NULL>>
    /\ IF MaxBatch > 1
       THEN BeginScan
       ELSE Goto(Consumer, "read") /\ UNCHANGED <<level, older>>
    /\ UNCHANGED <<lifeVars, protected, queue, total, flowVars,
                   available, memVars, prodVars, depth, waited, inverted,
                   swept>>

(* Seeded fault: the memory goes back whether or not there is protection.  *)
FreeMessageUnprotected ==
    /\ pc[Consumer] = "free"
    /\ Head(batch) # NULL
    /\ Goto(Consumer, "freeing")
    /\ UNCHANGED <<lifeVars, protected, queue, total, flowVars, available,
                   memVars, prodVars, depth, consVars, swept>>

NextOfBatch ==
    /\ batch' = Tail(batch)
    /\ Goto(Consumer, IF Len(batch) = 1 THEN "idle" ELSE "free")

(* MqFreeMessage for each entry of the batch; one that is NULL is left     *)
(* alone.                                                                  *)
FreeNothing ==
    /\ pc[Consumer] = "free"
    /\ Head(batch) = NULL
    /\ NextOfBatch
    /\ UNCHANGED <<lifeVars, protected, queue, total, flowVars, available,
                   memVars, prodVars, depth, level, older, waited, inverted,
                   swept>>

FreeMessage ==
    /\ pc[Consumer] = "free"
    /\ Head(batch) # NULL
    /\ ~rundown
    /\ protected' = protected \cup {Consumer}
    /\ Goto(Consumer, "freeing")
    /\ UNCHANGED <<lifeVars, queue, total, flowVars, available, memVars,
                   prodVars, depth, consVars, swept>>

FreeNext ==
    /\ prio' = [prio EXCEPT ![Head(batch)] = 0]
    /\ NextOfBatch

(* Without rundown protection memory of the pool is freed all the same,    *)
(* memory of the lookaside list is not given back.                         *)
FreeMessageLate ==
    /\ pc[Consumer] = "free"
    /\ Head(batch) # NULL
    /\ rundown
    /\ \/ allocated' = allocated \ {Head(batch)} /\ UNCHANGED leaked
       \/ leaked' = leaked \cup {Head(batch)} /\ UNCHANGED allocated
    /\ FreeNext
    /\ UNCHANGED <<lifeVars, protected, queue, total, flowVars,
                   available, prodVars, depth, level, older, waited, inverted,
                   swept>>

FreeMessageInternal ==
    /\ pc[Consumer] = "freeing"
    /\ allocated' = allocated \ {Head(batch)}
    /\ FreeNext
    /\ protected' = protected \ {Consumer}
    /\ UNCHANGED <<lifeVars, queue, total, flowVars, available,
                   leaked, prodVars, depth, level, older, waited, inverted,
                   swept>>

-----------------------------------------------------------------------------
(* MqShutdown.                                                             *)

ShutdownBegin ==
    /\ mqState = "Running"
    /\ mqState' = "ShuttingDown"
    /\ available' = TRUE
    /\ Goto(Shutdown, "drain")
    /\ UNCHANGED <<rundown, lookaside, protected, queue, total,
                   flowVars, memVars, prodVars, depth, consVars, swept>>

(* The lists are emptied one after the other and their messages freed.     *)
ShutdownDrain ==
    /\ pc[Shutdown] = "drain"
    /\ swept \in Priorities
    /\ queue' = [queue EXCEPT ![swept] = <<>>]
    /\ allocated' = allocated \ InQueue(swept)
    /\ prio' = [m \in Messages |-> IF m \in InQueue(swept) THEN 0
                                                          ELSE prio[m]]
    /\ swept' = swept + 1
    /\ older' = older \ InQueue(swept)
    /\ UNCHANGED <<lifeVars, protected, total, flowVars, available,
                   leaked, prodVars, depth, batch, level, waited, inverted,
                   pc>>

(* The counter is reset, and only now does the rundown wait begin.         *)
ShutdownReset ==
    /\ pc[Shutdown] = "drain"
    /\ swept = Top + 1
    /\ total' = 0
    /\ rundown' = TRUE
    /\ Goto(Shutdown, "rundown")
    /\ UNCHANGED <<mqState, lookaside, protected, queue, flowVars,
                   available, memVars, prodVars, depth, consVars, swept>>

ShutdownDelete ==
    /\ pc[Shutdown] = "rundown"
    /\ protected = {}
    /\ lookaside' = FALSE
    /\ mqState' = "Shutdown"
    /\ Goto(Shutdown, "done")
    /\ UNCHANGED <<rundown, protected, queue, total, flowVars,
                   available, memVars, prodVars, depth, consVars, swept>>

-----------------------------------------------------------------------------
ProducerStep(p) ==
    \/ AcquireRundown(p) \/ Reserve(p) \/ QueueFull(p) \/ AllocateMessage(p)
    \/ AllocateFailed(p) \/ EnqueueToPriorityQueue(p) \/ FlowStep(p)
    \/ SetAvailable(p)

ConsumerStep ==
    \/ ScanTake \/ ScanNext \/ ScanEmpty \/ CountTaken \/ ContinueBatch
    \/ AwaitSignalled \/ AwaitTimeout \/ FreeNothing \/ FreeMessage
    \/ FreeMessageLate \/ FreeMessageInternal \/ FlowStep(Consumer)

ShutdownStep == ShutdownDrain \/ ShutdownReset \/ ShutdownDelete

(* After the shutdown, with every call back, nothing happens any more; a   *)
(* shutdown that hangs is a deadlock.                                      *)
Stopped ==
    /\ mqState = "Shutdown"
    /\ \A a \in Producers \cup {Consumer} : pc[a] = "idle"
    /\ UNCHANGED vars

Next ==
    \/ \E p \in Producers : EnqueueMessage(p) \/ ProducerStep(p)
    \/ DequeueBatch \/ ConsumerStep
    \/ ShutdownBegin \/ ShutdownStep
    \/ Stopped

Spec == Init /\ [][Next]_vars

-----------------------------------------------------------------------------
(* Properties.                                                             *)

ProducerLabels == {"idle", "protect", "reserve", "allocate", "insert", "read",
                   "flow", "clearSpace", "setSpace", "notify"}
ConsumerLabels == {"idle", "scan", "taken", "await", "read", "flow",
                   "clearSpace", "setSpace", "again", "free", "freeing"}
ShutdownLabels == {"idle", "drain", "rundown", "done"}

TypeOK ==
    /\ mqState \in {"Running", "ShuttingDown", "Shutdown"}
    /\ rundown \in BOOLEAN /\ lookaside \in BOOLEAN
    /\ protected \subseteq Producers \cup {Consumer}
    /\ queue \in [Priorities -> Seq(Messages)]
    /\ total \in Int
    /\ flow \in BOOLEAN /\ space \in BOOLEAN /\ available \in BOOLEAN
    /\ allocated \subseteq Messages /\ leaked \subseteq Messages
    /\ prio \in [Messages -> Priorities]
    /\ want \in [Producers -> Priorities]
    /\ msg \in [Producers -> Messages \cup {NULL}]
    /\ depth \in [Producers \cup {Consumer} -> Int]
    /\ batch \in Seq(Messages \cup {NULL}) /\ Len(batch) <= MaxBatch
    /\ level \in Priorities /\ older \subseteq Messages
    /\ waited \in BOOLEAN /\ inverted \in BOOLEAN
    /\ swept \in 0 .. Top + 1
    /\ pc \in [Producers \cup {Consumer, Shutdown} ->
                   ProducerLabels \cup ConsumerLabels \cup ShutdownLabels]
    /\ \A p \in Producers : pc[p] \in ProducerLabels
    /\ pc[Consumer] \in ConsumerLabels
    /\ pc[Shutdown] \in ShutdownLabels

Reserving == {p \in Producers : pc[p] \in {"allocate", "insert"}}
Uncounted == IF pc[Consumer] = "taken" THEN {batch[Len(batch)]} ELSE {}

(* Until the shutdown throws messages away, TotalMessageCount, which       *)
(* nobody changes together with a list, is the length of the lists and     *)
(* what is on its way in or out.                                           *)
DepthExact ==
    mqState = "Running" =>
        total = Cardinality(Queued) + Cardinality(Reserving)
                + Cardinality(Uncounted)

(* The messages and the reservations below high priority.                  *)
LowListed == {m \in Queued \cup Uncounted : prio[m] < HighPriority}
LowReserving == {p \in Reserving : want[p] < HighPriority}

(* "Atomic slot reservation prevents queue depth race conditions": however *)
(* many producers race for the last place, messages below high priority    *)
(* never exceed MaxQueueDepth.                                             *)
NormalBounded ==
    mqState = "Running" =>
        Cardinality(LowListed) + Cardinality(LowReserving) <= MaxQueueDepth

(* A scan never returns a message while one of a higher priority was in    *)
(* the lists since before the scan began.                                  *)
NoInversion == ~inverted

Held == {msg[p] : p \in Producers} \ {NULL}

NoRepeat(list) == \A j, k \in 1 .. Len(list) : list[j] = list[k] => j = k

(* A message has one owner: a producer until it is in its list, one place  *)
(* of one list, one place of the consumer's batch until it is freed;       *)
(* nothing else is allocated except what MqFreeMessage had to give up.     *)
OneOwner ==
    /\ allocated = Held \cup Queued \cup InBatch \cup leaked
    /\ \A p, q \in Producers : msg[p] = msg[q] /\ msg[p] # NULL => p = q
    /\ \A i, j \in Priorities : i # j => InQueue(i) \cap InQueue(j) = {}
    /\ \A i \in Priorities : NoRepeat(queue[i])
    /\ NoRepeat(batch)
    /\ Held \cap (Queued \cup InBatch \cup leaked) = {}
    /\ Queued \cap (InBatch \cup leaked) = {}
    /\ InBatch \cap leaked = {}

(* Nobody is inside the allocator of the lookaside list when it is deleted.*)
LookasideInUse ==
    ~lookaside => \A a \in Producers \cup {Consumer} :
                     pc[a] \notin {"allocate", "freeing"}

(* A consumer that waits while there are messages is about to be woken: no *)
(* message slips in between its scan and its wait.                         *)
Waking ==
    \/ available
    \/ \E p \in Producers : pc[p] \in {"read", "flow", "clearSpace",
                                       "setSpace", "notify"}

NoLostWakeup == pc[Consumer] = "await" /\ Queued # {} => Waking

(* MessageQueue.h: SpaceAvailableEvent is "Signaled when BELOW low water   *)
(* mark".  Here with nobody at work on the flow control.                   *)
SpaceSignalled ==
    (/\ mqState = "Running"
     /\ \A a \in Producers \cup {Consumer} : pc[a] = "idle"
     /\ total < LowWaterMark)
    => space

(* The header of MessageQueue.c: "Proper shutdown sequencing waits for all *)
(* outstanding operations".                                                *)
ShutdownLeavesNothing == mqState = "Shutdown" => Queued = {}

-----------------------------------------------------------------------------
(* The inductive invariant.                                                *)

(* The shutdown has not begun while the queue is running, and the memory   *)
(* of the lookaside list goes last, when nobody is protected any more.     *)
LifeShape ==
    /\ mqState = "Running" => pc[Shutdown] = "idle"
    /\ pc[Shutdown] \in {"rundown", "done"} => rundown
    /\ ~lookaside => rundown /\ protected = {}

(* Who holds rundown protection.                                           *)
ProtectedExact ==
    protected = {p \in Producers : pc[p] \notin {"idle", "protect"}}
                \cup {a \in {Consumer} : pc[a] = "freeing"}

(* What the consumer has taken, by where it is.                            *)
BatchShape ==
    /\ pc[Consumer] \in {"idle", "await"} => batch = <<>>
    /\ pc[Consumer] = "scan" => Len(batch) < MaxBatch
    /\ pc[Consumer] \notin {"idle", "await", "scan"} => batch # <<>>
    /\ pc[Consumer] = "taken" => batch[Len(batch)] # NULL
    /\ pc[Consumer] = "freeing" => Head(batch) # NULL

(* A producer holds a message exactly between allocation and list, and a   *)
(* message has the priority of its list.                                   *)
PriorityShape ==
    /\ \A p \in Producers : msg[p] # NULL <=> pc[p] = "insert"
    /\ \A p \in Producers : msg[p] # NULL => prio[msg[p]] = want[p]
    /\ \A i \in Priorities : \A m \in InQueue(i) : prio[m] = i

(* The scan has left behind no message that was there when it began.       *)
OlderShape ==
    /\ pc[Consumer] # "scan" => older = {}
    /\ older \subseteq Queued
    /\ \A n \in older : prio[n] <= level

(* A message that came behind the scan is announced.                       *)
WakeShape ==
    pc[Consumer] = "scan" =>
        \A i \in Priorities : i > level /\ queue[i] # <<>> => Waking

IInv ==
    /\ TypeOK /\ LifeShape /\ ProtectedExact /\ BatchShape
    /\ PriorityShape /\ OneOwner /\ OlderShape /\ WakeShape
    /\ DepthExact /\ NormalBounded /\ NoInversion /\ NoLostWakeup

=============================================================================
