------------------------- MODULE MessageQueue_proofs -------------------------
(***************************************************************************)
(* Proofs about MessageQueue, for any number of producers, messages and    *)
(* priorities, any depth and any size of a batch.                          *)
(***************************************************************************)
EXTENDS MessageQueue, FiniteSetTheorems, TLAPS

Threads == Producers \cup {Consumer}

(* What a list has after a message is appended.                            *)
LEMMA AppendMembers ==
    ASSUME NEW S, NEW s \in Seq(S), NEW m \in S
    PROVE  /\ Members(Append(s, m)) = Members(s) \cup {m}
           /\ NoRepeat(s) /\ m \notin Members(s) => NoRepeat(Append(s, m))
<1> DEFINE t == Append(s, m)
<1>1. t \in Seq(S) /\ Len(t) = Len(s) + 1 /\ Len(s) \in Nat
  OBVIOUS
<1>2. \A j \in 1 .. Len(s) : t[j] = s[j]
  OBVIOUS
<1>3. t[Len(s) + 1] = m
  OBVIOUS
<1> HIDE DEF t
<1>4. Members(t) = Members(s) \cup {m}
  <2>1. ASSUME NEW x \in Members(t) PROVE x \in Members(s) \cup {m}
    <3>1. PICK j \in 1 .. Len(t) : x = t[j]
      BY <2>1 DEF Members
    <3> QED BY <3>1, <1>1, <1>2, <1>3 DEF Members
  <2>2. ASSUME NEW x \in Members(s) PROVE x \in Members(t)
    <3>1. PICK j \in 1 .. Len(s) : x = s[j]
      BY <2>2 DEF Members
    <3> QED BY <3>1, <1>1, <1>2 DEF Members
  <2>3. m \in Members(t)
    BY <1>1, <1>3 DEF Members
  <2> QED BY <2>1, <2>2, <2>3
<1>5. NoRepeat(s) /\ m \notin Members(s) => NoRepeat(t)
  <2> SUFFICES ASSUME NoRepeat(s), m \notin Members(s),
                      NEW j \in 1 .. Len(t), NEW k \in 1 .. Len(t), t[j] = t[k]
               PROVE  j = k
    BY DEF NoRepeat
  <2>1. \A i \in 1 .. Len(s) : t[i] # m
    BY <1>2 DEF Members
  <2> QED BY <2>1, <1>1, <1>2, <1>3 DEF NoRepeat
<1> QED BY <1>4, <1>5 DEF t

(* What is left of a list after its head is taken.                         *)
LEMMA TailMembers ==
    ASSUME NEW S, NEW s \in Seq(S), s # <<>>, NoRepeat(s)
    PROVE  /\ Head(s) \in Members(s) /\ Head(s) \in S
           /\ Tail(s) \in Seq(S) /\ Len(Tail(s)) = Len(s) - 1
           /\ Members(Tail(s)) = Members(s) \ {Head(s)}
           /\ NoRepeat(Tail(s))
<1> DEFINE t == Tail(s)
<1>1. t \in Seq(S) /\ Len(t) = Len(s) - 1 /\ Len(s) \in Nat /\ Len(s) >= 1
  OBVIOUS
<1>2. \A j \in 1 .. Len(t) : t[j] = s[j + 1]
  OBVIOUS
<1>3. Head(s) = s[1] /\ s[1] \in S
  OBVIOUS
<1> HIDE DEF t
<1>4. Head(s) \in Members(s)
  BY <1>1, <1>3 DEF Members
<1>5. ASSUME NEW x \in Members(t) PROVE x \in Members(s) \ {Head(s)}
  <2>1. PICK j \in 1 .. Len(t) : x = t[j]
    BY <1>5 DEF Members
  <2>2. x = s[j + 1] /\ j + 1 \in 1 .. Len(s) /\ j + 1 # 1 /\ 1 \in 1 .. Len(s)
    BY <2>1, <1>1, <1>2
  <2> QED BY <2>2, <1>3 DEF Members, NoRepeat
<1>6. ASSUME NEW x \in Members(s), x # Head(s) PROVE x \in Members(t)
  <2>1. PICK j \in 1 .. Len(s) : x = s[j]
    BY <1>6 DEF Members
  <2>2. j - 1 \in 1 .. Len(t) /\ t[j - 1] = x
    BY <2>1, <1>6, <1>1, <1>2, <1>3
  <2> QED BY <2>2 DEF Members
<1>7. NoRepeat(t)
  <2> SUFFICES ASSUME NEW j \in 1 .. Len(t), NEW k \in 1 .. Len(t), t[j] = t[k]
               PROVE  j = k
    BY DEF NoRepeat
  <2>1. s[j + 1] = s[k + 1] /\ j + 1 \in 1 .. Len(s) /\ k + 1 \in 1 .. Len(s)
    BY <1>1, <1>2
  <2>2. j + 1 = k + 1
    BY <2>1 DEF NoRepeat
  <2> QED BY <2>2
<1> QED BY <1>1, <1>3, <1>4, <1>5, <1>6, <1>7 DEF t

(* Without its head, a list of one message is empty.                       *)
LEMMA TailEmpty ==
    ASSUME NEW S, NEW s \in Seq(S), s # <<>>
    PROVE  Tail(s) = <<>> <=> Len(s) = 1
<1>1. Tail(s) \in Seq(S) /\ Len(Tail(s)) = Len(s) - 1 /\ Len(s) \in Nat
  OBVIOUS
<1>2. \A t \in Seq(S) : Len(t) = 0 <=> t = <<>>
  OBVIOUS
<1>3. Len(Tail(s)) = 0 <=> Len(s) = 1
  BY <1>1
<1> QED BY <1>1, <1>2, <1>3

(* The empty list.                                                         *)
LEMMA EmptyMembers ==
    /\ Members(<<>>) = {}
    /\ NoRepeat(<<>>)
    /\ \A S : \A s \in Seq(S) : Members(s) = {} => s = <<>>
    /\ \A S : \A s \in Seq(S) : Members(s) \subseteq S
<1>1. Members(<<>>) = {} /\ NoRepeat(<<>>)
  BY DEF Members, NoRepeat
<1>2. ASSUME NEW S, NEW s \in Seq(S), Members(s) = {} PROVE s = <<>>
  <2>1. CASE Len(s) = 0
    BY <2>1
  <2>2. CASE Len(s) # 0
    <3>1. 1 \in 1 .. Len(s)
      BY <2>2
    <3>2. s[1] \in Members(s)
      BY <3>1 DEF Members
    <3> QED BY <3>2, <1>2
  <2> QED BY <2>1, <2>2
<1>3. ASSUME NEW S, NEW s \in Seq(S) PROVE Members(s) \subseteq S
  BY <1>3 DEF Members
<1> QED BY <1>1, <1>2, <1>3

(* The types of the program counters, and of everything else.              *)
PcOK ==
    /\ pc \in [Producers \cup {Consumer, Shutdown} ->
                   ProducerLabels \cup ConsumerLabels \cup ShutdownLabels]
    /\ \A p \in Producers : pc[p] \in ProducerLabels
    /\ pc[Consumer] \in ConsumerLabels
    /\ pc[Shutdown] \in ShutdownLabels

RestOK ==
    /\ mqState \in {"Running", "ShuttingDown", "Shutdown"}
    /\ rundown \in BOOLEAN /\ lookaside \in BOOLEAN
    /\ protected \subseteq Producers \cup {Consumer}
    /\ queue \in [Priorities -> Seq(Messages)]
    /\ total \in Int
    /\ flow \in BOOLEAN /\ space \in BOOLEAN /\ available \in BOOLEAN
    /\ allocated \subseteq Messages /\ leaked \subseteq Messages
    /\ prio \in [Messages -> Priorities]
    /\ want \in [Producers -> Priorities]
    /\ msg \in [Producers -> Messages \cup {NULL}]
    /\ depth \in [Producers \cup {Consumer} -> Int]
    /\ batch \in Seq(Messages \cup {NULL}) /\ Len(batch) <= MaxBatch
    /\ level \in Priorities /\ older \subseteq Messages
    /\ waited \in BOOLEAN /\ inverted \in BOOLEAN
    /\ swept \in 0 .. Top + 1

(* TypeOK is both.                                                         *)
LEMMA TypeParts == (TypeOK <=> RestOK /\ PcOK) /\ (TypeOK' <=> RestOK' /\ PcOK')
BY DEF TypeOK, RestOK, PcOK

(* A thread that goes to a label of its own keeps the types of the program *)
(* counters.                                                               *)
LEMMA PcStep ==
    ASSUME PcOK, NEW a \in Threads, NEW l, pc' = [pc EXCEPT ![a] = l],
           a \in Producers => l \in ProducerLabels,
           a = Consumer => l \in ConsumerLabels
    PROVE  PcOK'
BY QueueAssumption DEF PcOK, Threads, Shutdown, ProducerLabels, ConsumerLabels,
   ShutdownLabels

(* Every step keeps every variable within its type.  That the batch has    *)
(* room for what a scan takes, and has something to free, is BatchShape.   *)
LEMMA TypeStep ==
    ASSUME TypeOK, BatchShape, PriorityShape, older \subseteq Queued,
           [Next]_vars
    PROVE  TypeOK'
<1>q. Queued \subseteq Messages
  BY EmptyMembers DEF TypeOK, Queued, InQueue
<1> USE QueueAssumption
    DEF TypeOK, lifeVars, flowVars, memVars, prodVars, consVars, Goto,
        Threads, Shutdown, Priorities, ProducerLabels, ConsumerLabels,
        ShutdownLabels
<1>1. ASSUME NEW p \in Producers, EnqueueMessage(p) PROVE TypeOK'
  <2>1. PICK i \in Priorities : want' = [want EXCEPT ![p] = i]
    BY <1>1 DEF EnqueueMessage
  <2>2. /\ pc' = [pc EXCEPT ![p] = "protect"]
        /\ UNCHANGED <<lifeVars, protected, queue, total, flowVars, available,
                       memVars, msg, depth, consVars, swept>>
    BY <1>1 DEF EnqueueMessage
  <2>3. want' \in [Producers -> Priorities]
    BY <2>1
  <2>8. RestOK'
    BY <2>2, <2>3, TypeParts DEF RestOK
  <2>9. PcOK'
    BY <2>2, PcStep, TypeParts DEF Threads
  <2> HIDE DEF TypeOK
  <2> QED BY <2>8, <2>9, TypeParts
<1>2. ASSUME NEW p \in Producers, AcquireRundown(p) PROVE TypeOK'
  <2>1. PICK l \in {"idle", "reserve"} : pc' = [pc EXCEPT ![p] = l]
    BY <1>2 DEF AcquireRundown
  <2>2. /\ protected' \subseteq Threads
        /\ UNCHANGED <<lifeVars, queue, total, flowVars, available, memVars,
                       want, msg, depth, consVars, swept>>
    BY <1>2 DEF AcquireRundown
  <2>8. RestOK'
    BY <2>2, TypeParts DEF RestOK
  <2>9. PcOK'
    BY <2>1, PcStep, TypeParts DEF Threads
  <2> HIDE DEF TypeOK
  <2> QED BY <2>8, <2>9, TypeParts
<1>3. ASSUME NEW p \in Producers, Reserve(p) PROVE TypeOK'
  BY <1>3, SMTT(30) DEF Reserve
<1>4. ASSUME NEW p \in Producers, QueueFull(p) PROVE TypeOK'
  BY <1>4, SMTT(30) DEF QueueFull, Leave
<1>5. ASSUME NEW p \in Producers, AllocateMessage(p) PROVE TypeOK'
  <2>1. PICK m \in Messages :
            /\ allocated' = allocated \cup {m}
            /\ prio' = [prio EXCEPT ![m] = want[p]]
            /\ msg' = [msg EXCEPT ![p] = m]
    BY <1>5 DEF AllocateMessage
  <2>2. /\ pc' = [pc EXCEPT ![p] = "insert"]
        /\ UNCHANGED <<lifeVars, protected, queue, total, flowVars, available,
                       leaked, want, depth, consVars, swept>>
    BY <1>5 DEF AllocateMessage
  <2>3. /\ allocated' \subseteq Messages /\ prio' \in [Messages -> Priorities]
        /\ msg' \in [Producers -> Messages \cup {NULL}]
    BY <2>1
  <2>8. RestOK'
    BY <2>2, <2>3, TypeParts DEF RestOK
  <2>9. PcOK'
    BY <2>2, PcStep, TypeParts DEF Threads
  <2> HIDE DEF TypeOK
  <2> QED BY <2>8, <2>9, TypeParts
<1>6. ASSUME NEW p \in Producers, AllocateFailed(p) PROVE TypeOK'
  BY <1>6, SMTT(30) DEF AllocateFailed, Leave
<1>7. ASSUME NEW p \in Producers, EnqueueToPriorityQueue(p) PROVE TypeOK'
  <2>1. msg[p] \in Messages /\ want[p] \in Priorities
    BY <1>7 DEF EnqueueToPriorityQueue, PriorityShape
  <2>2. /\ queue' = [queue EXCEPT ![want[p]] = Append(queue[want[p]], msg[p])]
        /\ msg' = [msg EXCEPT ![p] = NULL]
        /\ pc' = [pc EXCEPT ![p] = "read"]
    BY <1>7 DEF EnqueueToPriorityQueue
  <2>3. UNCHANGED <<lifeVars, protected, total, flowVars, available, memVars,
                    want, depth, consVars, swept>>
    BY <1>7 DEF EnqueueToPriorityQueue
  <2>4. queue' \in [Priorities -> Seq(Messages)]
    BY <2>1, <2>2
  <2>5. /\ msg' \in [Producers -> Messages \cup {NULL}]
        /\ pc'[Consumer] = pc[Consumer] /\ pc'[Shutdown] = pc[Shutdown]
        /\ \A q \in Producers : pc'[q] \in ProducerLabels
        /\ DOMAIN pc' = DOMAIN pc
    BY <2>2
  <2> QED BY <2>2, <2>3, <2>4, <2>5, SMTT(30)
<1>8. ASSUME NEW p \in Producers, SetAvailable(p) PROVE TypeOK'
  BY <1>8, SMTT(30) DEF SetAvailable, Leave
<1>9. ASSUME NEW a \in Threads, ReadDepth(a) PROVE TypeOK'
  BY <1>9, SMTT(30) DEF ReadDepth
<1>10. ASSUME NEW a \in Threads, UpdateFlowControl(a) PROVE TypeOK'
  <2>1. PICK l \in {"notify", "again", "free", "clearSpace", "setSpace"} :
            /\ pc' = [pc EXCEPT ![a] = l]
            /\ a # Consumer => l \in {"notify", "clearSpace", "setSpace"}
            /\ a = Consumer => l \in {"again", "free", "clearSpace", "setSpace"}
    BY <1>10 DEF UpdateFlowControl, AfterFlow
  <2>2. flow' \in BOOLEAN
    BY <1>10 DEF UpdateFlowControl
  <2>3. /\ depth' = [depth EXCEPT ![a] = 0]
        /\ UNCHANGED <<lifeVars, protected, queue, total, space, available,
                       memVars, prodVars, consVars, swept>>
    BY <1>10 DEF UpdateFlowControl
  <2>8. RestOK'
    BY <2>2, <2>3, TypeParts, SMTT(30) DEF RestOK
  <2>9. PcOK'
    BY <2>1, PcStep, TypeParts DEF Threads
  <2> HIDE DEF TypeOK
  <2> QED BY <2>8, <2>9, TypeParts
<1>11. ASSUME NEW a \in Threads, SignalFlow(a) PROVE TypeOK'
  BY <1>11, SMTT(30) DEF SignalFlow, AfterFlow
<1>12. CASE DequeueBatch
  BY <1>12, <1>q, SMTT(30) DEF DequeueBatch, BeginScan
<1>13. CASE ScanTake
  <2> DEFINE m == Head(queue[level])
  <2>1. /\ queue[level] \in Seq(Messages) /\ queue[level] # <<>>
        /\ Len(batch) < MaxBatch
    BY <1>13 DEF ScanTake, BatchShape
  <2>2. m \in Messages /\ Tail(queue[level]) \in Seq(Messages)
    BY <2>1
  <2>3. /\ queue' = [queue EXCEPT ![level] = Tail(queue[level])]
        /\ batch' = Append(batch, m)
        /\ level' = Top /\ older' = {}
        /\ pc' = [pc EXCEPT ![Consumer] = "taken"]
        /\ UNCHANGED <<lifeVars, protected, total, flowVars, available,
                       memVars, prodVars, depth, waited, swept>>
    BY <1>13 DEF ScanTake
  <2>4. inverted' \in BOOLEAN
    BY <1>13 DEF ScanTake
  <2>5. queue' \in [Priorities -> Seq(Messages)]
    BY <2>2, <2>3
  <2>6. batch' \in Seq(Messages \cup {NULL}) /\ Len(batch') <= MaxBatch
    BY <2>1, <2>2, <2>3, SMTT(30)
  <2>7. /\ level' = Top /\ older' = {}
        /\ pc' = [pc EXCEPT ![Consumer] = "taken"]
        /\ UNCHANGED <<lifeVars, protected, total, flowVars, available,
                       memVars, prodVars, depth, waited, swept>>
    BY <2>3
  <2>8. RestOK'
    <3>1. /\ queue' \in [Priorities -> Seq(Messages)]
          /\ batch' \in Seq(Messages \cup {NULL}) /\ Len(batch') <= MaxBatch
          /\ level' \in Priorities /\ older' \subseteq Messages
          /\ inverted' \in BOOLEAN
      BY <2>4, <2>5, <2>6, <2>7
    <3>2. UNCHANGED <<lifeVars, protected, total, flowVars, available,
                      memVars, prodVars, depth, waited, swept>>
      BY <2>7
    <3>3. RestOK
      BY TypeParts
    <3> HIDE QueueAssumption
        DEF TypeOK, Priorities, Goto, Threads, Shutdown, ProducerLabels,
            ConsumerLabels, ShutdownLabels
    <3> QED BY <3>1, <3>2, <3>3, SMTT(30) DEF RestOK
  <2>9. PcOK'
    BY <2>7, PcStep, TypeParts DEF Threads
  <2> HIDE DEF TypeOK
  <2> QED BY <2>8, <2>9, TypeParts
<1>14. CASE ScanNext
  BY <1>14, SMTT(30) DEF ScanNext
<1>15. CASE ScanEmpty
  <2>1. PICK l \in {"read", "idle", "await"} :
            pc' = [pc EXCEPT ![Consumer] = l]
    BY <1>15 DEF ScanEmpty
  <2>2. waited' \in BOOLEAN
    BY <1>15 DEF ScanEmpty
  <2>3. /\ level' = Top /\ older' = {}
        /\ UNCHANGED <<lifeVars, protected, queue, total, flowVars, available,
                       memVars, prodVars, depth, batch, inverted, swept>>
    BY <1>15 DEF ScanEmpty
  <2>8. RestOK'
    BY <2>2, <2>3, TypeParts, SMTT(30) DEF RestOK
  <2>9. PcOK'
    BY <2>1, PcStep, TypeParts DEF Threads
  <2> HIDE DEF TypeOK
  <2> QED BY <2>8, <2>9, TypeParts
<1>16. CASE CountTaken
  <2>1. PICK l \in {"scan", "read", "idle"} :
            pc' = [pc EXCEPT ![Consumer] = l]
    BY <1>16 DEF CountTaken, BeginScan
  <2>2. level' \in Priorities /\ older' \subseteq Messages
    BY <1>16, <1>q DEF CountTaken, BeginScan
  <2>3. total' \in Int /\ waited' \in BOOLEAN /\ available' \in BOOLEAN
    BY <1>16 DEF CountTaken
  <2>4. UNCHANGED <<lifeVars, protected, queue, flowVars, memVars, prodVars,
                    depth, batch, inverted, swept>>
    BY <1>16 DEF CountTaken
  <2>8. RestOK'
    BY <2>2, <2>3, <2>4, TypeParts DEF RestOK
  <2>9. PcOK'
    BY <2>1, PcStep, TypeParts DEF Threads
  <2> HIDE DEF TypeOK
  <2> QED BY <2>8, <2>9, TypeParts
<1>17. CASE ContinueBatch
  <2>1. PICK l \in {"scan", "read", "idle"} :
            pc' = [pc EXCEPT ![Consumer] = l]
    BY <1>17 DEF ContinueBatch, BeginScan
  <2>2. level' \in Priorities /\ older' \subseteq Messages
    BY <1>17, <1>q DEF ContinueBatch, BeginScan
  <2>3. total' \in Int /\ waited' \in BOOLEAN /\ available' \in BOOLEAN
    BY <1>17 DEF ContinueBatch
  <2>4. UNCHANGED <<lifeVars, protected, queue, flowVars, memVars, prodVars,
                    depth, batch, inverted, swept>>
    BY <1>17 DEF ContinueBatch
  <2>8. RestOK'
    BY <2>2, <2>3, <2>4, TypeParts DEF RestOK
  <2>9. PcOK'
    BY <2>1, PcStep, TypeParts DEF Threads
  <2> HIDE DEF TypeOK
  <2> QED BY <2>8, <2>9, TypeParts
<1>18. CASE AwaitSignalled
  <2>1. PICK l \in {"scan", "read", "idle"} :
            pc' = [pc EXCEPT ![Consumer] = l]
    BY <1>18 DEF AwaitSignalled, BeginScan
  <2>2. level' \in Priorities /\ older' \subseteq Messages
    BY <1>18, <1>q DEF AwaitSignalled, BeginScan
  <2>3. total' \in Int /\ waited' \in BOOLEAN /\ available' \in BOOLEAN
    BY <1>18 DEF AwaitSignalled
  <2>4. UNCHANGED <<lifeVars, protected, queue, flowVars, memVars, prodVars,
                    depth, batch, inverted, swept>>
    BY <1>18 DEF AwaitSignalled
  <2>8. RestOK'
    BY <2>2, <2>3, <2>4, TypeParts DEF RestOK
  <2>9. PcOK'
    BY <2>1, PcStep, TypeParts DEF Threads
  <2> HIDE DEF TypeOK
  <2> QED BY <2>8, <2>9, TypeParts
<1>19. CASE AwaitTimeout
  <2>1. PICK l \in {"scan", "read"} : pc' = [pc EXCEPT ![Consumer] = l]
    BY <1>19 DEF AwaitTimeout, BeginScan
  <2>2. level' \in Priorities /\ older' \subseteq Messages
    BY <1>19, <1>q DEF AwaitTimeout, BeginScan
  <2>3. batch' \in Seq(Messages \cup {NULL}) /\ Len(batch') <= MaxBatch
    BY <1>19 DEF AwaitTimeout
  <2>4. UNCHANGED <<lifeVars, protected, queue, total, flowVars, available,
                    memVars, prodVars, depth, waited, inverted, swept>>
    BY <1>19 DEF AwaitTimeout
  <2>8. RestOK'
    BY <2>2, <2>3, <2>4, TypeParts DEF RestOK
  <2>9. PcOK'
    BY <2>1, PcStep, TypeParts DEF Threads
  <2> HIDE DEF TypeOK
  <2> QED BY <2>8, <2>9, TypeParts
<1>20. CASE FreeMessage
  BY <1>20, SMTT(30) DEF FreeMessage
<1>21. CASE FreeMessageLate
  <2>1. batch # <<>>
    BY <1>21 DEF FreeMessageLate, BatchShape
  <2>6. Head(batch) # NULL
    BY <1>21 DEF FreeMessageLate, BatchShape
  <2>2. /\ Head(batch) \in Messages
        /\ Tail(batch) \in Seq(Messages \cup {NULL})
        /\ Len(Tail(batch)) <= MaxBatch
    BY <2>1, <2>6
  <2>3. /\ prio' \in [Messages -> Priorities]
        /\ batch' \in Seq(Messages \cup {NULL}) /\ Len(batch') <= MaxBatch
    BY <1>21, <2>2 DEF FreeMessageLate, FreeNext, NextOfBatch
  <2>5. /\ allocated' \subseteq Messages /\ leaked' \subseteq Messages
        /\ protected' \subseteq Threads
        /\ UNCHANGED <<lifeVars, queue, total, flowVars, available, prodVars,
                       depth, level, older, waited, inverted, swept>>
    BY <1>21, <2>2 DEF FreeMessageLate, FreeNext, NextOfBatch
  <2>4. PICK l \in {"idle", "free"} : pc' = [pc EXCEPT ![Consumer] = l]
    BY <1>21 DEF FreeMessageLate, FreeNext, NextOfBatch
  <2>8. RestOK'
    BY <2>3, <2>5, TypeParts DEF RestOK
  <2>9. PcOK'
    BY <2>4, PcStep, TypeParts DEF Threads
  <2> HIDE DEF TypeOK
  <2> QED BY <2>8, <2>9, TypeParts
<1>22. CASE FreeMessageInternal
  <2>1. batch # <<>>
    BY <1>22 DEF FreeMessageInternal, BatchShape
  <2>6. Head(batch) # NULL
    BY <1>22 DEF FreeMessageInternal, BatchShape
  <2>2. /\ Head(batch) \in Messages
        /\ Tail(batch) \in Seq(Messages \cup {NULL})
        /\ Len(Tail(batch)) <= MaxBatch
    BY <2>1, <2>6
  <2>3. /\ prio' \in [Messages -> Priorities]
        /\ batch' \in Seq(Messages \cup {NULL}) /\ Len(batch') <= MaxBatch
    BY <1>22, <2>2 DEF FreeMessageInternal, FreeNext, NextOfBatch
  <2>5. /\ allocated' \subseteq Messages /\ leaked' \subseteq Messages
        /\ protected' \subseteq Threads
        /\ UNCHANGED <<lifeVars, queue, total, flowVars, available, prodVars,
                       depth, level, older, waited, inverted, swept>>
    BY <1>22, <2>2 DEF FreeMessageInternal, FreeNext, NextOfBatch
  <2>4. PICK l \in {"idle", "free"} : pc' = [pc EXCEPT ![Consumer] = l]
    BY <1>22 DEF FreeMessageInternal, FreeNext, NextOfBatch
  <2>8. RestOK'
    BY <2>3, <2>5, TypeParts DEF RestOK
  <2>9. PcOK'
    BY <2>4, PcStep, TypeParts DEF Threads
  <2> HIDE DEF TypeOK
  <2> QED BY <2>8, <2>9, TypeParts
<1>23. CASE ShutdownBegin
  BY <1>23, SMTT(30) DEF ShutdownBegin
<1>24. CASE ShutdownDrain
  <2>1. /\ queue' \in [Priorities -> Seq(Messages)]
        /\ prio' \in [Messages -> Priorities]
        /\ allocated' \subseteq Messages /\ older' \subseteq Messages
    BY <1>24 DEF ShutdownDrain
  <2>2. swept' \in 0 .. Top + 1
    BY <1>24 DEF ShutdownDrain
  <2>3. UNCHANGED <<lifeVars, protected, total, flowVars, available, leaked,
                    prodVars, depth, batch, level, waited, inverted, pc>>
    BY <1>24 DEF ShutdownDrain
  <2>8. RestOK'
    <3>1. RestOK
      BY TypeParts
    <3> HIDE QueueAssumption
        DEF TypeOK, Priorities, Goto, Threads, Shutdown, ProducerLabels,
            ConsumerLabels, ShutdownLabels
    <3> QED BY <2>1, <2>2, <2>3, <3>1, SMTT(30) DEF RestOK
  <2>9. PcOK'
    BY <2>3, TypeParts DEF PcOK
  <2> HIDE DEF TypeOK
  <2> QED BY <2>8, <2>9, TypeParts
<1>25. CASE ShutdownReset
  BY <1>25, SMTT(30) DEF ShutdownReset
<1>26. CASE ShutdownDelete
  BY <1>26 DEF ShutdownDelete
<1>27. CASE UNCHANGED vars
  BY <1>27 DEF vars
<1>28. CASE FreeNothing
  <2>1. batch # <<>>
    BY <1>28 DEF FreeNothing, BatchShape
  <2>2. batch' \in Seq(Messages \cup {NULL}) /\ Len(batch') <= MaxBatch
    BY <1>28, <2>1 DEF FreeNothing, NextOfBatch
  <2>3. PICK l \in {"idle", "free"} : pc' = [pc EXCEPT ![Consumer] = l]
    BY <1>28 DEF FreeNothing, NextOfBatch
  <2>4. UNCHANGED <<lifeVars, protected, queue, total, flowVars, available,
                    memVars, prodVars, depth, level, older, waited, inverted,
                    swept>>
    BY <1>28 DEF FreeNothing
  <2>8. RestOK'
    BY <2>2, <2>4, TypeParts DEF RestOK
  <2>9. PcOK'
    BY <2>3, PcStep, TypeParts DEF Threads
  <2> HIDE DEF TypeOK
  <2> QED BY <2>8, <2>9, TypeParts
<1> HIDE QueueAssumption
    DEF TypeOK, lifeVars, flowVars, memVars, prodVars, consVars, Goto,
        Threads, Shutdown, Priorities, ProducerLabels, ConsumerLabels,
        ShutdownLabels
<1> QED
  BY <1>1, <1>2, <1>3, <1>4, <1>5, <1>6, <1>7, <1>8, <1>9, <1>10, <1>11,
     <1>12, <1>13, <1>14, <1>15, <1>16, <1>17, <1>18, <1>19, <1>20, <1>21,
     <1>22, <1>23, <1>24, <1>25, <1>26, <1>27, <1>28
  DEF Next, ProducerStep, ConsumerStep, ShutdownStep, FlowStep, Threads, Stopped

(* The life of the queue, the protection and the batch, as threads move.   *)
LEMMA LifeStep ==
    ASSUME TypeOK, LifeShape, ProtectedExact, [Next]_vars
    PROVE  LifeShape' /\ ProtectedExact'
<1> USE QueueAssumption
    DEF TypeOK, lifeVars, flowVars, memVars, prodVars, consVars, Goto,
        Threads, Shutdown, Priorities, ProducerLabels, ConsumerLabels,
        ShutdownLabels,
        LifeShape, ProtectedExact
<1>1. ASSUME NEW p \in Producers, EnqueueMessage(p)
      PROVE  LifeShape' /\ ProtectedExact'
  BY <1>1 DEF EnqueueMessage
<1>2. ASSUME NEW p \in Producers, AcquireRundown(p)
      PROVE  LifeShape' /\ ProtectedExact'
  <2>1. CASE rundown
    <3>1. /\ pc[p] = "protect" /\ pc' = [pc EXCEPT ![p] = "idle"]
          /\ UNCHANGED <<lifeVars, protected>>
      BY <1>2, <2>1 DEF AcquireRundown
    <3>2. LifeShape'
      BY <3>1
    <3>3. ProtectedExact'
      BY <3>1
    <3> QED BY <3>2, <3>3
  <2>2. CASE ~rundown
    <3>1. /\ protected' = protected \cup {p}
          /\ pc' = [pc EXCEPT ![p] = "reserve"]
          /\ UNCHANGED lifeVars
      BY <1>2, <2>2 DEF AcquireRundown
    <3>2. lookaside
      BY <2>2
    <3> QED BY <3>1, <3>2, <1>2, <2>2, SMTT(30) DEF AcquireRundown
  <2> QED BY <2>1, <2>2
<1>3. ASSUME NEW p \in Producers, Reserve(p)
      PROVE  LifeShape' /\ ProtectedExact'
  BY <1>3 DEF Reserve
<1>4. ASSUME NEW p \in Producers, QueueFull(p)
      PROVE  LifeShape' /\ ProtectedExact'
  BY <1>4 DEF QueueFull, Leave
<1>5. ASSUME NEW p \in Producers, AllocateMessage(p)
      PROVE  LifeShape' /\ ProtectedExact'
  BY <1>5 DEF AllocateMessage
<1>6. ASSUME NEW p \in Producers, AllocateFailed(p)
      PROVE  LifeShape' /\ ProtectedExact'
  BY <1>6 DEF AllocateFailed, Leave
<1>7. ASSUME NEW p \in Producers, EnqueueToPriorityQueue(p)
      PROVE  LifeShape' /\ ProtectedExact'
  BY <1>7 DEF EnqueueToPriorityQueue
<1>8. ASSUME NEW p \in Producers, SetAvailable(p)
      PROVE  LifeShape' /\ ProtectedExact'
  BY <1>8 DEF SetAvailable, Leave
<1>9. ASSUME NEW a \in Threads, ReadDepth(a)
      PROVE  LifeShape' /\ ProtectedExact'
  BY <1>9 DEF ReadDepth
<1>10. ASSUME NEW a \in Threads, UpdateFlowControl(a)
       PROVE  LifeShape' /\ ProtectedExact'
  BY <1>10, SMTT(30) DEF UpdateFlowControl, AfterFlow
<1>11. ASSUME NEW a \in Threads, SignalFlow(a)
       PROVE  LifeShape' /\ ProtectedExact'
  BY <1>11, SMTT(30) DEF SignalFlow, AfterFlow
<1>12. CASE DequeueBatch
  BY <1>12 DEF DequeueBatch, BeginScan
<1>13. CASE ScanTake
  BY <1>13 DEF ScanTake
<1>14. CASE ScanNext
  BY <1>14 DEF ScanNext
<1>15. CASE ScanEmpty
  BY <1>15, SMTT(30) DEF ScanEmpty
<1>16. CASE CountTaken
  BY <1>16, SMTT(30) DEF CountTaken, BeginScan
<1>17. CASE ContinueBatch
  BY <1>17 DEF ContinueBatch, BeginScan
<1>18. CASE AwaitSignalled
  BY <1>18 DEF AwaitSignalled, BeginScan
<1>19. CASE AwaitTimeout
  BY <1>19 DEF AwaitTimeout, BeginScan
<1>20. CASE FreeMessage
  BY <1>20 DEF FreeMessage
<1>21. CASE FreeMessageLate
  BY <1>21 DEF FreeMessageLate, FreeNext, NextOfBatch
<1>22. CASE FreeMessageInternal
  BY <1>22 DEF FreeMessageInternal, FreeNext, NextOfBatch
<1>23. CASE ShutdownBegin
  BY <1>23 DEF ShutdownBegin
<1>24. CASE ShutdownDrain
  BY <1>24 DEF ShutdownDrain
<1>25. CASE ShutdownReset
  BY <1>25 DEF ShutdownReset
<1>26. CASE ShutdownDelete
  BY <1>26 DEF ShutdownDelete
<1>27. CASE UNCHANGED vars
  BY <1>27 DEF vars
<1>28. CASE FreeNothing
  BY <1>28 DEF FreeNothing, NextOfBatch
<1> HIDE QueueAssumption
    DEF TypeOK, lifeVars, flowVars, memVars, prodVars, consVars, Goto,
        Threads, Shutdown, Priorities, ProducerLabels, ConsumerLabels,
        ShutdownLabels,
        LifeShape, ProtectedExact
<1> QED
  BY <1>1, <1>2, <1>3, <1>4, <1>5, <1>6, <1>7, <1>8, <1>9, <1>10, <1>11,
     <1>12, <1>13, <1>14, <1>15, <1>16, <1>17, <1>18, <1>19, <1>20, <1>21,
     <1>22, <1>23, <1>24, <1>25, <1>26, <1>27, <1>28
  DEF Next, ProducerStep, ConsumerStep, ShutdownStep, FlowStep, Threads, Stopped

(* What the consumer has taken, as it moves.                               *)
LEMMA BatchStep ==
    ASSUME TypeOK, BatchShape, [Next]_vars
    PROVE  BatchShape'
<1> USE QueueAssumption
    DEF TypeOK, lifeVars, flowVars, memVars, prodVars, consVars, Goto,
        Threads, Shutdown, Priorities, ProducerLabels, ConsumerLabels,
        ShutdownLabels, BatchShape
<1>1. ASSUME NEW p \in Producers, EnqueueMessage(p) PROVE BatchShape'
  BY <1>1 DEF EnqueueMessage
<1>2. ASSUME NEW p \in Producers, AcquireRundown(p) PROVE BatchShape'
  BY <1>2 DEF AcquireRundown
<1>3. ASSUME NEW p \in Producers, Reserve(p) PROVE BatchShape'
  BY <1>3 DEF Reserve
<1>4. ASSUME NEW p \in Producers, QueueFull(p) PROVE BatchShape'
  BY <1>4 DEF QueueFull, Leave
<1>5. ASSUME NEW p \in Producers, AllocateMessage(p) PROVE BatchShape'
  BY <1>5 DEF AllocateMessage
<1>6. ASSUME NEW p \in Producers, AllocateFailed(p) PROVE BatchShape'
  BY <1>6 DEF AllocateFailed, Leave
<1>7. ASSUME NEW p \in Producers, EnqueueToPriorityQueue(p) PROVE BatchShape'
  BY <1>7 DEF EnqueueToPriorityQueue
<1>8. ASSUME NEW p \in Producers, SetAvailable(p) PROVE BatchShape'
  BY <1>8 DEF SetAvailable, Leave
<1>9. ASSUME NEW a \in Threads, ReadDepth(a) PROVE BatchShape'
  BY <1>9 DEF ReadDepth
<1>10. ASSUME NEW a \in Threads, UpdateFlowControl(a) PROVE BatchShape'
  BY <1>10 DEF UpdateFlowControl, AfterFlow
<1>11. ASSUME NEW a \in Threads, SignalFlow(a) PROVE BatchShape'
  BY <1>11 DEF SignalFlow, AfterFlow
<1>12. CASE DequeueBatch
  BY <1>12 DEF DequeueBatch, BeginScan
<1>13. CASE ScanTake
  <2>1. /\ batch' = Append(batch, Head(queue[level]))
        /\ pc' = [pc EXCEPT ![Consumer] = "taken"]
    BY <1>13 DEF ScanTake
  <2>2. Head(queue[level]) \in Messages
    BY <1>13 DEF ScanTake
  <2>3. Len(batch') = Len(batch) + 1 /\ Len(batch) \in Nat
    BY <2>1, <2>2
  <2>5. batch'[Len(batch) + 1] = Head(queue[level])
    BY <2>1, <2>2
  <2>4. batch' # <<>> /\ batch'[Len(batch')] # NULL
    BY <2>2, <2>3, <2>5
  <2> QED BY <2>1, <2>4
<1>14. CASE ScanNext
  BY <1>14 DEF ScanNext
<1>15. CASE ScanEmpty
  BY <1>15 DEF ScanEmpty
<1>16. CASE CountTaken
  BY <1>16 DEF CountTaken, BeginScan
<1>17. CASE ContinueBatch
  BY <1>17 DEF ContinueBatch, BeginScan
<1>18. CASE AwaitSignalled
  BY <1>18 DEF AwaitSignalled, BeginScan
<1>19. CASE AwaitTimeout
  <2>1. batch' = <<NULL>> /\ Len(batch') = 1 /\ batch' # <<>>
    BY <1>19 DEF AwaitTimeout
  <2>2. \/ pc' = [pc EXCEPT ![Consumer] = "scan"] /\ 1 < MaxBatch
        \/ pc' = [pc EXCEPT ![Consumer] = "read"]
    BY <1>19 DEF AwaitTimeout, BeginScan
  <2> QED BY <2>1, <2>2
<1>20. CASE FreeMessage
  BY <1>20 DEF FreeMessage
<1>21. CASE FreeMessageLate
  <2>1. /\ batch # <<>> /\ batch' = Tail(batch)
        /\ pc' = [pc EXCEPT ![Consumer] = IF Len(batch) = 1 THEN "idle"
                                                           ELSE "free"]
    BY <1>21 DEF FreeMessageLate, FreeNext, NextOfBatch
  <2>2. batch' = <<>> <=> Len(batch) = 1
    BY <2>1, TailEmpty
  <2> QED BY <2>1, <2>2
<1>22. CASE FreeMessageInternal
  <2>1. /\ batch # <<>> /\ batch' = Tail(batch)
        /\ pc' = [pc EXCEPT ![Consumer] = IF Len(batch) = 1 THEN "idle"
                                                           ELSE "free"]
    BY <1>22 DEF FreeMessageInternal, FreeNext, NextOfBatch
  <2>2. batch' = <<>> <=> Len(batch) = 1
    BY <2>1, TailEmpty
  <2> QED BY <2>1, <2>2
<1>23. CASE ShutdownBegin
  BY <1>23 DEF ShutdownBegin
<1>24. CASE ShutdownDrain
  BY <1>24 DEF ShutdownDrain
<1>25. CASE ShutdownReset
  BY <1>25 DEF ShutdownReset
<1>26. CASE ShutdownDelete
  BY <1>26 DEF ShutdownDelete
<1>27. CASE UNCHANGED vars
  BY <1>27 DEF vars
<1>28. CASE FreeNothing
  <2>1. /\ batch # <<>> /\ batch' = Tail(batch)
        /\ pc' = [pc EXCEPT ![Consumer] = IF Len(batch) = 1 THEN "idle"
                                                           ELSE "free"]
    BY <1>28 DEF FreeNothing, NextOfBatch
  <2>2. batch' = <<>> <=> Len(batch) = 1
    BY <2>1, TailEmpty
  <2> QED BY <2>1, <2>2
<1> HIDE QueueAssumption
    DEF TypeOK, lifeVars, flowVars, memVars, prodVars, consVars, Goto,
        Threads, Shutdown, Priorities, ProducerLabels, ConsumerLabels,
        ShutdownLabels, BatchShape
<1> QED
  BY <1>1, <1>2, <1>3, <1>4, <1>5, <1>6, <1>7, <1>8, <1>9, <1>10, <1>11,
     <1>12, <1>13, <1>14, <1>15, <1>16, <1>17, <1>18, <1>19, <1>20, <1>21,
     <1>22, <1>23, <1>24, <1>25, <1>26, <1>27, <1>28
  DEF Next, ProducerStep, ConsumerStep, ShutdownStep, FlowStep, Threads, Stopped

(* What does not touch a list leaves what is in it.                        *)
LEMMA SameLists ==
    /\ UNCHANGED queue => Queued' = Queued /\ \A i \in Priorities :
                              InQueue(i)' = InQueue(i)
    /\ UNCHANGED batch => InBatch' = InBatch
    /\ UNCHANGED msg => Held' = Held
BY DEF Queued, InQueue, InBatch, Held

(* The lists hold messages.                                                *)
LEMMA ListsHold ==
    ASSUME TypeOK
    PROVE  /\ Queued \subseteq Messages /\ InBatch \subseteq Messages
           /\ Held \subseteq Messages
           /\ \A i \in Priorities : InQueue(i) \subseteq Queued
BY EmptyMembers DEF TypeOK, Queued, InQueue, InBatch, Held

(* A list has one message more after MqpEnqueueToPriorityQueue, and the    *)
(* producer none.                                                          *)
LEMMA Inserted ==
    ASSUME TypeOK, PriorityShape, OneOwner, NEW p \in Producers,
           EnqueueToPriorityQueue(p)
    PROVE  /\ msg[p] \in Held /\ msg[p] \in Messages /\ msg[p] # NULL
           /\ \A i \in Priorities :
                 InQueue(i)' = IF i = want[p] THEN InQueue(i) \cup {msg[p]}
                                              ELSE InQueue(i)
           /\ Queued' = Queued \cup {msg[p]}
           /\ Held' = Held \ {msg[p]}
           /\ \A i \in Priorities : NoRepeat(queue'[i])
<1> DEFINE m == msg[p]
           w == want[p]
<1>1. m \in Messages /\ m # NULL /\ m \in Held /\ w \in Priorities
  BY QueueAssumption DEF EnqueueToPriorityQueue, PriorityShape, TypeOK, Held
<1>2. /\ queue' = [queue EXCEPT ![w] = Append(queue[w], m)]
      /\ msg' = [msg EXCEPT ![p] = NULL]
      /\ queue \in [Priorities -> Seq(Messages)]
      /\ msg \in [Producers -> Messages \cup {NULL}]
  BY DEF EnqueueToPriorityQueue, TypeOK
<1>3. m \notin Queued
  BY <1>1 DEF OneOwner
<1> HIDE DEF m, w
<1>4. queue[w] \in Seq(Messages)
  BY <1>1, <1>2
<1>5. /\ Members(Append(queue[w], m)) = Members(queue[w]) \cup {m}
      /\ NoRepeat(queue[w]) /\ m \notin Members(queue[w])
            => NoRepeat(Append(queue[w], m))
  BY <1>1, <1>4, AppendMembers
<1>6. \A i \in Priorities : queue'[i] = IF i = w THEN Append(queue[w], m)
                                                ELSE queue[i]
  BY <1>1, <1>2
<1>7. \A i \in Priorities : InQueue(i)' = IF i = w THEN InQueue(i) \cup {m}
                                                  ELSE InQueue(i)
  BY <1>5, <1>6 DEF InQueue
<1>8. Queued' = Queued \cup {m}
  BY <1>1, <1>7 DEF Queued
<1>9. Held' = Held \ {m}
  <2>1. \A q \in Producers : q # p => msg[q] # m
    BY <1>1 DEF OneOwner, m
  <2>2. \A q \in Producers : msg'[q] = IF q = p THEN NULL ELSE msg[q]
    BY <1>2
  <2> QED BY <2>1, <2>2, <1>1 DEF Held, m
<1>10. ASSUME NEW i \in Priorities PROVE NoRepeat(queue'[i])
  <2>1. NoRepeat(queue[i]) /\ m \notin Members(queue[i])
    BY <1>3 DEF OneOwner, Queued, InQueue
  <2>2. CASE i = w
    BY <2>1, <2>2, <1>5, <1>6
  <2>3. CASE i # w
    BY <2>1, <2>3, <1>6
  <2> QED BY <2>2, <2>3
<1> QED BY <1>1, <1>7, <1>8, <1>9, <1>10 DEF m, w

(* The head of a list goes from the list to the batch.                     *)
LEMMA Taken ==
    ASSUME TypeOK, PriorityShape, OneOwner, ScanTake
    PROVE  LET m == Head(queue[level]) IN
           /\ m \in Queued /\ m \in Messages /\ prio[m] = level
           /\ \A i \in Priorities : InQueue(i)' = InQueue(i) \ {m}
           /\ Queued' = Queued \ {m}
           /\ InBatch' = InBatch \cup {m}
           /\ NoRepeat(batch') /\ \A i \in Priorities : NoRepeat(queue'[i])
           /\ Len(batch') = Len(batch) + 1 /\ batch'[Len(batch')] = m
<1> DEFINE m == Head(queue[level])
<1>1. /\ queue \in [Priorities -> Seq(Messages)] /\ level \in Priorities
      /\ queue[level] # <<>> /\ NoRepeat(queue[level])
      /\ queue' = [queue EXCEPT ![level] = Tail(queue[level])]
      /\ batch' = Append(batch, m) /\ batch \in Seq(Messages \cup {NULL})
  BY DEF ScanTake, TypeOK, OneOwner
<1>2. /\ m \in InQueue(level) /\ m \in Messages
      /\ Members(Tail(queue[level])) = InQueue(level) \ {m}
      /\ NoRepeat(Tail(queue[level]))
  BY <1>1, TailMembers DEF InQueue
<1> HIDE DEF m
<1>3. m \in Queued /\ prio[m] = level
  BY <1>1, <1>2 DEF Queued, PriorityShape
<1>4. \A i \in Priorities : queue'[i] = IF i = level THEN Tail(queue[level])
                                                    ELSE queue[i]
  BY <1>1
<1>5. \A i \in Priorities : i # level => m \notin InQueue(i)
  BY <1>1, <1>2 DEF OneOwner
<1>6. \A i \in Priorities : InQueue(i)' = InQueue(i) \ {m}
  BY <1>2, <1>4, <1>5 DEF InQueue
<1>7. Queued' = Queued \ {m}
  BY <1>6 DEF Queued
<1>8. InBatch' = InBatch \cup {m} /\ NoRepeat(batch')
  <2>1. m # NULL /\ NoRepeat(batch) /\ m \notin InBatch
    BY <1>2, <1>3, QueueAssumption DEF OneOwner
  <2>2. m \notin Members(batch)
    BY <2>1 DEF InBatch
  <2>3. Members(batch') = Members(batch) \cup {m} /\ NoRepeat(batch')
    BY <2>1, <2>2, <1>1, <1>2, AppendMembers
  <2> QED BY <2>1, <2>3 DEF InBatch
<1>9. \A i \in Priorities : NoRepeat(queue'[i])
  BY <1>2, <1>4 DEF OneOwner
<1>10. Len(batch') = Len(batch) + 1 /\ batch'[Len(batch')] = m
  BY <1>1, <1>2
<1> QED BY <1>2, <1>3, <1>6, <1>7, <1>8, <1>9, <1>10 DEF m

(* MqFreeMessage takes the first message of the batch.                     *)
LEMMA Freed ==
    ASSUME TypeOK, BatchShape, OneOwner, FreeNext,
           pc[Consumer] \in {"free", "freeing"}, Head(batch) # NULL
    PROVE  /\ Head(batch) \in InBatch /\ Head(batch) \in Messages
           /\ InBatch' = InBatch \ {Head(batch)}
           /\ NoRepeat(batch')
<1>1. batch # <<>> /\ batch \in Seq(Messages \cup {NULL}) /\ NoRepeat(batch)
  BY DEF BatchShape, TypeOK, OneOwner
<1>2. batch' = Tail(batch)
  BY DEF FreeNext, NextOfBatch
<1>3. /\ Head(batch) \in Members(batch) /\ Head(batch) \in Messages
      /\ Members(Tail(batch)) = Members(batch) \ {Head(batch)}
      /\ NoRepeat(Tail(batch))
  BY <1>1, TailMembers
<1> QED BY <1>2, <1>3 DEF InBatch

(* An entry that is NULL is passed over.                                   *)
LEMMA Passed ==
    ASSUME TypeOK, BatchShape, OneOwner, FreeNothing
    PROVE  InBatch' = InBatch /\ NoRepeat(batch')
<1>1. /\ batch # <<>> /\ batch \in Seq(Messages \cup {NULL})
      /\ NoRepeat(batch) /\ Head(batch) = NULL /\ batch' = Tail(batch)
  BY DEF BatchShape, TypeOK, OneOwner, FreeNothing, NextOfBatch
<1>2. /\ Members(Tail(batch)) = Members(batch) \ {Head(batch)}
      /\ NoRepeat(Tail(batch))
  BY <1>1, TailMembers
<1> QED BY <1>1, <1>2 DEF InBatch

(* MqShutdown empties one list.                                            *)
LEMMA Drained ==
    ASSUME TypeOK, OneOwner, ShutdownDrain
    PROVE  /\ \A i \in Priorities :
                 InQueue(i)' = IF i = swept THEN {} ELSE InQueue(i)
           /\ Queued' = Queued \ InQueue(swept)
           /\ \A i \in Priorities : NoRepeat(queue'[i])
<1>1. /\ queue \in [Priorities -> Seq(Messages)] /\ swept \in Priorities
      /\ queue' = [queue EXCEPT ![swept] = <<>>]
  BY DEF ShutdownDrain, TypeOK
<1>2. \A i \in Priorities : queue'[i] = IF i = swept THEN <<>> ELSE queue[i]
  BY <1>1
<1>3. \A i \in Priorities :
         InQueue(i)' = IF i = swept THEN {} ELSE InQueue(i)
  BY <1>2, EmptyMembers DEF InQueue
<1>4. \A i \in Priorities : i # swept => InQueue(i) \cap InQueue(swept) = {}
  BY <1>1 DEF OneOwner
<1>5. Queued' = Queued \ InQueue(swept)
  BY <1>1, <1>3, <1>4 DEF Queued
<1>6. \A i \in Priorities : NoRepeat(queue'[i])
  BY <1>2, EmptyMembers DEF OneOwner
<1> QED BY <1>3, <1>5, <1>6

(* A free structure that is taken is the producer's.                       *)
LEMMA Allocated ==
    ASSUME TypeOK, PriorityShape, OneOwner, NEW p \in Producers,
           AllocateMessage(p)
    PROVE  \E m \in Messages \ allocated :
              /\ allocated' = allocated \cup {m}
              /\ prio' = [prio EXCEPT ![m] = want[p]]
              /\ msg' = [msg EXCEPT ![p] = m]
              /\ msg[p] = NULL
              /\ Held' = Held \cup {m}
<1>1. PICK m \in Messages \ allocated :
            /\ allocated' = allocated \cup {m}
            /\ prio' = [prio EXCEPT ![m] = want[p]]
            /\ msg' = [msg EXCEPT ![p] = m]
  BY DEF AllocateMessage
<1>2. msg[p] = NULL
  BY DEF AllocateMessage, PriorityShape
<1>3. \A q \in Producers : msg'[q] = IF q = p THEN m ELSE msg[q]
  BY <1>1 DEF TypeOK
<1>4. m # NULL
  BY QueueAssumption
<1>5. Held' = Held \cup {m}
  BY <1>2, <1>3, <1>4 DEF Held
<1> QED BY <1>1, <1>2, <1>5

(* Every message has one owner, as messages move.                          *)
LEMMA OwnerStep ==
    ASSUME TypeOK, BatchShape, PriorityShape, OneOwner, [Next]_vars
    PROVE  OneOwner'
<1>0. UNCHANGED <<queue, batch, msg, allocated, leaked>> => OneOwner'
  BY SameLists DEF OneOwner
<1> USE DEF memVars, prodVars, consVars
<1>1. ASSUME NEW p \in Producers, EnqueueMessage(p) PROVE OneOwner'
  BY <1>1, <1>0 DEF EnqueueMessage
<1>2. ASSUME NEW p \in Producers, AcquireRundown(p) PROVE OneOwner'
  BY <1>2, <1>0 DEF AcquireRundown
<1>3. ASSUME NEW p \in Producers, Reserve(p) PROVE OneOwner'
  BY <1>3, <1>0 DEF Reserve
<1>4. ASSUME NEW p \in Producers, QueueFull(p) PROVE OneOwner'
  BY <1>4, <1>0 DEF QueueFull, Leave
<1>5. ASSUME NEW p \in Producers, AllocateMessage(p) PROVE OneOwner'
  <2>1. PICK m \in Messages \ allocated :
              /\ allocated' = allocated \cup {m} /\ msg[p] = NULL
              /\ msg' = [msg EXCEPT ![p] = m] /\ Held' = Held \cup {m}
    BY <1>5, Allocated
  <2>2. UNCHANGED <<queue, batch, leaked>>
    BY <1>5 DEF AllocateMessage, consVars
  <2>3. /\ Queued' = Queued /\ InBatch' = InBatch
        /\ \A i \in Priorities : InQueue(i)' = InQueue(i)
    BY <2>2, SameLists
  <2>4. \A q \in Producers : msg'[q] = IF q = p THEN m ELSE msg[q]
    BY <2>1 DEF TypeOK
  <2>5. \A q \in Producers : msg[q] # NULL => msg[q] \in allocated
    BY DEF OneOwner, Held
  <2>6. \A q, r \in Producers : msg'[q] = msg'[r] /\ msg'[q] # NULL => q = r
    BY <2>1, <2>4, <2>5 DEF OneOwner
  <2> QED BY <2>1, <2>2, <2>3, <2>6 DEF OneOwner
<1>6. ASSUME NEW p \in Producers, AllocateFailed(p) PROVE OneOwner'
  BY <1>6, <1>0 DEF AllocateFailed, Leave
<1>7. ASSUME NEW p \in Producers, EnqueueToPriorityQueue(p) PROVE OneOwner'
  <2> DEFINE m == msg[p]
  <2>1. /\ m \in Held /\ m # NULL
        /\ \A i \in Priorities :
              InQueue(i)' = IF i = want[p] THEN InQueue(i) \cup {m}
                                           ELSE InQueue(i)
        /\ Queued' = Queued \cup {m} /\ Held' = Held \ {m}
        /\ \A i \in Priorities : NoRepeat(queue'[i])
    BY <1>7, Inserted
  <2>2. /\ UNCHANGED <<batch, leaked, allocated>>
        /\ msg' = [msg EXCEPT ![p] = NULL]
    BY <1>7 DEF EnqueueToPriorityQueue, consVars, memVars
  <2>3. InBatch' = InBatch
    BY <2>2, SameLists
  <2>4. \A q \in Producers : msg'[q] = IF q = p THEN NULL ELSE msg[q]
    BY <2>2 DEF TypeOK
  <2>5. \A q, r \in Producers : msg'[q] = msg'[r] /\ msg'[q] # NULL => q = r
    BY <2>4 DEF OneOwner
  <2>6. m \notin Queued /\ m \notin InBatch /\ m \notin leaked
    BY <2>1 DEF OneOwner
  <2> HIDE DEF m
  <2>7. \A i \in Priorities : InQueue(i) \subseteq Queued
    BY ListsHold
  <2>8. \A i, j \in Priorities : i # j => InQueue(i)' \cap InQueue(j)' = {}
    BY <2>1, <2>6, <2>7 DEF OneOwner
  <2> QED BY <2>1, <2>2, <2>3, <2>5, <2>6, <2>8 DEF OneOwner
<1>8. ASSUME NEW p \in Producers, SetAvailable(p) PROVE OneOwner'
  BY <1>8, <1>0 DEF SetAvailable, Leave
<1>9. ASSUME NEW a \in Threads, ReadDepth(a) PROVE OneOwner'
  BY <1>9, <1>0 DEF ReadDepth
<1>10. ASSUME NEW a \in Threads, UpdateFlowControl(a) PROVE OneOwner'
  BY <1>10, <1>0 DEF UpdateFlowControl, AfterFlow
<1>11. ASSUME NEW a \in Threads, SignalFlow(a) PROVE OneOwner'
  BY <1>11, <1>0 DEF SignalFlow, AfterFlow
<1>12. CASE DequeueBatch
  BY <1>12, <1>0 DEF DequeueBatch, BeginScan
<1>13. CASE ScanTake
  <2> DEFINE m == Head(queue[level])
  <2>1. /\ m \in Queued /\ Queued' = Queued \ {m} /\ InBatch' = InBatch \cup {m}
        /\ \A i \in Priorities : InQueue(i)' = InQueue(i) \ {m}
        /\ NoRepeat(batch') /\ \A i \in Priorities : NoRepeat(queue'[i])
    BY <1>13, Taken, SMTT(30)
  <2>2. UNCHANGED <<msg, leaked, allocated>>
    BY <1>13 DEF ScanTake, prodVars, memVars
  <2>3. Held' = Held
    BY <2>2, SameLists
  <2> HIDE DEF m
  <2> QED BY <2>1, <2>2, <2>3 DEF OneOwner
<1>14. CASE ScanNext
  BY <1>14, <1>0 DEF ScanNext
<1>15. CASE ScanEmpty
  BY <1>15, <1>0 DEF ScanEmpty
<1>16. CASE CountTaken
  BY <1>16, <1>0 DEF CountTaken, BeginScan
<1>17. CASE ContinueBatch
  BY <1>17, <1>0 DEF ContinueBatch, BeginScan
<1>18. CASE AwaitSignalled
  BY <1>18, <1>0 DEF AwaitSignalled, BeginScan
<1>19. CASE AwaitTimeout
  <2>1. batch = <<>> /\ batch' = <<NULL>>
    BY <1>19 DEF AwaitTimeout, BatchShape
  <2>2. Members(batch') = {NULL} /\ NoRepeat(batch')
    BY <2>1 DEF Members, NoRepeat
  <2>3. InBatch' = InBatch
    BY <2>1, <2>2, EmptyMembers DEF InBatch
  <2>4. UNCHANGED <<msg, queue, leaked, allocated>>
    BY <1>19 DEF AwaitTimeout, BeginScan, prodVars, memVars
  <2>5. /\ Held' = Held /\ Queued' = Queued
        /\ \A i \in Priorities : InQueue(i)' = InQueue(i)
    BY <2>4, SameLists
  <2> QED BY <2>2, <2>3, <2>4, <2>5 DEF OneOwner
<1>20. CASE FreeMessage
  BY <1>20, <1>0 DEF FreeMessage
<1>21. CASE FreeMessageLate
  <2> DEFINE m == Head(batch)
  <2>1. m \in InBatch /\ InBatch' = InBatch \ {m} /\ NoRepeat(batch')
    BY <1>21, Freed DEF FreeMessageLate, BatchShape
  <2>2. /\ UNCHANGED <<msg, queue>>
        /\ \/ allocated' = allocated \ {m} /\ leaked' = leaked
           \/ leaked' = leaked \cup {m} /\ allocated' = allocated
    BY <1>21 DEF FreeMessageLate, prodVars
  <2>3. /\ Held' = Held /\ Queued' = Queued
        /\ \A i \in Priorities : InQueue(i)' = InQueue(i)
    BY <2>2, SameLists
  <2> HIDE DEF m
  <2> QED BY <2>1, <2>2, <2>3 DEF OneOwner
<1>22. CASE FreeMessageInternal
  <2> DEFINE m == Head(batch)
  <2>1. m \in InBatch /\ InBatch' = InBatch \ {m} /\ NoRepeat(batch')
    BY <1>22, Freed DEF FreeMessageInternal, BatchShape
  <2>2. UNCHANGED <<msg, queue, leaked>> /\ allocated' = allocated \ {m}
    BY <1>22 DEF FreeMessageInternal, prodVars
  <2>3. /\ Held' = Held /\ Queued' = Queued
        /\ \A i \in Priorities : InQueue(i)' = InQueue(i)
    BY <2>2, SameLists
  <2> HIDE DEF m
  <2> QED BY <2>1, <2>2, <2>3 DEF OneOwner
<1>23. CASE ShutdownBegin
  BY <1>23, <1>0 DEF ShutdownBegin
<1>24. CASE ShutdownDrain
  <2>1. /\ \A i \in Priorities :
              InQueue(i)' = IF i = swept THEN {} ELSE InQueue(i)
        /\ Queued' = Queued \ InQueue(swept)
        /\ \A i \in Priorities : NoRepeat(queue'[i])
    BY <1>24, Drained
  <2>2. /\ UNCHANGED <<msg, batch, leaked>>
        /\ allocated' = allocated \ InQueue(swept) /\ swept \in Priorities
    BY <1>24 DEF ShutdownDrain, prodVars
  <2>3. Held' = Held /\ InBatch' = InBatch
    BY <2>2, SameLists
  <2>4. InQueue(swept) \subseteq Queued
    BY <2>2, ListsHold
  <2> QED BY <2>1, <2>2, <2>3, <2>4 DEF OneOwner
<1>25. CASE ShutdownReset
  BY <1>25, <1>0 DEF ShutdownReset
<1>26. CASE ShutdownDelete
  BY <1>26, <1>0 DEF ShutdownDelete
<1>27. CASE UNCHANGED vars
  BY <1>27, <1>0 DEF vars
<1>28. CASE FreeNothing
  <2>1. InBatch' = InBatch /\ NoRepeat(batch')
    BY <1>28, Passed
  <2>2. UNCHANGED <<msg, queue, leaked, allocated>>
    BY <1>28 DEF FreeNothing, prodVars, memVars
  <2>3. /\ Held' = Held /\ Queued' = Queued
        /\ \A i \in Priorities : InQueue(i)' = InQueue(i)
    BY <2>2, SameLists
  <2> QED BY <2>1, <2>2, <2>3 DEF OneOwner
<1> QED
  BY <1>1, <1>2, <1>3, <1>4, <1>5, <1>6, <1>7, <1>8, <1>9, <1>10, <1>11,
     <1>12, <1>13, <1>14, <1>15, <1>16, <1>17, <1>18, <1>19, <1>20, <1>21,
     <1>22, <1>23, <1>24, <1>25, <1>26, <1>27, <1>28
  DEF Next, ProducerStep, ConsumerStep, ShutdownStep, FlowStep, Threads, Stopped

(* Steps that move a thread, but no message and no priority.               *)
LEMMA SamePriorities ==
    ASSUME PriorityShape, UNCHANGED <<queue, msg, prio>>,
           \A p \in Producers : pc'[p] = "insert" <=> pc[p] = "insert",
           \A p \in Producers : pc[p] = "insert" => want'[p] = want[p]
    PROVE  PriorityShape'
BY SameLists DEF PriorityShape

(* A message has the priority of its list, as messages move.               *)
LEMMA PriorityStep ==
    ASSUME TypeOK, BatchShape, PriorityShape, OneOwner, [Next]_vars
    PROVE  PriorityShape'
<1> USE QueueAssumption
    DEF TypeOK, lifeVars, flowVars, memVars, prodVars, consVars, Goto,
        Threads, Shutdown, Priorities, ProducerLabels, ConsumerLabels,
        ShutdownLabels
<1>1. ASSUME NEW p \in Producers, EnqueueMessage(p) PROVE PriorityShape'
  <2>1. UNCHANGED <<queue, msg, prio>>
    BY <1>1 DEF EnqueueMessage
  <2>2. \A q \in Producers : pc'[q] = "insert" <=> pc[q] = "insert"
    BY <1>1 DEF EnqueueMessage
  <2>3. \A q \in Producers : pc[q] = "insert" => want'[q] = want[q]
    BY <1>1 DEF EnqueueMessage
  <2> QED BY <2>1, <2>2, <2>3, SamePriorities
<1>2. ASSUME NEW p \in Producers, AcquireRundown(p) PROVE PriorityShape'
  <2>1. UNCHANGED <<queue, msg, prio>>
    BY <1>2 DEF AcquireRundown
  <2>2. \A q \in Producers : pc'[q] = "insert" <=> pc[q] = "insert"
    BY <1>2 DEF AcquireRundown
  <2>3. \A q \in Producers : pc[q] = "insert" => want'[q] = want[q]
    BY <1>2 DEF AcquireRundown
  <2> QED BY <2>1, <2>2, <2>3, SamePriorities
<1>3. ASSUME NEW p \in Producers, Reserve(p) PROVE PriorityShape'
  <2>1. UNCHANGED <<queue, msg, prio>>
    BY <1>3 DEF Reserve
  <2>2. \A q \in Producers : pc'[q] = "insert" <=> pc[q] = "insert"
    BY <1>3 DEF Reserve
  <2>3. \A q \in Producers : pc[q] = "insert" => want'[q] = want[q]
    BY <1>3 DEF Reserve
  <2> QED BY <2>1, <2>2, <2>3, SamePriorities
<1>4. ASSUME NEW p \in Producers, QueueFull(p) PROVE PriorityShape'
  <2>1. UNCHANGED <<queue, msg, prio>>
    BY <1>4 DEF QueueFull, Leave
  <2>2. \A q \in Producers : pc'[q] = "insert" <=> pc[q] = "insert"
    BY <1>4 DEF QueueFull, Leave
  <2>3. \A q \in Producers : pc[q] = "insert" => want'[q] = want[q]
    BY <1>4 DEF QueueFull, Leave
  <2> QED BY <2>1, <2>2, <2>3, SamePriorities
<1>5. ASSUME NEW p \in Producers, AllocateMessage(p) PROVE PriorityShape'
  <2>1. PICK m \in Messages \ allocated :
              /\ prio' = [prio EXCEPT ![m] = want[p]]
              /\ msg' = [msg EXCEPT ![p] = m]
    BY <1>5, Allocated
  <2>2. /\ pc' = [pc EXCEPT ![p] = "insert"] /\ UNCHANGED <<queue, want>>
    BY <1>5 DEF AllocateMessage
  <2>3. \A q \in Producers : /\ msg'[q] = IF q = p THEN m ELSE msg[q]
                             /\ pc'[q] = IF q = p THEN "insert" ELSE pc[q]
    BY <2>1, <2>2
  <2>4. \A n \in Messages : prio'[n] = IF n = m THEN want[p] ELSE prio[n]
    BY <2>1
  <2>5. \A q \in Producers : msg[q] # NULL => msg[q] \in allocated
    BY DEF OneOwner, Held
  <2>6. \A i \in Priorities : InQueue(i)' = InQueue(i)
    BY <2>2, SameLists
  <2>7. \A i \in Priorities : InQueue(i) \subseteq allocated \cap Messages
    BY ListsHold DEF OneOwner
  <2>8. m # NULL /\ m \in Messages /\ m \notin allocated
    BY QueueAssumption
  <2>9. \A q \in Producers : msg'[q] # NULL <=> pc'[q] = "insert"
    BY <2>3, <2>8 DEF PriorityShape
  <2>10. \A q \in Producers : msg'[q] # NULL => prio'[msg'[q]] = want'[q]
    <3> SUFFICES ASSUME NEW q \in Producers, msg'[q] # NULL
                 PROVE  prio'[msg'[q]] = want[q]
      BY <2>2
    <3>1. CASE q = p
      BY <3>1, <2>3, <2>4, <2>8
    <3>2. CASE q # p
      <4>1. /\ msg'[q] = msg[q] /\ msg[q] \in Messages /\ msg[q] # m
            /\ prio[msg[q]] = want[q]
        BY <3>2, <2>3, <2>5, <2>8 DEF PriorityShape
      <4> QED BY <4>1, <2>4
    <3> QED BY <3>1, <3>2
  <2>11. \A i \in Priorities : \A n \in InQueue(i)' : prio'[n] = i
    BY <2>4, <2>6, <2>7, <2>8 DEF PriorityShape
  <2> QED BY <2>9, <2>10, <2>11 DEF PriorityShape
<1>6. ASSUME NEW p \in Producers, AllocateFailed(p) PROVE PriorityShape'
  <2>1. UNCHANGED <<queue, msg, prio>>
    BY <1>6 DEF AllocateFailed, Leave
  <2>2. \A q \in Producers : pc'[q] = "insert" <=> pc[q] = "insert"
    BY <1>6 DEF AllocateFailed, Leave
  <2>3. \A q \in Producers : pc[q] = "insert" => want'[q] = want[q]
    BY <1>6 DEF AllocateFailed, Leave
  <2> QED BY <2>1, <2>2, <2>3, SamePriorities
<1>7. ASSUME NEW p \in Producers, EnqueueToPriorityQueue(p)
      PROVE  PriorityShape'
  <2>1. /\ msg[p] \in Messages
        /\ \A i \in Priorities :
              InQueue(i)' = IF i = want[p] THEN InQueue(i) \cup {msg[p]}
                                           ELSE InQueue(i)
    BY <1>7, Inserted
  <2>2. /\ UNCHANGED <<want, prio>> /\ msg' = [msg EXCEPT ![p] = NULL]
        /\ pc' = [pc EXCEPT ![p] = "read"] /\ pc[p] = "insert"
    BY <1>7 DEF EnqueueToPriorityQueue
  <2>3. \A q \in Producers : /\ msg'[q] = IF q = p THEN NULL ELSE msg[q]
                             /\ pc'[q] = IF q = p THEN "read" ELSE pc[q]
    BY <2>2
  <2>4. prio[msg[p]] = want[p]
    BY <2>2 DEF PriorityShape
  <2>5. \A i \in Priorities : \A n \in InQueue(i)' : prio'[n] = i
    <3> SUFFICES ASSUME NEW i \in Priorities, NEW n \in InQueue(i)'
                 PROVE  prio[n] = i
      BY <2>2
    <3>1. n \in InQueue(i) \/ (i = want[p] /\ n = msg[p])
      BY <2>1
    <3> QED BY <3>1, <2>4 DEF PriorityShape
  <2>6. \A q \in Producers : msg'[q] # NULL <=> pc'[q] = "insert"
    BY <2>3 DEF PriorityShape
  <2>7. \A q \in Producers : msg'[q] # NULL => prio'[msg'[q]] = want'[q]
    BY <2>2, <2>3 DEF PriorityShape
  <2> QED BY <2>5, <2>6, <2>7 DEF PriorityShape
<1>8. ASSUME NEW p \in Producers, SetAvailable(p) PROVE PriorityShape'
  <2>1. UNCHANGED <<queue, msg, prio>>
    BY <1>8 DEF SetAvailable, Leave
  <2>2. \A q \in Producers : pc'[q] = "insert" <=> pc[q] = "insert"
    BY <1>8 DEF SetAvailable, Leave
  <2>3. \A q \in Producers : pc[q] = "insert" => want'[q] = want[q]
    BY <1>8 DEF SetAvailable, Leave
  <2> QED BY <2>1, <2>2, <2>3, SamePriorities
<1>9. ASSUME NEW a \in Threads, ReadDepth(a) PROVE PriorityShape'
  <2>1. UNCHANGED <<queue, msg, prio>>
    BY <1>9 DEF ReadDepth
  <2>2. \A q \in Producers : pc'[q] = "insert" <=> pc[q] = "insert"
    BY <1>9 DEF ReadDepth
  <2>3. \A q \in Producers : pc[q] = "insert" => want'[q] = want[q]
    BY <1>9 DEF ReadDepth
  <2> QED BY <2>1, <2>2, <2>3, SamePriorities
<1>10. ASSUME NEW a \in Threads, UpdateFlowControl(a) PROVE PriorityShape'
  <2>1. UNCHANGED <<queue, msg, prio>>
    BY <1>10 DEF UpdateFlowControl, AfterFlow
  <2>2. \A q \in Producers : pc'[q] = "insert" <=> pc[q] = "insert"
    BY <1>10 DEF UpdateFlowControl, AfterFlow
  <2>3. \A q \in Producers : pc[q] = "insert" => want'[q] = want[q]
    BY <1>10 DEF UpdateFlowControl, AfterFlow
  <2> QED BY <2>1, <2>2, <2>3, SamePriorities
<1>11. ASSUME NEW a \in Threads, SignalFlow(a) PROVE PriorityShape'
  <2>1. UNCHANGED <<queue, msg, prio>>
    BY <1>11 DEF SignalFlow, AfterFlow
  <2>2. \A q \in Producers : pc'[q] = "insert" <=> pc[q] = "insert"
    BY <1>11 DEF SignalFlow, AfterFlow
  <2>3. \A q \in Producers : pc[q] = "insert" => want'[q] = want[q]
    BY <1>11 DEF SignalFlow, AfterFlow
  <2> QED BY <2>1, <2>2, <2>3, SamePriorities
<1>12. CASE DequeueBatch
  <2>1. UNCHANGED <<queue, msg, prio>>
    BY <1>12 DEF DequeueBatch, BeginScan
  <2>2. \A q \in Producers : pc'[q] = "insert" <=> pc[q] = "insert"
    BY <1>12 DEF DequeueBatch, BeginScan
  <2>3. \A q \in Producers : pc[q] = "insert" => want'[q] = want[q]
    BY <1>12 DEF DequeueBatch, BeginScan
  <2> QED BY <2>1, <2>2, <2>3, SamePriorities
<1>13. CASE ScanTake
  <2>1. \A i \in Priorities : InQueue(i)' \subseteq InQueue(i)
    BY <1>13, Taken, SMTT(30)
  <2>2. UNCHANGED <<msg, want, prio>>
    BY <1>13 DEF ScanTake
  <2>3. \A q \in Producers : pc'[q] = pc[q]
    BY <1>13 DEF ScanTake
  <2> QED BY <2>1, <2>2, <2>3 DEF PriorityShape
<1>14. CASE ScanNext
  <2>1. UNCHANGED <<queue, msg, prio>>
    BY <1>14 DEF ScanNext
  <2>2. \A q \in Producers : pc'[q] = "insert" <=> pc[q] = "insert"
    BY <1>14 DEF ScanNext
  <2>3. \A q \in Producers : pc[q] = "insert" => want'[q] = want[q]
    BY <1>14 DEF ScanNext
  <2> QED BY <2>1, <2>2, <2>3, SamePriorities
<1>15. CASE ScanEmpty
  <2>1. UNCHANGED <<queue, msg, prio>>
    BY <1>15 DEF ScanEmpty
  <2>2. \A q \in Producers : pc'[q] = "insert" <=> pc[q] = "insert"
    BY <1>15 DEF ScanEmpty
  <2>3. \A q \in Producers : pc[q] = "insert" => want'[q] = want[q]
    BY <1>15 DEF ScanEmpty
  <2> QED BY <2>1, <2>2, <2>3, SamePriorities
<1>16. CASE CountTaken
  <2>1. UNCHANGED <<queue, msg, prio>>
    BY <1>16 DEF CountTaken, BeginScan
  <2>2. \A q \in Producers : pc'[q] = "insert" <=> pc[q] = "insert"
    BY <1>16 DEF CountTaken, BeginScan
  <2>3. \A q \in Producers : pc[q] = "insert" => want'[q] = want[q]
    BY <1>16 DEF CountTaken, BeginScan
  <2> QED BY <2>1, <2>2, <2>3, SamePriorities
<1>17. CASE ContinueBatch
  <2>1. UNCHANGED <<queue, msg, prio>>
    BY <1>17 DEF ContinueBatch, BeginScan
  <2>2. \A q \in Producers : pc'[q] = "insert" <=> pc[q] = "insert"
    BY <1>17 DEF ContinueBatch, BeginScan
  <2>3. \A q \in Producers : pc[q] = "insert" => want'[q] = want[q]
    BY <1>17 DEF ContinueBatch, BeginScan
  <2> QED BY <2>1, <2>2, <2>3, SamePriorities
<1>18. CASE AwaitSignalled
  <2>1. UNCHANGED <<queue, msg, prio>>
    BY <1>18 DEF AwaitSignalled, BeginScan
  <2>2. \A q \in Producers : pc'[q] = "insert" <=> pc[q] = "insert"
    BY <1>18 DEF AwaitSignalled, BeginScan
  <2>3. \A q \in Producers : pc[q] = "insert" => want'[q] = want[q]
    BY <1>18 DEF AwaitSignalled, BeginScan
  <2> QED BY <2>1, <2>2, <2>3, SamePriorities
<1>19. CASE AwaitTimeout
  <2>1. UNCHANGED <<queue, msg, prio>>
    BY <1>19 DEF AwaitTimeout, BeginScan
  <2>2. \A q \in Producers : pc'[q] = "insert" <=> pc[q] = "insert"
    BY <1>19 DEF AwaitTimeout, BeginScan
  <2>3. \A q \in Producers : pc[q] = "insert" => want'[q] = want[q]
    BY <1>19 DEF AwaitTimeout, BeginScan
  <2> QED BY <2>1, <2>2, <2>3, SamePriorities
<1>20. CASE FreeMessage
  <2>1. UNCHANGED <<queue, msg, prio>>
    BY <1>20 DEF FreeMessage
  <2>2. \A q \in Producers : pc'[q] = "insert" <=> pc[q] = "insert"
    BY <1>20 DEF FreeMessage
  <2>3. \A q \in Producers : pc[q] = "insert" => want'[q] = want[q]
    BY <1>20 DEF FreeMessage
  <2> QED BY <2>1, <2>2, <2>3, SamePriorities
<1>21. CASE FreeMessageLate
  <2>1. /\ Head(batch) \in InBatch /\ Head(batch) \in Messages
    BY <1>21, Freed DEF FreeMessageLate, BatchShape
  <2>2. /\ UNCHANGED <<msg, want, queue>>
        /\ prio' = [prio EXCEPT ![Head(batch)] = 0]
    BY <1>21 DEF FreeMessageLate, FreeNext, NextOfBatch
  <2>3. \A q \in Producers : pc'[q] = pc[q]
    BY <1>21 DEF FreeMessageLate, FreeNext, NextOfBatch
  <2>4. \A i \in Priorities : InQueue(i)' = InQueue(i)
    BY <2>2, SameLists
  <2>5. \A n \in Messages : n \notin InBatch => prio'[n] = prio[n]
    BY <2>1, <2>2
  <2>6. \A i \in Priorities : InQueue(i) \subseteq Messages \ InBatch
    BY ListsHold DEF OneOwner
  <2>7. \A q \in Producers : msg[q] # NULL => msg[q] \in Messages \ InBatch
    BY ListsHold DEF OneOwner, Held
  <2> QED BY <2>2, <2>3, <2>4, <2>5, <2>6, <2>7, SMTT(30) DEF PriorityShape
<1>22. CASE FreeMessageInternal
  <2>1. /\ Head(batch) \in InBatch /\ Head(batch) \in Messages
    BY <1>22, Freed DEF FreeMessageInternal, BatchShape
  <2>2. /\ UNCHANGED <<msg, want, queue>>
        /\ prio' = [prio EXCEPT ![Head(batch)] = 0]
    BY <1>22 DEF FreeMessageInternal, FreeNext, NextOfBatch
  <2>3. \A q \in Producers : pc'[q] = pc[q]
    BY <1>22 DEF FreeMessageInternal, FreeNext, NextOfBatch
  <2>4. \A i \in Priorities : InQueue(i)' = InQueue(i)
    BY <2>2, SameLists
  <2>5. \A n \in Messages : n \notin InBatch => prio'[n] = prio[n]
    BY <2>1, <2>2
  <2>6. \A i \in Priorities : InQueue(i) \subseteq Messages \ InBatch
    BY ListsHold DEF OneOwner
  <2>7. \A q \in Producers : msg[q] # NULL => msg[q] \in Messages \ InBatch
    BY ListsHold DEF OneOwner, Held
  <2> QED BY <2>2, <2>3, <2>4, <2>5, <2>6, <2>7, SMTT(30) DEF PriorityShape
<1>23. CASE ShutdownBegin
  <2>1. UNCHANGED <<queue, msg, prio>>
    BY <1>23 DEF ShutdownBegin
  <2>2. \A q \in Producers : pc'[q] = "insert" <=> pc[q] = "insert"
    BY <1>23 DEF ShutdownBegin
  <2>3. \A q \in Producers : pc[q] = "insert" => want'[q] = want[q]
    BY <1>23 DEF ShutdownBegin
  <2> QED BY <2>1, <2>2, <2>3, SamePriorities
<1>24. CASE ShutdownDrain
  <2>1. /\ \A i \in Priorities :
              InQueue(i)' = IF i = swept THEN {} ELSE InQueue(i)
    BY <1>24, Drained
  <2>2. UNCHANGED <<msg, want, pc>> /\ swept \in Priorities
    BY <1>24 DEF ShutdownDrain
  <2>3. \A n \in Messages : n \notin InQueue(swept) => prio'[n] = prio[n]
    BY <1>24 DEF ShutdownDrain
  <2>4. \A i \in Priorities : InQueue(i) \subseteq Messages
    BY ListsHold
  <2>5. \A q \in Producers : msg[q] # NULL => msg[q] \in Messages \ Queued
    BY ListsHold DEF OneOwner, Held
  <2>6. \A i \in Priorities : i # swept => InQueue(i) \cap InQueue(swept) = {}
    BY <2>2 DEF OneOwner
  <2>7. InQueue(swept) \subseteq Queued
    BY <2>2, ListsHold
  <2>8. \A i \in Priorities : \A n \in InQueue(i)' : prio'[n] = i
    <3> SUFFICES ASSUME NEW i \in Priorities, NEW n \in InQueue(i)'
                 PROVE  prio'[n] = i
      OBVIOUS
    <3>1. n \in InQueue(i) /\ i # swept
      BY <2>1
    <3>2. n \in Messages /\ n \notin InQueue(swept) /\ prio[n] = i
      BY <3>1, <2>4, <2>6 DEF PriorityShape
    <3> QED BY <3>2, <2>3
  <2> QED BY <2>2, <2>3, <2>5, <2>7, <2>8 DEF PriorityShape
<1>25. CASE ShutdownReset
  <2>1. UNCHANGED <<queue, msg, prio>>
    BY <1>25 DEF ShutdownReset
  <2>2. \A q \in Producers : pc'[q] = "insert" <=> pc[q] = "insert"
    BY <1>25 DEF ShutdownReset
  <2>3. \A q \in Producers : pc[q] = "insert" => want'[q] = want[q]
    BY <1>25 DEF ShutdownReset
  <2> QED BY <2>1, <2>2, <2>3, SamePriorities
<1>26. CASE ShutdownDelete
  <2>1. UNCHANGED <<queue, msg, prio>>
    BY <1>26 DEF ShutdownDelete
  <2>2. \A q \in Producers : pc'[q] = "insert" <=> pc[q] = "insert"
    BY <1>26 DEF ShutdownDelete
  <2>3. \A q \in Producers : pc[q] = "insert" => want'[q] = want[q]
    BY <1>26 DEF ShutdownDelete
  <2> QED BY <2>1, <2>2, <2>3, SamePriorities
<1>27. CASE UNCHANGED vars
  BY <1>27, SamePriorities DEF vars
<1>28. CASE FreeNothing
  <2>1. UNCHANGED <<queue, msg, prio>>
    BY <1>28 DEF FreeNothing
  <2>2. \A q \in Producers : pc'[q] = "insert" <=> pc[q] = "insert"
    BY <1>28 DEF FreeNothing, NextOfBatch
  <2>3. \A q \in Producers : pc[q] = "insert" => want'[q] = want[q]
    BY <1>28 DEF FreeNothing
  <2> QED BY <2>1, <2>2, <2>3, SamePriorities
<1> HIDE QueueAssumption
    DEF TypeOK, lifeVars, flowVars, memVars, prodVars, consVars, Goto,
        Threads, Shutdown, Priorities, ProducerLabels, ConsumerLabels,
        ShutdownLabels
<1> QED
  BY <1>1, <1>2, <1>3, <1>4, <1>5, <1>6, <1>7, <1>8, <1>9, <1>10, <1>11,
     <1>12, <1>13, <1>14, <1>15, <1>16, <1>17, <1>18, <1>19, <1>20, <1>21,
     <1>22, <1>23, <1>24, <1>25, <1>26, <1>27, <1>28
  DEF Next, ProducerStep, ConsumerStep, ShutdownStep, FlowStep, Threads, Stopped

(* Steps that leave the scan alone.                                        *)
LEMMA SameOlder ==
    ASSUME OlderShape, NoInversion, UNCHANGED <<older, level, inverted>>,
           Queued \subseteq Queued',
           \A n \in Queued : prio'[n] = prio[n],
           pc'[Consumer] = "scan" <=> pc[Consumer] = "scan"
    PROVE  OlderShape' /\ NoInversion'
BY DEF OlderShape, NoInversion

(* The messages a scan found stay at or below the priority it has come to. *)
LEMMA OlderStep ==
    ASSUME TypeOK, PriorityShape, OneOwner, OlderShape, NoInversion,
           [Next]_vars
    PROVE  OlderShape' /\ NoInversion'
<1> USE QueueAssumption
    DEF TypeOK, lifeVars, flowVars, memVars, prodVars, consVars, Goto,
        Threads, Shutdown, Priorities, ProducerLabels, ConsumerLabels,
        ShutdownLabels
<1>1. ASSUME NEW p \in Producers, EnqueueMessage(p)
      PROVE  OlderShape' /\ NoInversion'
  <2>1. UNCHANGED <<queue, prio, older, level, inverted>>
    BY <1>1 DEF EnqueueMessage
  <2>2. pc'[Consumer] = "scan" <=> pc[Consumer] = "scan"
    BY <1>1 DEF EnqueueMessage
  <2> QED BY <2>1, <2>2, SameOlder, SameLists
<1>2. ASSUME NEW p \in Producers, AcquireRundown(p)
      PROVE  OlderShape' /\ NoInversion'
  <2>1. UNCHANGED <<queue, prio, older, level, inverted>>
    BY <1>2 DEF AcquireRundown
  <2>2. pc'[Consumer] = "scan" <=> pc[Consumer] = "scan"
    BY <1>2 DEF AcquireRundown
  <2> QED BY <2>1, <2>2, SameOlder, SameLists
<1>3. ASSUME NEW p \in Producers, Reserve(p) PROVE OlderShape' /\ NoInversion'
  <2>1. UNCHANGED <<queue, prio, older, level, inverted>>
    BY <1>3 DEF Reserve
  <2>2. pc'[Consumer] = "scan" <=> pc[Consumer] = "scan"
    BY <1>3 DEF Reserve
  <2> QED BY <2>1, <2>2, SameOlder, SameLists
<1>4. ASSUME NEW p \in Producers, QueueFull(p)
      PROVE  OlderShape' /\ NoInversion'
  <2>1. UNCHANGED <<queue, prio, older, level, inverted>>
    BY <1>4 DEF QueueFull, Leave
  <2>2. pc'[Consumer] = "scan" <=> pc[Consumer] = "scan"
    BY <1>4 DEF QueueFull, Leave
  <2> QED BY <2>1, <2>2, SameOlder, SameLists
<1>5. ASSUME NEW p \in Producers, AllocateMessage(p)
      PROVE  OlderShape' /\ NoInversion'
  <2>1. PICK m \in Messages \ allocated : prio' = [prio EXCEPT ![m] = want[p]]
    BY <1>5, Allocated
  <2>2. /\ UNCHANGED <<queue, older, level, inverted>>
        /\ pc' = [pc EXCEPT ![p] = "insert"]
    BY <1>5 DEF AllocateMessage
  <2>3. Queued \subseteq Messages \cap allocated
    BY ListsHold DEF OneOwner
  <2>4. \A n \in Queued : prio'[n] = prio[n]
    BY <2>1, <2>3
  <2>5. pc'[Consumer] = pc[Consumer]
    BY <2>2
  <2> QED BY <2>2, <2>4, <2>5, SameOlder, SameLists
<1>6. ASSUME NEW p \in Producers, AllocateFailed(p)
      PROVE  OlderShape' /\ NoInversion'
  <2>1. UNCHANGED <<queue, prio, older, level, inverted>>
    BY <1>6 DEF AllocateFailed, Leave
  <2>2. pc'[Consumer] = "scan" <=> pc[Consumer] = "scan"
    BY <1>6 DEF AllocateFailed, Leave
  <2> QED BY <2>1, <2>2, SameOlder, SameLists
<1>7. ASSUME NEW p \in Producers, EnqueueToPriorityQueue(p)
      PROVE  OlderShape' /\ NoInversion'
  <2>1. Queued \subseteq Queued'
    BY <1>7, Inserted
  <2>2. UNCHANGED <<older, level, inverted, prio>>
    BY <1>7 DEF EnqueueToPriorityQueue
  <2>3. pc'[Consumer] = pc[Consumer]
    BY <1>7 DEF EnqueueToPriorityQueue
  <2> QED BY <2>1, <2>2, <2>3, SameOlder
<1>8. ASSUME NEW p \in Producers, SetAvailable(p)
      PROVE  OlderShape' /\ NoInversion'
  <2>1. UNCHANGED <<queue, prio, older, level, inverted>>
    BY <1>8 DEF SetAvailable, Leave
  <2>2. pc'[Consumer] = "scan" <=> pc[Consumer] = "scan"
    BY <1>8 DEF SetAvailable, Leave
  <2> QED BY <2>1, <2>2, SameOlder, SameLists
<1>9. ASSUME NEW a \in Threads, ReadDepth(a) PROVE OlderShape' /\ NoInversion'
  <2>1. UNCHANGED <<queue, prio, older, level, inverted>>
    BY <1>9 DEF ReadDepth
  <2>2. pc'[Consumer] = "scan" <=> pc[Consumer] = "scan"
    BY <1>9 DEF ReadDepth
  <2> QED BY <2>1, <2>2, SameOlder, SameLists
<1>10. ASSUME NEW a \in Threads, UpdateFlowControl(a)
       PROVE  OlderShape' /\ NoInversion'
  <2>1. UNCHANGED <<queue, prio, older, level, inverted>>
    BY <1>10 DEF UpdateFlowControl, AfterFlow
  <2>2. pc'[Consumer] = "scan" <=> pc[Consumer] = "scan"
    BY <1>10 DEF UpdateFlowControl, AfterFlow
  <2> QED BY <2>1, <2>2, SameOlder, SameLists
<1>11. ASSUME NEW a \in Threads, SignalFlow(a)
       PROVE  OlderShape' /\ NoInversion'
  <2>1. UNCHANGED <<queue, prio, older, level, inverted>>
    BY <1>11 DEF SignalFlow, AfterFlow
  <2>2. pc'[Consumer] = "scan" <=> pc[Consumer] = "scan"
    BY <1>11 DEF SignalFlow, AfterFlow
  <2> QED BY <2>1, <2>2, SameOlder, SameLists
<1>12. CASE DequeueBatch
  <2>1. CASE pc'[Consumer] = "scan"
    <3>1. level' = Top /\ older' = Queued /\ UNCHANGED <<queue, prio, inverted>>
      BY <1>12, <2>1 DEF DequeueBatch, BeginScan
    <3>2. Queued' = Queued
      BY <3>1, SameLists
    <3>3. \A n \in Queued : prio'[n] <= Top
      BY <3>1, ListsHold, SMTT(30)
    <3> QED BY <2>1, <3>1, <3>2, <3>3 DEF OlderShape, NoInversion
  <2>2. CASE pc'[Consumer] # "scan"
    <3>1. UNCHANGED <<queue, prio, inverted, older, level>>
      BY <1>12, <2>2 DEF DequeueBatch, BeginScan
    <3>2. pc[Consumer] # "scan"
      BY <1>12 DEF DequeueBatch
    <3> QED BY <2>2, <3>1, <3>2, SameOlder, SameLists
  <2> QED BY <2>1, <2>2
<1>13. CASE ScanTake
  <2>1. prio[Head(queue[level])] = level
    BY <1>13, Taken, SMTT(30)
  <2>2. \A n \in older : ~(prio[n] > level)
    <3>1. older \subseteq Messages
      OBVIOUS
    <3> QED BY <3>1 DEF OlderShape
  <2>3. inverted' = FALSE
    BY <1>13, <2>1, <2>2, SMTT(30) DEF ScanTake, NoInversion
  <2>4. older' = {}
    BY <1>13 DEF ScanTake
  <2> QED BY <2>3, <2>4 DEF OlderShape, NoInversion
<1>14. CASE ScanNext
  <2>1. /\ level' = level - 1 /\ queue[level] = <<>> /\ level \in Priorities
        /\ UNCHANGED <<queue, prio, older, inverted, pc>>
    BY <1>14 DEF ScanNext
  <2>2. InQueue(level) = {} /\ Queued' = Queued
    BY <2>1, EmptyMembers, SameLists DEF InQueue
  <2>3. ASSUME NEW n \in older PROVE prio[n] <= level - 1
    <3>1. n \in Queued /\ prio[n] <= level /\ n \in Messages
      BY DEF OlderShape
    <3>2. PICK i \in Priorities : n \in InQueue(i)
      BY <3>1 DEF Queued
    <3>3. prio[n] = i /\ i # level
      BY <3>2, <2>2 DEF PriorityShape
    <3> QED BY <3>1, <3>3, <2>1
  <2> QED BY <2>1, <2>2, <2>3 DEF OlderShape, NoInversion
<1>15. CASE ScanEmpty
  <2>1. older' = {} /\ UNCHANGED inverted
    BY <1>15 DEF ScanEmpty
  <2> QED BY <2>1 DEF OlderShape, NoInversion
<1>16. CASE CountTaken
  <2>1. CASE pc'[Consumer] = "scan"
    <3>1. level' = Top /\ older' = Queued /\ UNCHANGED <<queue, prio, inverted>>
      BY <1>16, <2>1 DEF CountTaken, BeginScan
    <3>2. Queued' = Queued
      BY <3>1, SameLists
    <3>3. \A n \in Queued : prio'[n] <= Top
      BY <3>1, ListsHold, SMTT(30)
    <3> QED BY <2>1, <3>1, <3>2, <3>3 DEF OlderShape, NoInversion
  <2>2. CASE pc'[Consumer] # "scan"
    <3>1. UNCHANGED <<queue, prio, inverted, older, level>>
      BY <1>16, <2>2 DEF CountTaken, BeginScan
    <3>2. pc[Consumer] # "scan"
      BY <1>16 DEF CountTaken
    <3> QED BY <2>2, <3>1, <3>2, SameOlder, SameLists
  <2> QED BY <2>1, <2>2
<1>17. CASE ContinueBatch
  <2>1. CASE pc'[Consumer] = "scan"
    <3>1. level' = Top /\ older' = Queued /\ UNCHANGED <<queue, prio, inverted>>
      BY <1>17, <2>1 DEF ContinueBatch, BeginScan
    <3>2. Queued' = Queued
      BY <3>1, SameLists
    <3>3. \A n \in Queued : prio'[n] <= Top
      BY <3>1, ListsHold, SMTT(30)
    <3> QED BY <2>1, <3>1, <3>2, <3>3 DEF OlderShape, NoInversion
  <2>2. CASE pc'[Consumer] # "scan"
    <3>1. UNCHANGED <<queue, prio, inverted, older, level>>
      BY <1>17, <2>2 DEF ContinueBatch, BeginScan
    <3>2. pc[Consumer] # "scan"
      BY <1>17 DEF ContinueBatch
    <3> QED BY <2>2, <3>1, <3>2, SameOlder, SameLists
  <2> QED BY <2>1, <2>2
<1>18. CASE AwaitSignalled
  <2>1. CASE pc'[Consumer] = "scan"
    <3>1. level' = Top /\ older' = Queued /\ UNCHANGED <<queue, prio, inverted>>
      BY <1>18, <2>1 DEF AwaitSignalled, BeginScan
    <3>2. Queued' = Queued
      BY <3>1, SameLists
    <3>3. \A n \in Queued : prio'[n] <= Top
      BY <3>1, ListsHold, SMTT(30)
    <3> QED BY <2>1, <3>1, <3>2, <3>3 DEF OlderShape, NoInversion
  <2>2. CASE pc'[Consumer] # "scan"
    <3>1. UNCHANGED <<queue, prio, inverted, older, level>>
      BY <1>18, <2>2 DEF AwaitSignalled, BeginScan
    <3>2. pc[Consumer] # "scan"
      BY <1>18 DEF AwaitSignalled
    <3> QED BY <2>2, <3>1, <3>2, SameOlder, SameLists
  <2> QED BY <2>1, <2>2
<1>19. CASE AwaitTimeout
  <2>1. CASE pc'[Consumer] = "scan"
    <3>1. level' = Top /\ older' = Queued /\ UNCHANGED <<queue, prio, inverted>>
      BY <1>19, <2>1 DEF AwaitTimeout, BeginScan
    <3>2. Queued' = Queued
      BY <3>1, SameLists
    <3>3. \A n \in Queued : prio'[n] <= Top
      BY <3>1, ListsHold, SMTT(30)
    <3> QED BY <2>1, <3>1, <3>2, <3>3 DEF OlderShape, NoInversion
  <2>2. CASE pc'[Consumer] # "scan"
    <3>1. UNCHANGED <<queue, prio, inverted, older, level>>
      BY <1>19, <2>2 DEF AwaitTimeout, BeginScan
    <3>2. pc[Consumer] # "scan"
      BY <1>19 DEF AwaitTimeout
    <3> QED BY <2>2, <3>1, <3>2, SameOlder, SameLists
  <2> QED BY <2>1, <2>2
<1>20. CASE FreeMessage
  <2>1. UNCHANGED <<queue, prio, older, level, inverted>>
    BY <1>20 DEF FreeMessage
  <2>2. pc'[Consumer] = "scan" <=> pc[Consumer] = "scan"
    BY <1>20 DEF FreeMessage
  <2> QED BY <2>1, <2>2, SameOlder, SameLists
<1>21. CASE FreeMessageLate
  <2>1. UNCHANGED <<queue, older, level, inverted>> /\ pc[Consumer] # "scan"
    BY <1>21 DEF FreeMessageLate
  <2>2. older = {}
    BY <2>1 DEF OlderShape
  <2> QED BY <2>1, <2>2 DEF OlderShape, NoInversion
<1>22. CASE FreeMessageInternal
  <2>1. UNCHANGED <<queue, older, level, inverted>> /\ pc[Consumer] # "scan"
    BY <1>22 DEF FreeMessageInternal
  <2>2. older = {}
    BY <2>1 DEF OlderShape
  <2> QED BY <2>1, <2>2 DEF OlderShape, NoInversion
<1>23. CASE ShutdownBegin
  <2>1. UNCHANGED <<queue, prio, older, level, inverted>>
    BY <1>23 DEF ShutdownBegin
  <2>2. pc'[Consumer] = "scan" <=> pc[Consumer] = "scan"
    BY <1>23 DEF ShutdownBegin
  <2> QED BY <2>1, <2>2, SameOlder, SameLists
<1>24. CASE ShutdownDrain
  <2>1. /\ Queued' = Queued \ InQueue(swept)
    BY <1>24, Drained
  <2>2. /\ older' = older \ InQueue(swept) /\ swept \in Priorities
        /\ UNCHANGED <<level, inverted, pc>>
    BY <1>24 DEF ShutdownDrain
  <2>3. \A n \in Messages : n \notin InQueue(swept) => prio'[n] = prio[n]
    BY <1>24 DEF ShutdownDrain
  <2>4. older \subseteq Messages
    OBVIOUS
  <2> QED BY <2>1, <2>2, <2>3, <2>4 DEF OlderShape, NoInversion
<1>25. CASE ShutdownReset
  <2>1. UNCHANGED <<queue, prio, older, level, inverted>>
    BY <1>25 DEF ShutdownReset
  <2>2. pc'[Consumer] = "scan" <=> pc[Consumer] = "scan"
    BY <1>25 DEF ShutdownReset
  <2> QED BY <2>1, <2>2, SameOlder, SameLists
<1>26. CASE ShutdownDelete
  <2>1. UNCHANGED <<queue, prio, older, level, inverted>>
    BY <1>26 DEF ShutdownDelete
  <2>2. pc'[Consumer] = "scan" <=> pc[Consumer] = "scan"
    BY <1>26 DEF ShutdownDelete
  <2> QED BY <2>1, <2>2, SameOlder, SameLists
<1>27. CASE UNCHANGED vars
  BY <1>27, SameOlder, SameLists DEF vars
<1>28. CASE FreeNothing
  <2>1. UNCHANGED <<queue, prio, older, level, inverted>>
    BY <1>28 DEF FreeNothing
  <2>2. pc'[Consumer] = "scan" <=> pc[Consumer] = "scan"
    BY <1>28 DEF FreeNothing, NextOfBatch
  <2> QED BY <2>1, <2>2, SameOlder, SameLists
<1> HIDE QueueAssumption
    DEF TypeOK, lifeVars, flowVars, memVars, prodVars, consVars, Goto,
        Threads, Shutdown, Priorities, ProducerLabels, ConsumerLabels,
        ShutdownLabels
<1> QED
  BY <1>1, <1>2, <1>3, <1>4, <1>5, <1>6, <1>7, <1>8, <1>9, <1>10, <1>11,
     <1>12, <1>13, <1>14, <1>15, <1>16, <1>17, <1>18, <1>19, <1>20, <1>21,
     <1>22, <1>23, <1>24, <1>25, <1>26, <1>27, <1>28
  DEF Next, ProducerStep, ConsumerStep, ShutdownStep, FlowStep, Threads, Stopped

(* A producer that is about to announce a message does so or is still      *)
(* about to; only the wait resets the event.                               *)
LEMMA WakingKept ==
    ASSUME TypeOK, [Next]_vars, Waking, ~AwaitSignalled
    PROVE  Waking'
<1> USE QueueAssumption
    DEF TypeOK, lifeVars, flowVars, memVars, prodVars, consVars, Goto,
        Threads, Shutdown, Priorities, ProducerLabels, ConsumerLabels,
        ShutdownLabels, Waking
<1>1. ASSUME NEW p \in Producers, EnqueueMessage(p) PROVE Waking'
  BY <1>1 DEF EnqueueMessage
<1>2. ASSUME NEW p \in Producers, AcquireRundown(p) PROVE Waking'
  BY <1>2 DEF AcquireRundown
<1>3. ASSUME NEW p \in Producers, Reserve(p) PROVE Waking'
  BY <1>3 DEF Reserve
<1>4. ASSUME NEW p \in Producers, QueueFull(p) PROVE Waking'
  BY <1>4 DEF QueueFull, Leave
<1>5. ASSUME NEW p \in Producers, AllocateMessage(p) PROVE Waking'
  BY <1>5 DEF AllocateMessage
<1>6. ASSUME NEW p \in Producers, AllocateFailed(p) PROVE Waking'
  BY <1>6 DEF AllocateFailed, Leave
<1>7. ASSUME NEW p \in Producers, EnqueueToPriorityQueue(p) PROVE Waking'
  BY <1>7 DEF EnqueueToPriorityQueue
<1>8. ASSUME NEW p \in Producers, SetAvailable(p) PROVE Waking'
  BY <1>8 DEF SetAvailable, Leave
<1>9. ASSUME NEW a \in Threads, ReadDepth(a) PROVE Waking'
  BY <1>9 DEF ReadDepth
<1>10. ASSUME NEW a \in Threads, UpdateFlowControl(a) PROVE Waking'
  BY <1>10 DEF UpdateFlowControl, AfterFlow
<1>11. ASSUME NEW a \in Threads, SignalFlow(a) PROVE Waking'
  BY <1>11 DEF SignalFlow, AfterFlow
<1>12. CASE DequeueBatch
  BY <1>12 DEF DequeueBatch, BeginScan
<1>13. CASE ScanTake
  BY <1>13 DEF ScanTake
<1>14. CASE ScanNext
  BY <1>14 DEF ScanNext
<1>15. CASE ScanEmpty
  BY <1>15 DEF ScanEmpty
<1>16. CASE CountTaken
  BY <1>16 DEF CountTaken, BeginScan
<1>17. CASE ContinueBatch
  BY <1>17 DEF ContinueBatch, BeginScan
<1>18. CASE AwaitSignalled
  BY <1>18
<1>19. CASE AwaitTimeout
  BY <1>19 DEF AwaitTimeout, BeginScan
<1>20. CASE FreeMessage
  BY <1>20 DEF FreeMessage
<1>21. CASE FreeMessageLate
  BY <1>21 DEF FreeMessageLate, FreeNext, NextOfBatch
<1>22. CASE FreeMessageInternal
  BY <1>22 DEF FreeMessageInternal, FreeNext, NextOfBatch
<1>23. CASE ShutdownBegin
  BY <1>23 DEF ShutdownBegin
<1>24. CASE ShutdownDrain
  BY <1>24 DEF ShutdownDrain
<1>25. CASE ShutdownReset
  BY <1>25 DEF ShutdownReset
<1>26. CASE ShutdownDelete
  BY <1>26 DEF ShutdownDelete
<1>27. CASE UNCHANGED vars
  BY <1>27 DEF vars
<1>28. CASE FreeNothing
  BY <1>28 DEF FreeNothing, NextOfBatch
<1> HIDE QueueAssumption
    DEF TypeOK, lifeVars, flowVars, memVars, prodVars, consVars, Goto,
        Threads, Shutdown, Priorities, ProducerLabels, ConsumerLabels,
        ShutdownLabels, Waking
<1> QED
  BY <1>1, <1>2, <1>3, <1>4, <1>5, <1>6, <1>7, <1>8, <1>9, <1>10, <1>11,
     <1>12, <1>13, <1>14, <1>15, <1>16, <1>17, <1>18, <1>19, <1>20, <1>21,
     <1>22, <1>23, <1>24, <1>25, <1>26, <1>27, <1>28
  DEF Next, ProducerStep, ConsumerStep, ShutdownStep, FlowStep, Threads, Stopped

(* Steps that leave the lists and the scan alone.                          *)
LEMMA SameWake ==
    ASSUME WakeShape, NoLostWakeup, UNCHANGED <<queue, level>>,
           pc'[Consumer] = pc[Consumer], Waking => Waking'
    PROVE  WakeShape' /\ NoLostWakeup'
BY SameLists DEF WakeShape, NoLostWakeup

(* A message behind the scan is announced, and so the wait that follows    *)
(* the scan ends.                                                          *)
LEMMA WakeStep ==
    ASSUME TypeOK, OneOwner, WakeShape, NoLostWakeup, [Next]_vars
    PROVE  WakeShape' /\ NoLostWakeup'
<1> USE QueueAssumption
    DEF TypeOK, lifeVars, flowVars, memVars, prodVars, consVars, Goto,
        Threads, Shutdown, Priorities, ProducerLabels, ConsumerLabels,
        ShutdownLabels
<1>1. ASSUME NEW p \in Producers, EnqueueMessage(p)
      PROVE  WakeShape' /\ NoLostWakeup'
  <2>1. UNCHANGED <<queue, level>> /\ pc'[Consumer] = pc[Consumer]
    BY <1>1 DEF EnqueueMessage
  <2>2. ~AwaitSignalled
    BY <1>1, <2>1 DEF EnqueueMessage, AwaitSignalled, BeginScan
  <2> QED BY <2>1, <2>2, WakingKept, SameWake
<1>2. ASSUME NEW p \in Producers, AcquireRundown(p)
      PROVE  WakeShape' /\ NoLostWakeup'
  <2>1. UNCHANGED <<queue, level>> /\ pc'[Consumer] = pc[Consumer]
    BY <1>2 DEF AcquireRundown
  <2>2. ~AwaitSignalled
    BY <1>2, <2>1 DEF AcquireRundown, AwaitSignalled, BeginScan
  <2> QED BY <2>1, <2>2, WakingKept, SameWake
<1>3. ASSUME NEW p \in Producers, Reserve(p) PROVE WakeShape' /\ NoLostWakeup'
  <2>1. UNCHANGED <<queue, level>> /\ pc'[Consumer] = pc[Consumer]
    BY <1>3 DEF Reserve
  <2>2. ~AwaitSignalled
    BY <1>3, <2>1 DEF Reserve, AwaitSignalled, BeginScan
  <2> QED BY <2>1, <2>2, WakingKept, SameWake
<1>4. ASSUME NEW p \in Producers, QueueFull(p)
      PROVE  WakeShape' /\ NoLostWakeup'
  <2>1. UNCHANGED <<queue, level>> /\ pc'[Consumer] = pc[Consumer]
    BY <1>4 DEF QueueFull, Leave
  <2>2. ~AwaitSignalled
    BY <1>4, <2>1 DEF QueueFull, Leave, AwaitSignalled, BeginScan
  <2> QED BY <2>1, <2>2, WakingKept, SameWake
<1>5. ASSUME NEW p \in Producers, AllocateMessage(p)
      PROVE  WakeShape' /\ NoLostWakeup'
  <2>1. UNCHANGED <<queue, level>> /\ pc'[Consumer] = pc[Consumer]
    BY <1>5 DEF AllocateMessage
  <2>2. ~AwaitSignalled
    BY <1>5, <2>1 DEF AllocateMessage, AwaitSignalled, BeginScan
  <2> QED BY <2>1, <2>2, WakingKept, SameWake
<1>6. ASSUME NEW p \in Producers, AllocateFailed(p)
      PROVE  WakeShape' /\ NoLostWakeup'
  <2>1. UNCHANGED <<queue, level>> /\ pc'[Consumer] = pc[Consumer]
    BY <1>6 DEF AllocateFailed, Leave
  <2>2. ~AwaitSignalled
    BY <1>6, <2>1 DEF AllocateFailed, Leave, AwaitSignalled, BeginScan
  <2> QED BY <2>1, <2>2, WakingKept, SameWake
<1>7. ASSUME NEW p \in Producers, EnqueueToPriorityQueue(p)
      PROVE  WakeShape' /\ NoLostWakeup'
  <2>1. Waking'
    BY <1>7 DEF EnqueueToPriorityQueue, Waking
  <2> QED BY <2>1 DEF WakeShape, NoLostWakeup
<1>8. ASSUME NEW p \in Producers, SetAvailable(p)
      PROVE  WakeShape' /\ NoLostWakeup'
  <2>1. UNCHANGED <<queue, level>> /\ pc'[Consumer] = pc[Consumer]
    BY <1>8 DEF SetAvailable, Leave
  <2>2. ~AwaitSignalled
    BY <1>8, <2>1 DEF SetAvailable, Leave, AwaitSignalled, BeginScan
  <2> QED BY <2>1, <2>2, WakingKept, SameWake
<1>9. ASSUME NEW a \in Threads, ReadDepth(a) PROVE WakeShape' /\ NoLostWakeup'
  <2>1. UNCHANGED <<queue, level>>
    BY <1>9 DEF ReadDepth
  <2>2. \/ pc[Consumer] \notin {"scan", "await"} /\ a = Consumer
        \/ a \in Producers
    BY <1>9 DEF ReadDepth
  <2>3. pc[Consumer] = pc'[Consumer] \/ pc'[Consumer] \notin {"scan", "await"}
    BY <1>9, <2>2 DEF ReadDepth
  <2>4. ~AwaitSignalled
    BY <1>9 DEF ReadDepth, AwaitSignalled, BeginScan
  <2> QED BY <2>1, <2>3, <2>4, WakingKept, SameWake DEF WakeShape, NoLostWakeup
<1>10. ASSUME NEW a \in Threads, UpdateFlowControl(a)
       PROVE  WakeShape' /\ NoLostWakeup'
  <2>1. UNCHANGED <<queue, level>>
    BY <1>10 DEF UpdateFlowControl, AfterFlow
  <2>2. \/ pc[Consumer] \notin {"scan", "await"} /\ a = Consumer
        \/ a \in Producers
    BY <1>10 DEF UpdateFlowControl, AfterFlow
  <2>3. pc[Consumer] = pc'[Consumer] \/ pc'[Consumer] \notin {"scan", "await"}
    BY <1>10, <2>2 DEF UpdateFlowControl, AfterFlow
  <2>4. ~AwaitSignalled
    BY <1>10 DEF UpdateFlowControl, AfterFlow, AwaitSignalled, BeginScan
  <2> QED BY <2>1, <2>3, <2>4, WakingKept, SameWake DEF WakeShape, NoLostWakeup
<1>11. ASSUME NEW a \in Threads, SignalFlow(a)
       PROVE  WakeShape' /\ NoLostWakeup'
  <2>1. UNCHANGED <<queue, level>>
    BY <1>11 DEF SignalFlow, AfterFlow
  <2>2. \/ pc[Consumer] \notin {"scan", "await"} /\ a = Consumer
        \/ a \in Producers
    BY <1>11 DEF SignalFlow, AfterFlow
  <2>3. pc[Consumer] = pc'[Consumer] \/ pc'[Consumer] \notin {"scan", "await"}
    BY <1>11, <2>2 DEF SignalFlow, AfterFlow
  <2>4. ~AwaitSignalled
    BY <1>11 DEF SignalFlow, AfterFlow, AwaitSignalled, BeginScan
  <2> QED BY <2>1, <2>3, <2>4, WakingKept, SameWake DEF WakeShape, NoLostWakeup
<1>12. CASE DequeueBatch
  <2>1. \/ pc'[Consumer] = "scan" /\ level' = Top
        \/ pc'[Consumer] \notin {"scan", "await"}
    BY <1>12 DEF DequeueBatch, BeginScan
  <2> QED BY <2>1 DEF WakeShape, NoLostWakeup
<1>13. CASE ScanTake
  <2>1. pc'[Consumer] \notin {"scan", "await"}
    BY <1>13 DEF ScanTake
  <2> QED BY <2>1 DEF WakeShape, NoLostWakeup
<1>14. CASE ScanNext
  <2>1. /\ level' = level - 1 /\ queue[level] = <<>> /\ level \in Priorities
        /\ UNCHANGED <<queue, pc>> /\ pc[Consumer] = "scan"
    BY <1>14 DEF ScanNext
  <2>2. ~AwaitSignalled
    BY <2>1 DEF AwaitSignalled
  <2>3. \A i \in Priorities : i > level' /\ queue'[i] # <<>> => i > level
    BY <2>1
  <2> QED BY <2>1, <2>2, <2>3, WakingKept DEF WakeShape, NoLostWakeup
<1>15. CASE ScanEmpty
  <2>1. /\ level = 0 /\ queue[level] = <<>> /\ UNCHANGED queue
        /\ pc[Consumer] = "scan" /\ pc'[Consumer] # "scan"
    BY <1>15 DEF ScanEmpty
  <2>2. ~AwaitSignalled
    BY <2>1 DEF AwaitSignalled
  <2>3. ASSUME Queued' # {} PROVE Waking'
    <3>1. PICK i \in Priorities : InQueue(i) # {}
      BY <2>3, <2>1, SameLists DEF Queued
    <3>2. queue[i] # <<>>
      BY <3>1, EmptyMembers DEF InQueue
    <3>3. i > level
      BY <3>2, <2>1
    <3> QED BY <3>2, <3>3, <2>1, <2>2, WakingKept DEF WakeShape
  <2> QED BY <2>1, <2>3 DEF WakeShape, NoLostWakeup
<1>16. CASE CountTaken
  <2>1. \/ pc'[Consumer] = "scan" /\ level' = Top
        \/ pc'[Consumer] \notin {"scan", "await"}
    BY <1>16 DEF CountTaken, BeginScan
  <2> QED BY <2>1 DEF WakeShape, NoLostWakeup
<1>17. CASE ContinueBatch
  <2>1. \/ pc'[Consumer] = "scan" /\ level' = Top
        \/ pc'[Consumer] \notin {"scan", "await"}
    BY <1>17 DEF ContinueBatch, BeginScan
  <2> QED BY <2>1 DEF WakeShape, NoLostWakeup
<1>18. CASE AwaitSignalled
  <2>1. \/ pc'[Consumer] = "scan" /\ level' = Top
        \/ pc'[Consumer] \notin {"scan", "await"}
    BY <1>18 DEF AwaitSignalled, BeginScan
  <2> QED BY <2>1 DEF WakeShape, NoLostWakeup
<1>19. CASE AwaitTimeout
  <2>1. \/ pc'[Consumer] = "scan" /\ level' = Top
        \/ pc'[Consumer] \notin {"scan", "await"}
    BY <1>19 DEF AwaitTimeout, BeginScan
  <2> QED BY <2>1 DEF WakeShape, NoLostWakeup
<1>20. CASE FreeMessage
  <2>1. pc'[Consumer] \notin {"scan", "await"}
    BY <1>20 DEF FreeMessage
  <2> QED BY <2>1 DEF WakeShape, NoLostWakeup
<1>21. CASE FreeMessageLate
  <2>1. pc'[Consumer] \notin {"scan", "await"}
    BY <1>21 DEF FreeMessageLate, FreeNext, NextOfBatch
  <2> QED BY <2>1 DEF WakeShape, NoLostWakeup
<1>22. CASE FreeMessageInternal
  <2>1. pc'[Consumer] \notin {"scan", "await"}
    BY <1>22 DEF FreeMessageInternal, FreeNext, NextOfBatch
  <2> QED BY <2>1 DEF WakeShape, NoLostWakeup
<1>23. CASE ShutdownBegin
  <2>1. UNCHANGED <<queue, level>> /\ pc'[Consumer] = pc[Consumer]
    BY <1>23 DEF ShutdownBegin
  <2>2. ~AwaitSignalled
    BY <1>23, <2>1 DEF ShutdownBegin, AwaitSignalled, BeginScan
  <2> QED BY <2>1, <2>2, WakingKept, SameWake
<1>24. CASE ShutdownDrain
  <2>1. /\ UNCHANGED <<pc, level>> /\ swept \in Priorities
        /\ queue' = [queue EXCEPT ![swept] = <<>>]
    BY <1>24 DEF ShutdownDrain
  <2>2. \A i \in Priorities : queue'[i] # <<>> => queue[i] # <<>>
    BY <2>1
  <2>3. Queued' # {} => Queued # {}
    BY <1>24, Drained
  <2>4. ~AwaitSignalled
    BY <1>24 DEF ShutdownDrain, AwaitSignalled
  <2> QED BY <2>1, <2>2, <2>3, <2>4, WakingKept DEF WakeShape, NoLostWakeup
<1>25. CASE ShutdownReset
  <2>1. UNCHANGED <<queue, level>> /\ pc'[Consumer] = pc[Consumer]
    BY <1>25 DEF ShutdownReset
  <2>2. ~AwaitSignalled
    BY <1>25, <2>1 DEF ShutdownReset, AwaitSignalled, BeginScan
  <2> QED BY <2>1, <2>2, WakingKept, SameWake
<1>26. CASE ShutdownDelete
  <2>1. UNCHANGED <<queue, level>> /\ pc'[Consumer] = pc[Consumer]
    BY <1>26 DEF ShutdownDelete
  <2>2. ~AwaitSignalled
    BY <1>26, <2>1 DEF ShutdownDelete, AwaitSignalled, BeginScan
  <2> QED BY <2>1, <2>2, WakingKept, SameWake
<1>27. CASE UNCHANGED vars
  <2>1. UNCHANGED <<queue, level>> /\ pc'[Consumer] = pc[Consumer]
    BY <1>27 DEF vars
  <2>2. UNCHANGED Waking
    BY <1>27 DEF vars, Waking
  <2> QED BY <2>1, <2>2, SameWake
<1>28. CASE FreeNothing
  <2>1. pc'[Consumer] \notin {"scan", "await"}
    BY <1>28 DEF FreeNothing, NextOfBatch
  <2> QED BY <2>1 DEF WakeShape, NoLostWakeup
<1> HIDE QueueAssumption
    DEF TypeOK, lifeVars, flowVars, memVars, prodVars, consVars, Goto,
        Threads, Shutdown, Priorities, ProducerLabels, ConsumerLabels,
        ShutdownLabels
<1> QED
  BY <1>1, <1>2, <1>3, <1>4, <1>5, <1>6, <1>7, <1>8, <1>9, <1>10, <1>11,
     <1>12, <1>13, <1>14, <1>15, <1>16, <1>17, <1>18, <1>19, <1>20, <1>21,
     <1>22, <1>23, <1>24, <1>25, <1>26, <1>27, <1>28
  DEF Next, ProducerStep, ConsumerStep, ShutdownStep, FlowStep, Threads, Stopped

(* Everything that is counted is finite.                                   *)
LEMMA Finite ==
    ASSUME TypeOK
    PROVE  /\ \A S \in SUBSET Messages : IsFiniteSet(S)
           /\ \A S \in SUBSET Producers : IsFiniteSet(S)
           /\ IsFiniteSet(Queued) /\ Cardinality(Queued) \in Nat
           /\ IsFiniteSet(Reserving) /\ Cardinality(Reserving) \in Nat
           /\ IsFiniteSet(Uncounted) /\ Cardinality(Uncounted) \in Nat
           /\ IsFiniteSet(LowListed) /\ Cardinality(LowListed) \in Nat
           /\ IsFiniteSet(LowReserving) /\ Cardinality(LowReserving) \in Nat
<1>1. \A S \in SUBSET Messages : IsFiniteSet(S)
  BY QueueAssumption, FS_Subset
<1>2. \A S \in SUBSET Producers : IsFiniteSet(S)
  BY QueueAssumption, FS_Subset
<1>3. Queued \subseteq Messages
  BY ListsHold
<1>4. IsFiniteSet(Uncounted)
  BY FS_Singleton, FS_EmptySet DEF Uncounted
<1>5. IsFiniteSet(Queued) /\ IsFiniteSet(Reserving)
  BY <1>1, <1>2, <1>3 DEF Reserving
<1>6. IsFiniteSet(LowListed)
  <2>1. IsFiniteSet(Queued \cup Uncounted)
    BY <1>4, <1>5, FS_Union
  <2> QED BY <2>1, FS_Subset DEF LowListed
<1>7. IsFiniteSet(LowReserving)
  BY <1>5, FS_Subset DEF LowReserving
<1> QED BY <1>1, <1>2, <1>4, <1>5, <1>6, <1>7, FS_CardinalityType

(* The message that is not yet counted as taken is in the batch.           *)
LEMMA UncountedTaken ==
    ASSUME TypeOK, BatchShape
    PROVE  Uncounted \subseteq InBatch
<1>1. CASE pc[Consumer] = "taken"
  <2>1. batch # <<>> /\ batch \in Seq(Messages \cup {NULL})
        /\ batch[Len(batch)] # NULL
    BY <1>1 DEF BatchShape, TypeOK
  <2>2. Len(batch) \in 1 .. Len(batch)
    BY <2>1
  <2> QED BY <1>1, <2>1, <2>2 DEF Uncounted, InBatch, Members
<1>2. CASE pc[Consumer] # "taken"
  BY <1>2 DEF Uncounted
<1> QED BY <1>1, <1>2

(* Steps that change nothing that is counted.                              *)
LEMMA SameCounts ==
    ASSUME DepthExact, NormalBounded,
           mqState' = "Running" => mqState = "Running",
           UNCHANGED total, Queued' = Queued, Reserving' = Reserving,
           Uncounted' = Uncounted,
           \A m \in Queued \cup Uncounted : prio'[m] = prio[m],
           \A p \in Reserving : want'[p] = want[p]
    PROVE  DepthExact' /\ NormalBounded'
<1>1. LowListed' = LowListed
  BY DEF LowListed
<1>2. LowReserving' = LowReserving
  BY DEF LowReserving
<1> QED BY <1>1, <1>2 DEF DepthExact, NormalBounded

(* A message of low priority takes a place only while there is one, and    *)
(* the places are at least the low messages: a set and its part.           *)
LEMMA LowBound ==
    ASSUME TypeOK, BatchShape, OneOwner
    PROVE  Cardinality(LowListed) + Cardinality(LowReserving)
           <= Cardinality(Queued) + Cardinality(Reserving)
              + Cardinality(Uncounted)
<1>1. Uncounted \cap Queued = {}
  BY UncountedTaken DEF OneOwner
<1>2. /\ IsFiniteSet(Queued) /\ IsFiniteSet(Uncounted) /\ IsFiniteSet(Reserving)
      /\ Cardinality(Queued) \in Nat /\ Cardinality(Uncounted) \in Nat
      /\ Cardinality(Reserving) \in Nat
      /\ Cardinality(LowListed) \in Nat /\ Cardinality(LowReserving) \in Nat
  BY Finite
<1>3. /\ IsFiniteSet(Queued \cup Uncounted)
      /\ Cardinality(Queued \cup Uncounted)
            = Cardinality(Queued) + Cardinality(Uncounted)
              - Cardinality(Queued \cap Uncounted)
  BY <1>2, FS_Union
<1>4. Cardinality(Queued \cap Uncounted) = 0
  BY <1>1, FS_EmptySet
<1>5. Cardinality(LowListed) <= Cardinality(Queued \cup Uncounted)
  BY <1>3, FS_Subset DEF LowListed
<1>6. Cardinality(LowReserving) <= Cardinality(Reserving)
  BY <1>2, FS_Subset DEF LowReserving
<1> HIDE DEF LowListed, LowReserving, Queued, Uncounted, Reserving
<1> QED BY <1>2, <1>3, <1>4, <1>5, <1>6

(* The count and the bound, as places and messages come and go.            *)
LEMMA CountStep ==
    ASSUME TypeOK, LifeShape, BatchShape, PriorityShape, OneOwner, DepthExact,
           NormalBounded, [Next]_vars
    PROVE  DepthExact' /\ NormalBounded'
<1> USE QueueAssumption
    DEF TypeOK, lifeVars, flowVars, memVars, prodVars, consVars, Goto,
        Threads, Shutdown, Priorities, ProducerLabels, ConsumerLabels,
        ShutdownLabels
<1>1. ASSUME NEW p \in Producers, EnqueueMessage(p)
      PROVE  DepthExact' /\ NormalBounded'
  <2>1. /\ UNCHANGED <<total, queue, prio>>
        /\ mqState' = "Running" => mqState = "Running"
    BY <1>1 DEF EnqueueMessage
  <2>2. Reserving' = Reserving
    BY <1>1 DEF EnqueueMessage, Reserving
  <2>3. Uncounted' = Uncounted
    BY <1>1 DEF EnqueueMessage, Uncounted
  <2>4. \A q \in Reserving : want'[q] = want[q]
    BY <1>1 DEF EnqueueMessage, Reserving
  <2> QED BY <2>1, <2>2, <2>3, <2>4, SameCounts, SameLists
<1>2. ASSUME NEW p \in Producers, AcquireRundown(p)
      PROVE  DepthExact' /\ NormalBounded'
  <2>1. /\ UNCHANGED <<total, queue, prio>>
        /\ mqState' = "Running" => mqState = "Running"
    BY <1>2 DEF AcquireRundown
  <2>2. Reserving' = Reserving
    BY <1>2 DEF AcquireRundown, Reserving
  <2>3. Uncounted' = Uncounted
    BY <1>2 DEF AcquireRundown, Uncounted
  <2>4. \A q \in Reserving : want'[q] = want[q]
    BY <1>2 DEF AcquireRundown, Reserving
  <2> QED BY <2>1, <2>2, <2>3, <2>4, SameCounts, SameLists
<1>3. ASSUME NEW p \in Producers, Reserve(p)
      PROVE  DepthExact' /\ NormalBounded'
  <2>1. /\ total' = total + 1 /\ UNCHANGED <<queue, prio, want, mqState, batch>>
        /\ pc' = [pc EXCEPT ![p] = "allocate"] /\ pc[p] = "reserve"
        /\ want[p] >= HighPriority \/ total < MaxQueueDepth
    BY <1>3 DEF Reserve, MayReserve
  <2>2. Reserving' = Reserving \cup {p} /\ p \notin Reserving
    BY <2>1 DEF Reserving
  <2>3. Uncounted' = Uncounted
    BY <2>1 DEF Uncounted
  <2>4. Queued' = Queued
    BY <2>1, SameLists
  <2>5. LowListed' = LowListed
    BY <2>1, <2>3, <2>4 DEF LowListed
  <2>6. LowReserving' = IF want[p] < HighPriority THEN LowReserving \cup {p}
                                                  ELSE LowReserving
    BY <2>1, <2>2 DEF LowReserving
  <2>7. p \notin LowReserving
    BY <2>2 DEF LowReserving
  <2>8. Cardinality(Reserving') = Cardinality(Reserving) + 1
    BY <2>2, Finite, FS_AddElement
  <2>9. Cardinality(LowReserving \cup {p}) = Cardinality(LowReserving) + 1
    BY <2>7, Finite, FS_AddElement
  <2>10. /\ Cardinality(Queued) \in Nat /\ Cardinality(Reserving) \in Nat
         /\ Cardinality(Uncounted) \in Nat /\ Cardinality(LowListed) \in Nat
         /\ Cardinality(LowReserving) \in Nat
    BY Finite
  <2>11. DepthExact'
    <3>1. /\ Cardinality(Queued') = Cardinality(Queued)
          /\ Cardinality(Uncounted') = Cardinality(Uncounted)
      BY <2>3, <2>4
    <3>2. mqState = "Running" =>
             total = Cardinality(Queued) + Cardinality(Reserving)
                     + Cardinality(Uncounted)
      BY DEF DepthExact
    <3>3. UNCHANGED mqState /\ total' = total + 1
      BY <2>1
    <3>4. mqState = "Running" =>
             total' = Cardinality(Queued') + Cardinality(Reserving')
                      + Cardinality(Uncounted')
      <4>1. total \in Int
        OBVIOUS
      <4>2. /\ Cardinality(Queued) \in Int /\ Cardinality(Uncounted) \in Int
            /\ Cardinality(Reserving) \in Int
            /\ Cardinality(Reserving') = Cardinality(Reserving) + 1
        BY <2>8, <2>10
      <4> HIDE QueueAssumption
          DEF TypeOK, lifeVars, flowVars, memVars, prodVars, consVars, Goto,
              Threads, Shutdown, Priorities, ProducerLabels, ConsumerLabels,
              ShutdownLabels
      <4> QED BY ONLY <3>1, <3>2, <3>3, <4>1, <4>2
    <3> QED BY <3>3, <3>4 DEF DepthExact
  <2>12. NormalBounded'
    <3>1. CASE want[p] < HighPriority /\ mqState = "Running"
      <4>1. total < MaxQueueDepth
        BY <2>1, <3>1
      <4>2. Cardinality(LowListed) + Cardinality(LowReserving) <= total
        BY LowBound, <3>1 DEF DepthExact
      <4>3. Cardinality(LowListed) + Cardinality(LowReserving) + 1
            <= MaxQueueDepth
        BY <4>1, <4>2, <2>10, SMTT(30)
      <4>4. LowReserving' = LowReserving \cup {p}
        BY <2>6, <3>1
      <4> QED BY <4>3, <4>4, <2>5, <2>9, <2>10 DEF NormalBounded
    <3>2. CASE ~(want[p] < HighPriority)
      BY <3>2, <2>1, <2>5, <2>6 DEF NormalBounded
    <3>3. CASE mqState # "Running"
      BY <3>3, <2>1 DEF NormalBounded
    <3> QED BY <3>1, <3>2, <3>3
  <2> QED BY <2>11, <2>12
<1>4. ASSUME NEW p \in Producers, QueueFull(p)
      PROVE  DepthExact' /\ NormalBounded'
  <2>1. /\ UNCHANGED <<total, queue, prio>>
        /\ mqState' = "Running" => mqState = "Running"
    BY <1>4 DEF QueueFull, Leave
  <2>2. Reserving' = Reserving
    BY <1>4 DEF QueueFull, Leave, Reserving
  <2>3. Uncounted' = Uncounted
    BY <1>4 DEF QueueFull, Leave, Uncounted
  <2>4. \A q \in Reserving : want'[q] = want[q]
    BY <1>4 DEF QueueFull, Leave, Reserving
  <2> QED BY <2>1, <2>2, <2>3, <2>4, SameCounts, SameLists
<1>5. ASSUME NEW p \in Producers, AllocateMessage(p)
      PROVE  DepthExact' /\ NormalBounded'
  <2>1. PICK m \in Messages \ allocated : prio' = [prio EXCEPT ![m] = want[p]]
    BY <1>5, Allocated
  <2>2. /\ UNCHANGED <<queue, want, total, mqState, batch>>
        /\ pc' = [pc EXCEPT ![p] = "insert"] /\ pc[p] = "allocate"
    BY <1>5 DEF AllocateMessage
  <2>3. Queued \cup Uncounted \subseteq Messages \cap allocated
    BY ListsHold, UncountedTaken DEF OneOwner
  <2>4. \A n \in Queued \cup Uncounted : prio'[n] = prio[n]
    BY <2>1, <2>3
  <2>5. Reserving' = Reserving
    BY <2>2 DEF Reserving
  <2>6. Uncounted' = Uncounted
    BY <2>2 DEF Uncounted
  <2> QED BY <2>2, <2>4, <2>5, <2>6, SameCounts, SameLists
<1>6. ASSUME NEW p \in Producers, AllocateFailed(p)
      PROVE  DepthExact' /\ NormalBounded'
  <2>1. /\ total' = total - 1 /\ UNCHANGED <<queue, prio, mqState, batch>>
        /\ pc' = [pc EXCEPT ![p] = "idle"] /\ pc[p] = "allocate"
        /\ want' = [want EXCEPT ![p] = 0]
    BY <1>6 DEF AllocateFailed, Leave
  <2>2. Reserving' = Reserving \ {p} /\ p \in Reserving
    BY <2>1 DEF Reserving
  <2>3. Uncounted' = Uncounted
    BY <2>1 DEF Uncounted
  <2>4. Queued' = Queued
    BY <2>1, SameLists
  <2>5. LowListed' = LowListed
    BY <2>1, <2>3, <2>4 DEF LowListed
  <2>6. LowReserving' \subseteq LowReserving
    BY <2>1, <2>2 DEF LowReserving, Reserving
  <2>7. Cardinality(Reserving') = Cardinality(Reserving) - 1
    BY <2>2, Finite, FS_RemoveElement
  <2>8. /\ Cardinality(LowReserving') \in Nat
        /\ Cardinality(LowReserving') <= Cardinality(LowReserving)
    BY <2>6, Finite, FS_Subset, FS_CardinalityType
  <2>9. /\ Cardinality(Queued) \in Nat /\ Cardinality(Reserving) \in Nat
        /\ Cardinality(Uncounted) \in Nat /\ Cardinality(LowListed) \in Nat
        /\ Cardinality(LowReserving) \in Nat
    BY Finite
  <2>10. DepthExact'
    <3>1. /\ Cardinality(Queued') = Cardinality(Queued)
          /\ Cardinality(Uncounted') = Cardinality(Uncounted)
      BY <2>3, <2>4
    <3>2. mqState = "Running" =>
             total = Cardinality(Queued) + Cardinality(Reserving)
                     + Cardinality(Uncounted)
      BY DEF DepthExact
    <3>3. UNCHANGED mqState /\ total' = total - 1
      BY <2>1
    <3>4. mqState = "Running" =>
             total' = Cardinality(Queued') + Cardinality(Reserving')
                      + Cardinality(Uncounted')
      <4>1. total \in Int
        OBVIOUS
      <4>2. /\ Cardinality(Queued) \in Int /\ Cardinality(Uncounted) \in Int
            /\ Cardinality(Reserving) \in Int
            /\ Cardinality(Reserving') = Cardinality(Reserving) - 1
        BY <2>7, <2>9
      <4> HIDE QueueAssumption
          DEF TypeOK, lifeVars, flowVars, memVars, prodVars, consVars, Goto,
              Threads, Shutdown, Priorities, ProducerLabels, ConsumerLabels,
              ShutdownLabels
      <4> QED BY ONLY <3>1, <3>2, <3>3, <4>1, <4>2
    <3> QED BY <3>3, <3>4 DEF DepthExact
  <2>11. NormalBounded'
    BY <2>1, <2>5, <2>8, <2>9, SMTT(30) DEF NormalBounded
  <2> QED BY <2>10, <2>11
<1>7. ASSUME NEW p \in Producers, EnqueueToPriorityQueue(p)
      PROVE  DepthExact' /\ NormalBounded'
  <2> DEFINE m == msg[p]
  <2>1. m \in Held /\ m \in Messages /\ Queued' = Queued \cup {m} /\ m # NULL
    BY <1>7, Inserted
  <2>2. /\ UNCHANGED <<total, prio, want, mqState, batch>>
        /\ pc' = [pc EXCEPT ![p] = "read"] /\ pc[p] = "insert"
    BY <1>7 DEF EnqueueToPriorityQueue
  <2>3. m \notin Queued /\ m \notin Uncounted /\ prio[m] = want[p]
    BY <2>1, UncountedTaken DEF OneOwner, PriorityShape
  <2> HIDE DEF m
  <2>4. Reserving' = Reserving \ {p} /\ p \in Reserving
    BY <2>2 DEF Reserving
  <2>5. Uncounted' = Uncounted
    BY <2>2 DEF Uncounted
  <2>6. LowListed' = IF want[p] < HighPriority THEN LowListed \cup {m}
                                               ELSE LowListed
    BY <2>1, <2>2, <2>3, <2>5 DEF LowListed
  <2>7. LowReserving' = LowReserving \ {p}
    BY <2>2, <2>4 DEF LowReserving
  <2>8. p \in LowReserving <=> want[p] < HighPriority
    BY <2>4 DEF LowReserving
  <2>9. m \notin LowListed
    BY <2>3 DEF LowListed
  <2>10. Cardinality(Queued') = Cardinality(Queued) + 1
    BY <2>1, <2>3, Finite, FS_AddElement
  <2>11. Cardinality(Reserving') = Cardinality(Reserving) - 1
    BY <2>4, Finite, FS_RemoveElement
  <2>12. /\ Cardinality(Queued) \in Nat /\ Cardinality(Reserving) \in Nat
         /\ Cardinality(Uncounted) \in Nat /\ Cardinality(LowListed) \in Nat
         /\ Cardinality(LowReserving) \in Nat
    BY Finite
  <2>13. DepthExact'
    BY <2>2, <2>5, <2>10, <2>11, <2>12 DEF DepthExact
  <2>14. CASE want[p] < HighPriority
    <3>1. Cardinality(LowListed') = Cardinality(LowListed) + 1
      BY <2>6, <2>9, <2>14, Finite, FS_AddElement
    <3>2. Cardinality(LowReserving') = Cardinality(LowReserving) - 1
      BY <2>7, <2>8, <2>14, Finite, FS_RemoveElement
    <3> QED BY <3>1, <3>2, <2>2, <2>12, <2>13 DEF NormalBounded
  <2>15. CASE ~(want[p] < HighPriority)
    <3>1. LowListed' = LowListed /\ LowReserving' = LowReserving
      BY <2>6, <2>7, <2>8, <2>15
    <3> QED BY <3>1, <2>2, <2>13 DEF NormalBounded
  <2> QED BY <2>14, <2>15
<1>8. ASSUME NEW p \in Producers, SetAvailable(p)
      PROVE  DepthExact' /\ NormalBounded'
  <2>1. /\ UNCHANGED <<total, queue, prio>>
        /\ mqState' = "Running" => mqState = "Running"
    BY <1>8 DEF SetAvailable, Leave
  <2>2. Reserving' = Reserving
    BY <1>8 DEF SetAvailable, Leave, Reserving
  <2>3. Uncounted' = Uncounted
    BY <1>8 DEF SetAvailable, Leave, Uncounted
  <2>4. \A q \in Reserving : want'[q] = want[q]
    BY <1>8 DEF SetAvailable, Leave, Reserving
  <2> QED BY <2>1, <2>2, <2>3, <2>4, SameCounts, SameLists
<1>9. ASSUME NEW a \in Threads, ReadDepth(a)
      PROVE  DepthExact' /\ NormalBounded'
  <2>1. /\ UNCHANGED <<total, queue, prio>>
        /\ mqState' = "Running" => mqState = "Running"
    BY <1>9 DEF ReadDepth
  <2>2. Reserving' = Reserving
    BY <1>9 DEF ReadDepth, Reserving
  <2>3. Uncounted' = Uncounted
    BY <1>9 DEF ReadDepth, Uncounted
  <2>4. \A q \in Reserving : want'[q] = want[q]
    BY <1>9 DEF ReadDepth, Reserving
  <2> QED BY <2>1, <2>2, <2>3, <2>4, SameCounts, SameLists
<1>10. ASSUME NEW a \in Threads, UpdateFlowControl(a)
       PROVE  DepthExact' /\ NormalBounded'
  <2>1. /\ UNCHANGED <<total, queue, prio>>
        /\ mqState' = "Running" => mqState = "Running"
    BY <1>10 DEF UpdateFlowControl, AfterFlow
  <2>2. Reserving' = Reserving
    BY <1>10 DEF UpdateFlowControl, AfterFlow, Reserving
  <2>3. Uncounted' = Uncounted
    BY <1>10 DEF UpdateFlowControl, AfterFlow, Uncounted
  <2>4. \A q \in Reserving : want'[q] = want[q]
    BY <1>10 DEF UpdateFlowControl, AfterFlow, Reserving
  <2> QED BY <2>1, <2>2, <2>3, <2>4, SameCounts, SameLists
<1>11. ASSUME NEW a \in Threads, SignalFlow(a)
       PROVE  DepthExact' /\ NormalBounded'
  <2>1. /\ UNCHANGED <<total, queue, prio>>
        /\ mqState' = "Running" => mqState = "Running"
    BY <1>11 DEF SignalFlow, AfterFlow
  <2>2. Reserving' = Reserving
    BY <1>11 DEF SignalFlow, AfterFlow, Reserving
  <2>3. Uncounted' = Uncounted
    BY <1>11 DEF SignalFlow, AfterFlow, Uncounted
  <2>4. \A q \in Reserving : want'[q] = want[q]
    BY <1>11 DEF SignalFlow, AfterFlow, Reserving
  <2> QED BY <2>1, <2>2, <2>3, <2>4, SameCounts, SameLists
<1>12. CASE DequeueBatch
  <2>1. /\ UNCHANGED <<total, queue, prio>>
        /\ mqState' = "Running" => mqState = "Running"
    BY <1>12 DEF DequeueBatch, BeginScan
  <2>2. Reserving' = Reserving
    BY <1>12 DEF DequeueBatch, BeginScan, Reserving
  <2>3. Uncounted' = Uncounted
    BY <1>12 DEF DequeueBatch, BeginScan, Uncounted
  <2>4. \A q \in Reserving : want'[q] = want[q]
    BY <1>12 DEF DequeueBatch, BeginScan, Reserving
  <2> QED BY <2>1, <2>2, <2>3, <2>4, SameCounts, SameLists
<1>13. CASE ScanTake
  <2> DEFINE m == Head(queue[level])
  <2>1. /\ m \in Queued /\ Queued' = Queued \ {m}
        /\ batch'[Len(batch')] = m
    BY <1>13, Taken, SMTT(30)
  <2>2. /\ UNCHANGED <<total, prio, want, mqState>> /\ pc[Consumer] = "scan"
        /\ pc' = [pc EXCEPT ![Consumer] = "taken"]
    BY <1>13 DEF ScanTake
  <2> HIDE DEF m
  <2>3. Uncounted = {} /\ Uncounted' = {m}
    BY <2>1, <2>2 DEF Uncounted
  <2>4. Reserving' = Reserving
    BY <2>2 DEF Reserving
  <2>5. LowListed' = LowListed
    BY <2>1, <2>2, <2>3 DEF LowListed
  <2>6. LowReserving' = LowReserving
    BY <2>2, <2>4 DEF LowReserving
  <2>7. Cardinality(Queued') = Cardinality(Queued) - 1
    BY <2>1, Finite, FS_RemoveElement
  <2>8. Cardinality(Uncounted) = 0 /\ Cardinality(Uncounted') = 1
    BY <2>3, FS_EmptySet, FS_Singleton
  <2>9. Cardinality(Queued) \in Nat /\ Cardinality(Reserving) \in Nat
    BY Finite
  <2>10. DepthExact'
    BY <2>2, <2>4, <2>7, <2>8, <2>9 DEF DepthExact
  <2> QED BY <2>2, <2>5, <2>6, <2>10 DEF NormalBounded
<1>14. CASE ScanNext
  <2>1. /\ UNCHANGED <<total, queue, prio>>
        /\ mqState' = "Running" => mqState = "Running"
    BY <1>14 DEF ScanNext
  <2>2. Reserving' = Reserving
    BY <1>14 DEF ScanNext, Reserving
  <2>3. Uncounted' = Uncounted
    BY <1>14 DEF ScanNext, Uncounted
  <2>4. \A q \in Reserving : want'[q] = want[q]
    BY <1>14 DEF ScanNext, Reserving
  <2> QED BY <2>1, <2>2, <2>3, <2>4, SameCounts, SameLists
<1>15. CASE ScanEmpty
  <2>1. /\ UNCHANGED <<total, queue, prio>>
        /\ mqState' = "Running" => mqState = "Running"
    BY <1>15 DEF ScanEmpty
  <2>2. Reserving' = Reserving
    BY <1>15 DEF ScanEmpty, Reserving
  <2>3. Uncounted' = Uncounted
    BY <1>15 DEF ScanEmpty, Uncounted
  <2>4. \A q \in Reserving : want'[q] = want[q]
    BY <1>15 DEF ScanEmpty, Reserving
  <2> QED BY <2>1, <2>2, <2>3, <2>4, SameCounts, SameLists
<1>16. CASE CountTaken
  <2>1. /\ UNCHANGED <<queue, prio, want, mqState>> /\ pc[Consumer] = "taken"
        /\ total' = total - 1
    BY <1>16 DEF CountTaken
  <2>2. PICK l \in {"scan", "read"} : pc' = [pc EXCEPT ![Consumer] = l]
    BY <1>16 DEF CountTaken, BeginScan
  <2>3. Uncounted' = {} /\ Uncounted = {batch[Len(batch)]}
    BY <2>1, <2>2 DEF Uncounted
  <2>4. Reserving' = Reserving
    BY <2>2 DEF Reserving
  <2>5. Queued' = Queued
    BY <2>1, SameLists
  <2>6. LowListed' \subseteq LowListed
    BY <2>1, <2>3, <2>5 DEF LowListed
  <2>7. LowReserving' = LowReserving
    BY <2>1, <2>4 DEF LowReserving
  <2>8. Cardinality(Uncounted) = 1 /\ Cardinality(Uncounted') = 0
    BY <2>3, FS_EmptySet, FS_Singleton
  <2>9. /\ Cardinality(LowListed') \in Nat
        /\ Cardinality(LowListed') <= Cardinality(LowListed)
    BY <2>6, Finite, FS_Subset, FS_CardinalityType
  <2>10. /\ Cardinality(Queued) \in Nat /\ Cardinality(Reserving) \in Nat
         /\ Cardinality(LowListed) \in Nat /\ Cardinality(LowReserving) \in Nat
    BY Finite
  <2>11. DepthExact'
    BY <2>1, <2>4, <2>5, <2>8, <2>10, SMTT(30) DEF DepthExact
  <2> QED BY <2>1, <2>7, <2>9, <2>10, <2>11 DEF NormalBounded
<1>17. CASE ContinueBatch
  <2>1. /\ UNCHANGED <<total, queue, prio>>
        /\ mqState' = "Running" => mqState = "Running"
    BY <1>17 DEF ContinueBatch, BeginScan
  <2>2. Reserving' = Reserving
    BY <1>17 DEF ContinueBatch, BeginScan, Reserving
  <2>3. Uncounted' = Uncounted
    BY <1>17 DEF ContinueBatch, BeginScan, Uncounted
  <2>4. \A q \in Reserving : want'[q] = want[q]
    BY <1>17 DEF ContinueBatch, BeginScan, Reserving
  <2> QED BY <2>1, <2>2, <2>3, <2>4, SameCounts, SameLists
<1>18. CASE AwaitSignalled
  <2>1. /\ UNCHANGED <<total, queue, prio>>
        /\ mqState' = "Running" => mqState = "Running"
    BY <1>18 DEF AwaitSignalled, BeginScan
  <2>2. Reserving' = Reserving
    BY <1>18 DEF AwaitSignalled, BeginScan, Reserving
  <2>3. Uncounted' = Uncounted
    BY <1>18 DEF AwaitSignalled, BeginScan, Uncounted
  <2>4. \A q \in Reserving : want'[q] = want[q]
    BY <1>18 DEF AwaitSignalled, BeginScan, Reserving
  <2> QED BY <2>1, <2>2, <2>3, <2>4, SameCounts, SameLists
<1>19. CASE AwaitTimeout
  <2>1. /\ UNCHANGED <<total, queue, prio>>
        /\ mqState' = "Running" => mqState = "Running"
    BY <1>19 DEF AwaitTimeout, BeginScan
  <2>2. Reserving' = Reserving
    BY <1>19 DEF AwaitTimeout, BeginScan, Reserving
  <2>3. Uncounted' = Uncounted
    BY <1>19 DEF AwaitTimeout, BeginScan, Uncounted
  <2>4. \A q \in Reserving : want'[q] = want[q]
    BY <1>19 DEF AwaitTimeout, BeginScan, Reserving
  <2> QED BY <2>1, <2>2, <2>3, <2>4, SameCounts, SameLists
<1>20. CASE FreeMessage
  <2>1. /\ UNCHANGED <<total, queue, prio>>
        /\ mqState' = "Running" => mqState = "Running"
    BY <1>20 DEF FreeMessage
  <2>2. Reserving' = Reserving
    BY <1>20 DEF FreeMessage, Reserving
  <2>3. Uncounted' = Uncounted
    BY <1>20 DEF FreeMessage, Uncounted
  <2>4. \A q \in Reserving : want'[q] = want[q]
    BY <1>20 DEF FreeMessage, Reserving
  <2> QED BY <2>1, <2>2, <2>3, <2>4, SameCounts, SameLists
<1>21. CASE FreeMessageLate
  <2>1. Head(batch) \in InBatch
    BY <1>21, Freed DEF FreeMessageLate, BatchShape
  <2>2. /\ UNCHANGED <<queue, want, total, mqState>>
        /\ prio' = [prio EXCEPT ![Head(batch)] = 0]
        /\ pc[Consumer] # "taken"
    BY <1>21 DEF FreeMessageLate, FreeNext, NextOfBatch
  <2>3. PICK l \in {"idle", "free"} : pc' = [pc EXCEPT ![Consumer] = l]
    BY <1>21 DEF FreeMessageLate, FreeNext, NextOfBatch
  <2>4. Uncounted = {} /\ Uncounted' = {}
    BY <2>2, <2>3 DEF Uncounted
  <2>5. Reserving' = Reserving
    BY <2>3 DEF Reserving
  <2>6. \A n \in Queued : prio'[n] = prio[n]
    BY <2>1, <2>2, ListsHold DEF OneOwner
  <2> QED BY <2>2, <2>4, <2>5, <2>6, SameCounts, SameLists
<1>22. CASE FreeMessageInternal
  <2>1. Head(batch) \in InBatch
    BY <1>22, Freed DEF FreeMessageInternal, BatchShape
  <2>2. /\ UNCHANGED <<queue, want, total, mqState>>
        /\ prio' = [prio EXCEPT ![Head(batch)] = 0]
        /\ pc[Consumer] # "taken"
    BY <1>22 DEF FreeMessageInternal, FreeNext, NextOfBatch
  <2>3. PICK l \in {"idle", "free"} : pc' = [pc EXCEPT ![Consumer] = l]
    BY <1>22 DEF FreeMessageInternal, FreeNext, NextOfBatch
  <2>4. Uncounted = {} /\ Uncounted' = {}
    BY <2>2, <2>3 DEF Uncounted
  <2>5. Reserving' = Reserving
    BY <2>3 DEF Reserving
  <2>6. \A n \in Queued : prio'[n] = prio[n]
    BY <2>1, <2>2, ListsHold DEF OneOwner
  <2> QED BY <2>2, <2>4, <2>5, <2>6, SameCounts, SameLists
<1>23. CASE ShutdownBegin
  <2>1. mqState' # "Running"
    BY <1>23 DEF ShutdownBegin, LifeShape
  <2> QED BY <2>1 DEF DepthExact, NormalBounded
<1>24. CASE ShutdownDrain
  <2>1. mqState' # "Running"
    BY <1>24 DEF ShutdownDrain, LifeShape
  <2> QED BY <2>1 DEF DepthExact, NormalBounded
<1>25. CASE ShutdownReset
  <2>1. mqState' # "Running"
    BY <1>25 DEF ShutdownReset, LifeShape
  <2> QED BY <2>1 DEF DepthExact, NormalBounded
<1>26. CASE ShutdownDelete
  <2>1. mqState' # "Running"
    BY <1>26 DEF ShutdownDelete, LifeShape
  <2> QED BY <2>1 DEF DepthExact, NormalBounded
<1>27. CASE UNCHANGED vars
  <2>1. /\ UNCHANGED <<total, queue, prio, mqState, want>>
        /\ Reserving' = Reserving /\ Uncounted' = Uncounted
    BY <1>27 DEF vars, Reserving, Uncounted
  <2> QED BY <2>1, SameCounts, SameLists
<1>28. CASE FreeNothing
  <2>1. /\ UNCHANGED <<total, queue, prio, want, mqState>>
        /\ pc[Consumer] = "free"
    BY <1>28 DEF FreeNothing
  <2>2. PICK l \in {"idle", "free"} : pc' = [pc EXCEPT ![Consumer] = l]
    BY <1>28 DEF FreeNothing, NextOfBatch
  <2>3. Reserving' = Reserving
    BY <2>2 DEF Reserving
  <2>4. Uncounted = {} /\ Uncounted' = {}
    BY <2>1, <2>2 DEF Uncounted
  <2> QED BY <2>1, <2>3, <2>4, SameCounts, SameLists
<1> HIDE QueueAssumption
    DEF TypeOK, lifeVars, flowVars, memVars, prodVars, consVars, Goto,
        Threads, Shutdown, Priorities, ProducerLabels, ConsumerLabels,
        ShutdownLabels
<1> QED
  BY <1>1, <1>2, <1>3, <1>4, <1>5, <1>6, <1>7, <1>8, <1>9, <1>10, <1>11,
     <1>12, <1>13, <1>14, <1>15, <1>16, <1>17, <1>18, <1>19, <1>20, <1>21,
     <1>22, <1>23, <1>24, <1>25, <1>26, <1>27, <1>28
  DEF Next, ProducerStep, ConsumerStep, ShutdownStep, FlowStep, Threads, Stopped

(* MqInitialize establishes the invariant.                                 *)
LEMMA InitInv == Init => IInv
<1> SUFFICES ASSUME Init PROVE IInv
  OBVIOUS
<1> USE QueueAssumption DEF Init
<1>1. /\ \A i \in Priorities : queue[i] = <<>> /\ InQueue(i) = {}
      /\ Queued = {} /\ InBatch = {}
  BY EmptyMembers DEF Queued, InQueue, InBatch
<1>2. Held = {}
  BY DEF Held
<1>3. /\ pc[Consumer] = "idle" /\ pc[Shutdown] = "idle"
      /\ \A p \in Producers : pc[p] = "idle"
  BY DEF Shutdown
<1>4. Top \in Priorities /\ 0 \in Priorities
  BY DEF Priorities
<1>5. TypeOK
  <2>1. /\ queue \in [Priorities -> Seq(Messages)]
        /\ prio \in [Messages -> Priorities] /\ want \in [Producers -> Priorities]
        /\ msg \in [Producers -> Messages \cup {NULL}]
        /\ depth \in [Producers \cup {Consumer} -> Int]
    BY <1>4
  <2>2. pc \in [Producers \cup {Consumer, Shutdown} ->
                   ProducerLabels \cup ConsumerLabels \cup ShutdownLabels]
    BY DEF ProducerLabels
  <2>3. batch \in Seq(Messages \cup {NULL}) /\ Len(batch) <= MaxBatch
    OBVIOUS
  <2>4. total \in Int /\ swept \in 0 .. Top + 1
    OBVIOUS
  <2> QED BY <1>3, <1>4, <2>1, <2>2, <2>3, <2>4
          DEF TypeOK, ProducerLabels, ConsumerLabels, ShutdownLabels
<1>6. LifeShape /\ ProtectedExact
  BY <1>3 DEF LifeShape, ProtectedExact
<1>7. BatchShape
  BY <1>3 DEF BatchShape
<1>8. PriorityShape
  BY <1>1, <1>3 DEF PriorityShape
<1>9. OneOwner
  BY <1>1, <1>2, EmptyMembers DEF OneOwner
<1>10. OlderShape /\ WakeShape /\ NoInversion /\ NoLostWakeup
  BY <1>1, <1>3 DEF OlderShape, WakeShape, NoInversion, NoLostWakeup
<1>11. DepthExact /\ NormalBounded
  <2>1. /\ Queued = {} /\ Reserving = {} /\ Uncounted = {}
    BY <1>1, <1>3 DEF Reserving, Uncounted
  <2>2. LowListed = {} /\ LowReserving = {}
    BY <2>1 DEF LowListed, LowReserving
  <2>3. total = 0
    OBVIOUS
  <2>4. Cardinality({}) = 0
    BY FS_EmptySet
  <2>5. DepthExact
    BY <2>1, <2>3, <2>4 DEF DepthExact
  <2>6. NormalBounded
    BY <2>2, <2>4 DEF NormalBounded
  <2> QED BY <2>5, <2>6
<1> QED BY <1>5, <1>6, <1>7, <1>8, <1>9, <1>10, <1>11 DEF IInv

(* Every step keeps the invariant.                                         *)
LEMMA StepInv == IInv /\ [Next]_vars => IInv'
<1> SUFFICES ASSUME IInv, [Next]_vars PROVE IInv'
  OBVIOUS
<1>1. /\ TypeOK /\ LifeShape /\ ProtectedExact /\ BatchShape
      /\ PriorityShape /\ OneOwner /\ OlderShape /\ WakeShape
      /\ DepthExact /\ NormalBounded /\ NoInversion /\ NoLostWakeup
  BY DEF IInv
<1>2. older \subseteq Queued
  BY <1>1 DEF OlderShape
<1>3. TypeOK'
  BY <1>1, <1>2, TypeStep
<1>4. LifeShape' /\ ProtectedExact'
  BY <1>1, LifeStep
<1>5. BatchShape'
  BY <1>1, BatchStep
<1>6. PriorityShape'
  BY <1>1, PriorityStep
<1>7. OneOwner'
  BY <1>1, OwnerStep
<1>8. OlderShape' /\ NoInversion'
  BY <1>1, OlderStep
<1>9. WakeShape' /\ NoLostWakeup'
  BY <1>1, WakeStep
<1>10. DepthExact' /\ NormalBounded'
  BY <1>1, CountStep
<1> QED BY <1>3, <1>4, <1>5, <1>6, <1>7, <1>8, <1>9, <1>10 DEF IInv

(* The inductive invariant: how messages, places and threads stand to each *)
(* other in every state of MessageQueue.c.                                 *)
THEOREM InductiveInvariant == Spec => []IInv
<1>1. Init => IInv
  BY InitInv
<1>2. IInv /\ [Next]_vars => IInv'
  BY StepInv
<1> QED BY <1>1, <1>2, PTL DEF Spec

(* Every variable of the message queue keeps its type; the batch never     *)
(* exceeds what the caller of MqDequeueBatch has room for.                 *)
THEOREM TypeCorrect == Spec => []TypeOK
<1>1. IInv => TypeOK
  BY DEF IInv
<1> QED BY <1>1, InductiveInvariant, PTL

(* TotalMessageCount, which no lock protects, is exact while the queue runs. *)
THEOREM DepthCounted == Spec => []DepthExact
<1>1. IInv => DepthExact
  BY DEF IInv
<1> QED BY <1>1, InductiveInvariant, PTL

(* The reservation of MqEnqueueMessage keeps messages below high priority  *)
(* within MaxQueueDepth, however many producers race for the last place.   *)
THEOREM DepthBounded == Spec => []NormalBounded
<1>1. IInv => NormalBounded
  BY DEF IInv
<1> QED BY <1>1, InductiveInvariant, PTL

(* MqpDequeueFromPriorityQueues, list by list and lock by lock, never      *)
(* passes over a message that was there when it began.                     *)
THEOREM HighestFirst == Spec => []NoInversion
<1>1. IInv => NoInversion
  BY DEF IInv
<1> QED BY <1>1, InductiveInvariant, PTL

(* No message is in two places, and none that is allocated is lost except  *)
(* those MqFreeMessage gives up.                                           *)
THEOREM OneOwnerEach == Spec => []OneOwner
<1>1. IInv => OneOwner
  BY DEF IInv
<1> QED BY <1>1, InductiveInvariant, PTL

(* MqDequeueMessage never waits on MessageAvailableEvent while a message   *)
(* is in a list that nobody is about to announce.                          *)
THEOREM WakeupsKept == Spec => []NoLostWakeup
<1>1. IInv => NoLostWakeup
  BY DEF IInv
<1> QED BY <1>1, InductiveInvariant, PTL

(* MqShutdown deletes the lookaside list when no thread allocates from it  *)
(* or frees to it.                                                         *)
THEOREM LookasideOutlivesUse == Spec => []LookasideInUse
<1>1. IInv => LookasideInUse
  <2> SUFFICES ASSUME IInv, ~lookaside, NEW a \in Threads
               PROVE  pc[a] \notin {"allocate", "freeing"}
    BY DEF LookasideInUse, Threads
  <2>1. protected = {} /\ ProtectedExact /\ TypeOK
    BY DEF IInv, LifeShape
  <2>2. CASE a = Consumer
    BY <2>1, <2>2 DEF ProtectedExact, TypeOK, ConsumerLabels
  <2>3. CASE a \in Producers
    BY <2>1, <2>3 DEF ProtectedExact, TypeOK, ProducerLabels
  <2> QED BY <2>2, <2>3 DEF Threads
<1> QED BY <1>1, InductiveInvariant, PTL

=============================================================================
