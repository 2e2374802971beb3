------------------------- MODULE MqCompletion_proofs -------------------------
(***************************************************************************)
(* Proofs about MqCompletion, for any set of callers, completers and       *)
(* completions.                                                            *)
(***************************************************************************)
EXTENDS MqCompletion, FiniteSetTheorems, TLAPS

(* Who is at work has a completion.                                        *)
LEMMA AtWork ==
    ASSUME TypeOK, WorkShape, NEW a \in Actors,
           pc[a] \in Holding \cup {"count", "signal"}
    PROVE  on[a] \in Completions
BY DEF TypeOK, WorkShape

(* An actor that has released a reference is where such actors are.        *)
LEMMA ReleasedType ==
    ASSUME TypeOK, WorkShape, NEW a \in Actors, todo[a] >= 1,
           pc[a] \in {"release", "count", "signal"}, Released(a)
    PROVE  /\ todo' \in [Actors -> 0 .. 2]
           /\ on' \in [Actors -> Completions \cup {NULL}]
           /\ pc' \in [Actors -> Labels]
           /\ \A c \in Callers : pc'[c] \in CallerLabels
           /\ \A k \in Completers : pc'[k] \in CompleterLabels
           /\ pc'[Worker] \in WorkerLabels
           /\ pc'[Shutdown] \in ShutdownLabels
<1> USE CompletionAssumption
    DEF TypeOK, Actors, Shutdown, Labels, CallerLabels, CompleterLabels,
        WorkerLabels, ShutdownLabels
<1>1. todo' \in [Actors -> 0 .. 2]
  BY DEF Released
<1>2. on' \in [Actors -> Completions \cup {NULL}]
  BY DEF Released
<1>3. PICK l \in {"release", "expired", "orphans", "idle"} :
          /\ pc' = [pc EXCEPT ![a] = l]
          /\ a = Worker => l \in {"release", "expired"}
          /\ a = Shutdown => l = "orphans"
          /\ a \in Callers \cup Completers => l \in {"release", "idle"}
  BY DEF Released, Goto, WorkShape
<1> QED BY <1>1, <1>2, <1>3

(* Every step keeps every variable within its type.  Who releases a        *)
(* reference has one to release (WorkShape).                               *)
LEMMA TypeStep == ASSUME TypeOK, WorkShape, [Next]_vars PROVE TypeOK'
<1>0. \A a \in Actors : pc[a] \in Holding => on[a] \in Completions
  BY AtWork
<1> USE CompletionAssumption
    DEF TypeOK, lifeVars, objVars, countVars, Goto, Actors, Shutdown, Labels,
        CallerLabels, CompleterLabels, WorkerLabels, ShutdownLabels
<1>1. ASSUME NEW c \in Callers, EnqueueAndWait(c) PROVE TypeOK'
  BY <1>1 DEF EnqueueAndWait
<1>2. ASSUME NEW c \in Callers, AcquireRundown(c) PROVE TypeOK'
  BY <1>2 DEF AcquireRundown
<1>3. ASSUME NEW c \in Callers, EnqueueRefused(c) PROVE TypeOK'
  BY <1>3 DEF EnqueueRefused
<1>4. ASSUME NEW c \in Callers, AllocatePendingCompletion(c) PROVE TypeOK'
  <2>1. PICK x \in Free : alive' = alive \cup {x} /\ on' = [on EXCEPT ![c] = x]
                        /\ refCount' = [refCount EXCEPT ![x] = 2]
                        /\ entry' = [entry EXCEPT ![x] = "self"]
    <3>1. (CHOOSE y \in Free : TRUE) \in Free
      BY <1>4 DEF AllocatePendingCompletion
    <3> QED BY <1>4, <3>1 DEF AllocatePendingCompletion
  <2>2. x \in Completions
    BY DEF Free
  <2> QED BY <1>4, <2>1, <2>2 DEF AllocatePendingCompletion
<1>5. ASSUME NEW c \in Callers, RegisterCompletion(c) PROVE TypeOK'
  <2>1. on[c] \in Completions
    BY <1>5, <1>0 DEF RegisterCompletion, Holding
  <2>2. /\ entry' \in [Completions -> {"self", "pending", "expired", "stale",
                                    "orphan"}]
        /\ pendingCount' \in Int /\ outstanding' \in Int
        /\ pc' = [pc EXCEPT ![c] = "enqueue"]
    BY <1>5, <2>1 DEF RegisterCompletion
  <2>3. /\ allReleased' \in BOOLEAN
        /\ UNCHANGED <<lifeVars, protected, alive, refCount, state, event,
                       answered, corrupted, on, todo, torn>>
    BY <1>5 DEF RegisterCompletion
  <2> QED BY <2>2, <2>3
<1>6. ASSUME NEW c \in Callers, EnqueueBlockingMessage(c) PROVE TypeOK'
  BY <1>6 DEF EnqueueBlockingMessage
<1>7. ASSUME NEW c \in Callers, WaitSignalled(c) PROVE TypeOK'
  BY <1>7 DEF WaitSignalled
<1>8. ASSUME NEW c \in Callers, WaitTimeout(c) PROVE TypeOK'
  BY <1>8 DEF WaitTimeout
<1>9. ASSUME NEW c \in Callers, ReadCompletionState(c) PROVE TypeOK'
  BY <1>9 DEF ReadCompletionState
<1>10. ASSUME NEW c \in Callers, DetachPendingCompletion(c) PROVE TypeOK'
  BY <1>10, <1>0 DEF DetachPendingCompletion, Holding
<1>11. ASSUME NEW k \in Completers, FindAndReference(k) PROVE TypeOK'
  BY <1>11 DEF FindAndReference, Pending
<1>12. ASSUME NEW k \in Completers, CompleteExchange(k) PROVE TypeOK'
  BY <1>12 DEF CompleteExchange
<1>13. ASSUME NEW k \in Completers, Respond(k) PROVE TypeOK'
  BY <1>13, <1>0 DEF Respond, Holding
<1>14. ASSUME NEW k \in Completers, SignalWaiter(k) PROVE TypeOK'
  BY <1>14, <1>0 DEF SignalWaiter, Holding
<1>15. ASSUME NEW a \in Actors, ReleasePendingCompletion(a) PROVE TypeOK'
  BY <1>15 DEF ReleasePendingCompletion, Released, WorkShape, Owing, Freed,
     Holding
<1>16. ASSUME NEW a \in Actors, CountReleased(a) PROVE TypeOK'
  <2>1. pc[a] = "count" /\ todo[a] >= 1 /\ outstanding' \in Int
    BY <1>16 DEF CountReleased, WorkShape, Owing
  <2>2. CASE outstanding = 1
    BY <1>16, <2>1, <2>2 DEF CountReleased
  <2>3. CASE outstanding # 1
    <3>1. Released(a)
      BY <1>16, <2>3 DEF CountReleased
    <3> QED BY <1>16, <2>1, <3>1, ReleasedType DEF CountReleased
  <2> QED BY <2>2, <2>3
<1>17. ASSUME NEW a \in Actors, SignalAllReleased(a) PROVE TypeOK'
  <2>1. pc[a] = "signal" /\ todo[a] >= 1 /\ Released(a)
    BY <1>17 DEF SignalAllReleased, WorkShape, Owing
  <2> QED BY <1>17, <2>1, ReleasedType DEF SignalAllReleased
<1>18. CASE CleanupExpired
  BY <1>18 DEF CleanupExpired, Pending
<1>19. CASE ExpiredTest
  BY <1>19 DEF ExpiredTest
<1>20. CASE ExpiredUnlink
  <2>1. CASE Expired = {}
    BY <1>20, <2>1 DEF ExpiredUnlink
  <2>2. CASE Expired # {}
    BY <1>20, <2>2 DEF ExpiredUnlink, Expired
  <2> QED BY <2>1, <2>2
<1>21. CASE ExpiredRelink
  BY <1>21, <1>0 DEF ExpiredRelink, Holding
<1>22. CASE WorkerExit
  BY <1>22 DEF WorkerExit
<1>23. CASE ShutdownBegin
  BY <1>23 DEF ShutdownBegin
<1>24. CASE ShutdownLock
  BY <1>24 DEF ShutdownLock
<1>25. CASE ShutdownCancel
  BY <1>25 DEF ShutdownCancel, Pending
<1>26. CASE ShutdownDrop
  <2>1. on[Shutdown] \in Completions
    BY <1>26, <1>0 DEF ShutdownDrop, Holding
  <2> QED BY <1>26, <2>1 DEF ShutdownDrop
<1>27. CASE ShutdownTestOutstanding
  BY <1>27 DEF ShutdownTestOutstanding
<1>28. CASE ShutdownClearEvent
  BY <1>28 DEF ShutdownClearEvent
<1>29. CASE ShutdownFreeOrphan
  BY <1>29 DEF ShutdownFreeOrphan, Orphans
<1>30. CASE ShutdownOrphansFreed
  BY <1>30 DEF ShutdownOrphansFreed
<1>31. CASE ShutdownDrain
  BY <1>31 DEF ShutdownDrain
<1>32. CASE ShutdownDelete
  BY <1>32 DEF ShutdownDelete
<1>33. CASE UNCHANGED vars
  BY <1>33 DEF vars
<1> QED
  BY <1>1, <1>2, <1>3, <1>4, <1>5, <1>6, <1>7, <1>8, <1>9, <1>10, <1>11, <1>12,
     <1>13, <1>14, <1>15, <1>16, <1>17, <1>18, <1>19, <1>20, <1>21, <1>22,
     <1>23, <1>24, <1>25, <1>26, <1>27, <1>28, <1>29, <1>30, <1>31, <1>32,
     <1>33
  DEF Next, CallerStep, CompleterStep, WorkerStep, ShutdownStep, ReleaseStep,
      Actors, Stopped

(* Who works on a completion, and what it still owes, as actors move.      *)
LEMMA WorkStep == ASSUME TypeOK, WorkShape, [Next]_vars PROVE WorkShape'
<1> USE CompletionAssumption
    DEF TypeOK, WorkShape, lifeVars, objVars, countVars, Goto, Actors,
        Shutdown, Labels, CallerLabels, CompleterLabels, WorkerLabels,
        ShutdownLabels, Holding, Owing
<1>1. ASSUME NEW c \in Callers, EnqueueAndWait(c) PROVE WorkShape'
  BY <1>1 DEF EnqueueAndWait
<1>2. ASSUME NEW c \in Callers, AcquireRundown(c) PROVE WorkShape'
  BY <1>2 DEF AcquireRundown
<1>3. ASSUME NEW c \in Callers, EnqueueRefused(c) PROVE WorkShape'
  BY <1>3 DEF EnqueueRefused
<1>4. ASSUME NEW c \in Callers, AllocatePendingCompletion(c) PROVE WorkShape'
  <2>1. PICK x \in Free : alive' = alive \cup {x} /\ on' = [on EXCEPT ![c] = x]
                        /\ refCount' = [refCount EXCEPT ![x] = 2]
                        /\ entry' = [entry EXCEPT ![x] = "self"]
    <3>1. (CHOOSE y \in Free : TRUE) \in Free
      BY <1>4 DEF AllocatePendingCompletion
    <3> QED BY <1>4, <3>1 DEF AllocatePendingCompletion
  <2>2. x \in Completions
    BY DEF Free
  <2> QED BY <1>4, <2>1, <2>2 DEF AllocatePendingCompletion
<1>5. ASSUME NEW c \in Callers, RegisterCompletion(c) PROVE WorkShape'
  BY <1>5 DEF RegisterCompletion
<1>6. ASSUME NEW c \in Callers, EnqueueBlockingMessage(c) PROVE WorkShape'
  BY <1>6 DEF EnqueueBlockingMessage
<1>7. ASSUME NEW c \in Callers, WaitSignalled(c) PROVE WorkShape'
  BY <1>7 DEF WaitSignalled
<1>8. ASSUME NEW c \in Callers, WaitTimeout(c) PROVE WorkShape'
  BY <1>8 DEF WaitTimeout
<1>9. ASSUME NEW c \in Callers, ReadCompletionState(c) PROVE WorkShape'
  BY <1>9 DEF ReadCompletionState
<1>10. ASSUME NEW c \in Callers, DetachPendingCompletion(c) PROVE WorkShape'
  BY <1>10 DEF DetachPendingCompletion
<1>11. ASSUME NEW k \in Completers, FindAndReference(k) PROVE WorkShape'
  BY <1>11 DEF FindAndReference, Pending
<1>12. ASSUME NEW k \in Completers, CompleteExchange(k) PROVE WorkShape'
  <2>1. PICK l \in {"respond", "release"} : Goto(k, l)
    BY <1>12 DEF CompleteExchange
  <2>2. UNCHANGED <<on, todo>> /\ pc[k] = "complete"
    BY <1>12 DEF CompleteExchange
  <2>3. todo[k] >= 1
    BY <2>2 DEF WorkShape
  <2> QED BY <2>1, <2>2, <2>3
<1>13. ASSUME NEW k \in Completers, Respond(k) PROVE WorkShape'
  BY <1>13 DEF Respond
<1>14. ASSUME NEW k \in Completers, SignalWaiter(k) PROVE WorkShape'
  BY <1>14 DEF SignalWaiter
<1>15. ASSUME NEW a \in Actors, ReleasePendingCompletion(a) PROVE WorkShape'
  BY <1>15 DEF ReleasePendingCompletion, Released, Freed
<1>16. ASSUME NEW a \in Actors, CountReleased(a) PROVE WorkShape'
  BY <1>16 DEF CountReleased, Released
<1>17. ASSUME NEW a \in Actors, SignalAllReleased(a) PROVE WorkShape'
  BY <1>17 DEF SignalAllReleased, Released
<1>18. CASE CleanupExpired
  BY <1>18 DEF CleanupExpired
<1>19. CASE ExpiredTest
  BY <1>19 DEF ExpiredTest
<1>20. CASE ExpiredUnlink
  BY <1>20 DEF ExpiredUnlink, Expired
<1>21. CASE ExpiredRelink
  BY <1>21 DEF ExpiredRelink
<1>22. CASE WorkerExit
  BY <1>22 DEF WorkerExit
<1>23. CASE ShutdownBegin
  BY <1>23 DEF ShutdownBegin
<1>24. CASE ShutdownLock
  BY <1>24 DEF ShutdownLock
<1>25. CASE ShutdownCancel
  BY <1>25 DEF ShutdownCancel, Pending
<1>26. CASE ShutdownDrop
  BY <1>26 DEF ShutdownDrop
<1>27. CASE ShutdownTestOutstanding
  BY <1>27 DEF ShutdownTestOutstanding
<1>28. CASE ShutdownClearEvent
  BY <1>28 DEF ShutdownClearEvent
<1>29. CASE ShutdownFreeOrphan
  BY <1>29 DEF ShutdownFreeOrphan, Orphans
<1>30. CASE ShutdownOrphansFreed
  BY <1>30 DEF ShutdownOrphansFreed
<1>31. CASE ShutdownDrain
  BY <1>31 DEF ShutdownDrain
<1>32. CASE ShutdownDelete
  BY <1>32 DEF ShutdownDelete
<1>33. CASE UNCHANGED vars
  BY <1>33 DEF vars
<1> QED
  BY <1>1, <1>2, <1>3, <1>4, <1>5, <1>6, <1>7, <1>8, <1>9, <1>10, <1>11, <1>12,
     <1>13, <1>14, <1>15, <1>16, <1>17, <1>18, <1>19, <1>20, <1>21, <1>22,
     <1>23, <1>24, <1>25, <1>26, <1>27, <1>28, <1>29, <1>30, <1>31, <1>32,
     <1>33
  DEF Next, CallerStep, CompleterStep, WorkerStep, ShutdownStep, ReleaseStep,
      Actors, Stopped

(* There are finitely many actors and completions, so that they can be     *)
(* counted.                                                                *)
LEMMA Finite ==
    /\ \A S \in SUBSET Actors : IsFiniteSet(S) /\ Cardinality(S) \in Nat
    /\ \A S \in SUBSET Completions : IsFiniteSet(S) /\ Cardinality(S) \in Nat
<1>1. IsFiniteSet(Actors)
  <2>1. IsFiniteSet(Callers \cup Completers)
    BY CompletionAssumption, FS_Union
  <2>2. IsFiniteSet((Callers \cup Completers) \cup {Worker})
    BY <2>1, FS_AddElement
  <2>3. IsFiniteSet(((Callers \cup Completers) \cup {Worker}) \cup {Shutdown})
    BY <2>2, FS_AddElement
  <2> QED BY <2>3 DEF Actors
<1> QED BY <1>1, CompletionAssumption, FS_Subset, FS_CardinalityType

(* One for a member, none for another.                                     *)
Bit(b) == IF b THEN 1 ELSE 0

(* What one element counts for.                                            *)
LEMMA Without ==
    ASSUME NEW S, NEW a, IsFiniteSet(S)
    PROVE  /\ IsFiniteSet(S \ {a})
           /\ Cardinality(S) \in Nat /\ Cardinality(S \ {a}) \in Nat
           /\ Cardinality(S) = Cardinality(S \ {a}) + Bit(a \in S)
<1>1. /\ Cardinality(S) \in Nat
      /\ IsFiniteSet(S \ {a}) /\ Cardinality(S \ {a}) \in Nat
  BY FS_CardinalityType, FS_RemoveElement
<1>2. Cardinality(S \ {a}) = Cardinality(S) - Bit(a \in S)
  BY <1>1, FS_RemoveElement DEF Bit
<1> QED BY <1>1, <1>2 DEF Bit

(* Sets that agree outside one element.                                    *)
LEMMA OneElement ==
    ASSUME NEW S, NEW T, NEW a, IsFiniteSet(S), IsFiniteSet(T),
           S \ {a} = T \ {a}
    PROVE  Cardinality(T) = Cardinality(S) - Bit(a \in S) + Bit(a \in T)
<1>1. /\ Cardinality(S) \in Nat /\ Cardinality(S \ {a}) \in Nat
      /\ Cardinality(S) = Cardinality(S \ {a}) + Bit(a \in S)
  BY Without
<1>2. /\ Cardinality(T) \in Nat /\ Cardinality(S \ {a}) \in Nat
      /\ Cardinality(T) = Cardinality(S \ {a}) + Bit(a \in T)
  BY Without
<1> QED BY <1>1, <1>2 DEF Bit

(* The references one actor owns on x, and the one of the lists.           *)
Weight(a, x) == Bit(a \in Holders(x)) + Bit(a \in ListReferences(x))
Link(x) == Bit(x \in Pending \cup Expired)

(* Each of them is one of the references that are counted.                 *)
LEMMA RefsBound ==
    ASSUME NEW x
    PROVE  /\ Refs(x) \in Nat
           /\ \A a \in Actors : Refs(x) >= Weight(a, x) + Link(x)
           /\ \A a, b \in Actors :
                 a # b => Refs(x) >= Weight(a, x) + Weight(b, x) + Link(x)
<1> DEFINE H == Holders(x)
           L == ListReferences(x)
<1>1. H \in SUBSET Actors /\ L \in SUBSET Actors
  BY DEF Holders, ListReferences, Actors
<1>2. Refs(x) = Cardinality(H) + Cardinality(L) + Link(x)
  BY DEF Refs, Link, Bit
<1>3. \A a : Weight(a, x) = Bit(a \in H) + Bit(a \in L)
  BY DEF Weight
<1>4. Link(x) \in Nat
  BY DEF Link, Bit
<1> HIDE DEF H, L
<1>5. \A S \in SUBSET Actors : \A a, b \in Actors :
          /\ Cardinality(S) \in Nat
          /\ Cardinality(S) >= Bit(a \in S)
          /\ a # b => Cardinality(S) >= Bit(a \in S) + Bit(b \in S)
  <2> TAKE S \in SUBSET Actors
  <2> TAKE a, b \in Actors
  <2>1. IsFiniteSet(S)
    BY Finite
  <2>2. /\ IsFiniteSet(S \ {a})
        /\ Cardinality(S) \in Nat /\ Cardinality(S \ {a}) \in Nat
        /\ Cardinality(S) = Cardinality(S \ {a}) + Bit(a \in S)
    BY <2>1, Without
  <2>3. /\ Cardinality((S \ {a}) \ {b}) \in Nat
        /\ Cardinality(S \ {a}) = Cardinality((S \ {a}) \ {b})
                                  + Bit(b \in S \ {a})
    BY <2>2, Without
  <2> QED BY <2>2, <2>3 DEF Bit
<1>6. \A a \in Actors : /\ Cardinality(H) \in Nat /\ Cardinality(L) \in Nat
                        /\ Cardinality(H) >= Bit(a \in H)
                        /\ Cardinality(L) >= Bit(a \in L)
  BY <1>1, <1>5
<1>7. \A a, b \in Actors : a # b =>
          /\ Cardinality(H) >= Bit(a \in H) + Bit(b \in H)
          /\ Cardinality(L) >= Bit(a \in L) + Bit(b \in L)
  BY <1>1, <1>5
<1>8. Refs(x) \in Nat
  BY <1>1, <1>2, <1>4, Finite
<1>9. ASSUME NEW a \in Actors PROVE Refs(x) >= Weight(a, x) + Link(x)
  BY <1>2, <1>3, <1>4, <1>6 DEF Bit
<1>10. ASSUME NEW a \in Actors, NEW b \in Actors, a # b
       PROVE  Refs(x) >= Weight(a, x) + Weight(b, x) + Link(x)
  BY <1>2, <1>3, <1>4, <1>6, <1>7, <1>10 DEF Bit
<1> QED BY <1>8, <1>9, <1>10

(* A step of one actor changes the references by what it owns before and   *)
(* after, and by what the lists own.                                       *)
LEMMA RefsMove ==
    ASSUME NEW a \in Actors, NEW x,
           \A b \in Actors \ {a} : /\ pc'[b] = pc[b] /\ on'[b] = on[b]
                                   /\ todo'[b] = todo[b]
    PROVE  Refs(x)' = Refs(x) - Weight(a, x) + Weight(a, x)'
                              - Link(x) + Link(x)'
<1> DEFINE H == Holders(x)
           L == ListReferences(x)
<1>1. /\ IsFiniteSet(H) /\ IsFiniteSet(L) /\ IsFiniteSet(H') /\ IsFiniteSet(L')
      /\ Cardinality(H) \in Nat /\ Cardinality(L) \in Nat
      /\ Cardinality(H') \in Nat /\ Cardinality(L') \in Nat
  BY Finite DEF Holders, ListReferences, Actors
<1>2. H \ {a} = H' \ {a}
  BY DEF Holders
<1>3. L \ {a} = L' \ {a}
  BY DEF ListReferences, Actors
<1>4. /\ Cardinality(H') = Cardinality(H) - Bit(a \in H) + Bit(a \in H')
      /\ Cardinality(L') = Cardinality(L) - Bit(a \in L) + Bit(a \in L')
  <2> HIDE DEF H, L
  <2> QED BY <1>1, <1>2, <1>3, OneElement
<1>5. /\ Refs(x) = Cardinality(H) + Cardinality(L) + Link(x)
      /\ Refs(x)' = Cardinality(H') + Cardinality(L') + Link(x)'
  BY DEF Refs, Link, Bit
<1>6. /\ Weight(a, x) = Bit(a \in H) + Bit(a \in L)
      /\ Weight(a, x)' = Bit(a \in H') + Bit(a \in L')
  BY DEF Weight
<1>7. Link(x) \in Nat /\ Link(x)' \in Nat
  BY DEF Link, Bit
<1> HIDE DEF H, L
<1> QED BY <1>1, <1>4, <1>5, <1>6, <1>7 DEF Bit

(* An actor that works on a completion keeps it allocated, and its         *)
(* references are among the ones that are counted; the last reference is   *)
(* its own only when nobody else works on the completion and no list has   *)
(* it.                                                                     *)
LEMMA HolderAlive ==
    ASSUME TypeOK, WorkShape, RefCountExact,
           NEW a \in Actors, pc[a] \in Holding
    PROVE  /\ on[a] \in Completions /\ on[a] \in alive
           /\ refCount[on[a]] >= Weight(a, on[a]) + Link(on[a])
           /\ Weight(a, on[a]) >= 1
           /\ refCount[on[a]] = 1 =>
                 /\ \A b \in Actors :
                       pc[b] \in Holding /\ on[b] = on[a] => b = a
                 /\ on[a] \notin Pending \cup Expired
<1>1. on[a] \in Completions
  BY AtWork
<1>2. \A b \in Actors : pc[b] \in Holding /\ on[b] = on[a] =>
         Weight(b, on[a]) >= 1
  BY DEF Weight, Holders, Bit
<1>3. \A b \in Actors : Weight(b, on[a]) \in Nat
  BY DEF Weight, Bit
<1>4. Link(on[a]) \in Nat /\ (on[a] \in Pending \cup Expired => Link(on[a]) = 1)
  BY DEF Link, Bit
<1>5. /\ Refs(on[a]) \in Nat
      /\ Refs(on[a]) >= Weight(a, on[a]) + Link(on[a])
      /\ \A b \in Actors : b # a =>
            Refs(on[a]) >= Weight(a, on[a]) + Weight(b, on[a]) + Link(on[a])
  BY RefsBound
<1>6. on[a] \in alive /\ refCount[on[a]] = Refs(on[a])
  BY <1>1, <1>2, <1>3, <1>4, <1>5 DEF RefCountExact
<1> QED BY <1>1, <1>2, <1>3, <1>4, <1>5, <1>6

(* What is in a list is allocated.                                         *)
LEMMA LinkedAlive ==
    ASSUME RefCountExact, NEW x \in Pending \cup Expired
    PROVE  x \in alive
<1>1. Link(x) = 1 /\ x \in Completions
  BY DEF Link, Bit, Pending, Expired
<1>2. Refs(x) \in Nat /\ Refs(x) >= Weight(Worker, x) + Link(x)
  BY RefsBound DEF Actors
<1>3. Weight(Worker, x) \in Nat
  BY DEF Weight, Bit
<1> QED BY <1>1, <1>2, <1>3 DEF RefCountExact

(* The references on x, none on free memory.                               *)
Counted(x) == IF x \in alive THEN refCount[x] ELSE 0

(* A step of actor a that changes the count of every completion by as much *)
(* as it changes what a and the lists own.                                 *)
Balanced(a) ==
    /\ \A b \in Actors \ {a} : /\ pc'[b] = pc[b] /\ on'[b] = on[b]
                              /\ todo'[b] = todo[b]
    /\ ~corrupted'
    /\ \A x \in Completions :
          Counted(x)' = Counted(x) - Weight(a, x) + Weight(a, x)'
                                   - Link(x) + Link(x)'

(* Such a step keeps the references exact.                                 *)
LEMMA BalancedExact ==
    ASSUME TypeOK', RefCountExact, NEW a \in Actors, Balanced(a)
    PROVE  RefCountExact'
<1>1. ~corrupted'
  BY DEF Balanced
<1>2. ASSUME NEW x \in Completions
      PROVE  IF x \in alive' THEN refCount'[x] = Refs(x)' ELSE Refs(x)' = 0
  <2>1. Counted(x) = Refs(x)
    BY DEF Counted, RefCountExact
  <2>2. Refs(x)' = Refs(x) - Weight(a, x) + Weight(a, x)' - Link(x) + Link(x)'
    BY RefsMove DEF Balanced
  <2>3. Counted(x)' = Refs(x)'
    BY <2>1, <2>2 DEF Balanced
  <2> QED BY <2>3 DEF Counted
<1> QED BY <1>1, <1>2 DEF RefCountExact

(* Every step is balanced when no caller detaches a completion the worker  *)
(* is still busy with: in particular the worker never finds its list empty *)
(* after it has tested it, and nobody releases a freed completion.         *)
LEMMA RefsStep ==
    ASSUME DetachDuringExpiry = FALSE, TypeOK, TypeOK', WorkShape, OwnerShape,
           LinkShape, RefCountExact, [Next]_vars
    PROVE  RefCountExact'
<1>0. \A a \in Actors : pc[a] \in Holding =>
         /\ on[a] \in Completions /\ on[a] \in alive
         /\ refCount[on[a]] >= Weight(a, on[a]) + Link(on[a])
         /\ refCount[on[a]] = 1 => on[a] \notin Pending \cup Expired
  BY HolderAlive
<1>a. ~corrupted /\ \A x \in Pending \cup Expired : x \in alive
  BY LinkedAlive DEF RefCountExact
<1> USE CompletionAssumption, <1>0, <1>a
    DEF TypeOK, lifeVars, objVars, countVars, Goto, Actors, Shutdown, Labels,
        Holding, Balanced, Counted, Weight, Link, Bit, Holders,
        ListReferences, Pending, Expired, Orphans, Free
<1>1. ASSUME NEW c \in Callers, EnqueueAndWait(c) PROVE Balanced(c)
  BY <1>1 DEF EnqueueAndWait
<1>2. ASSUME NEW c \in Callers, AcquireRundown(c) PROVE Balanced(c)
  BY <1>2 DEF AcquireRundown
<1>3. ASSUME NEW c \in Callers, EnqueueRefused(c) PROVE Balanced(c)
  BY <1>3 DEF EnqueueRefused
<1>4. ASSUME NEW c \in Callers, AllocatePendingCompletion(c) PROVE Balanced(c)
  <2>1. PICK x \in Free :
            /\ alive' = alive \cup {x}
            /\ refCount' = [refCount EXCEPT ![x] = 2]
            /\ entry' = [entry EXCEPT ![x] = "self"]
            /\ on' = [on EXCEPT ![c] = x]
    <3>1. (CHOOSE y \in Free : TRUE) \in Free
      BY <1>4 DEF AllocatePendingCompletion
    <3> QED BY <1>4, <3>1 DEF AllocatePendingCompletion
  <2>2. /\ pc[c] = "limit" /\ pc' = [pc EXCEPT ![c] = "register"]
        /\ UNCHANGED <<todo, corrupted>>
    BY <1>4 DEF AllocatePendingCompletion
  <2>3. \A y \in Completions : y # x =>
            /\ Counted(y)' = Counted(y) /\ Weight(c, y)' = Weight(c, y)
            /\ Link(y)' = Link(y)
    BY <2>1, <2>2
  <2>4. /\ Counted(x) = 0 /\ Weight(c, x) = 0 /\ Link(x) = 0
        /\ Counted(x)' = 2 /\ Weight(c, x)' = 2 /\ Link(x)' = 0
    BY <2>1, <2>2
  <2>5. \A b \in Actors \ {c} : /\ pc'[b] = pc[b] /\ on'[b] = on[b]
                               /\ todo'[b] = todo[b]
    BY <2>1, <2>2
  <2> QED BY <2>2, <2>3, <2>4, <2>5
<1>5. ASSUME NEW c \in Callers, RegisterCompletion(c) PROVE Balanced(c)
  BY <1>5 DEF RegisterCompletion, LinkShape
<1>6. ASSUME NEW c \in Callers, EnqueueBlockingMessage(c) PROVE Balanced(c)
  BY <1>6 DEF EnqueueBlockingMessage
<1>7. ASSUME NEW c \in Callers, WaitSignalled(c) PROVE Balanced(c)
  BY <1>7 DEF WaitSignalled
<1>8. ASSUME NEW c \in Callers, WaitTimeout(c) PROVE Balanced(c)
  BY <1>8 DEF WaitTimeout
<1>9. ASSUME NEW c \in Callers, ReadCompletionState(c) PROVE Balanced(c)
  BY <1>9 DEF ReadCompletionState, WorkShape
<1>10. ASSUME NEW c \in Callers, DetachPendingCompletion(c) PROVE Balanced(c)
  <2>1. CASE entry[on[c]] = "self"
    BY <1>10, <2>1 DEF DetachPendingCompletion, OwnerShape, Owing
  <2>2. CASE entry[on[c]] = "pending"
    BY <1>10, <2>2 DEF DetachPendingCompletion
  <2> QED BY <1>10, <2>1, <2>2 DEF DetachPendingCompletion
<1>11. ASSUME NEW k \in Completers, FindAndReference(k) PROVE Balanced(k)
  <2>1. PICK x \in Pending :
            /\ refCount' = [refCount EXCEPT ![x] = @ + 1]
            /\ on' = [on EXCEPT ![k] = x]
    BY <1>11 DEF FindAndReference
  <2>2. /\ pc[k] = "idle" /\ pc' = [pc EXCEPT ![k] = "complete"]
        /\ todo' = [todo EXCEPT ![k] = 1]
        /\ UNCHANGED <<alive, entry, corrupted>>
    BY <1>11 DEF FindAndReference
  <2> QED BY <2>1, <2>2
<1>12. ASSUME NEW k \in Completers, CompleteExchange(k) PROVE Balanced(k)
  BY <1>12 DEF CompleteExchange
<1>13. ASSUME NEW k \in Completers, Respond(k) PROVE Balanced(k)
  BY <1>13 DEF Respond
<1>14. ASSUME NEW k \in Completers, SignalWaiter(k) PROVE Balanced(k)
  BY <1>14 DEF SignalWaiter
<1>15. ASSUME NEW a \in Actors, ReleasePendingCompletion(a) PROVE Balanced(a)
  <2>1. on[a] \in alive /\ pc[a] = "release"
    BY <1>15 DEF ReleasePendingCompletion
  <2>2. CASE refCount[on[a]] = 1
    <3>1. UNCHANGED <<on, todo, entry, corrupted>> /\ alive' = alive \ {on[a]}
      BY <1>15, <2>1, <2>2 DEF ReleasePendingCompletion, Freed
    <3>2. /\ refCount' = [refCount EXCEPT ![on[a]] = @ - 1]
          /\ pc' = [pc EXCEPT ![a] = "count"]
      BY <1>15, <2>1, <2>2 DEF ReleasePendingCompletion
    <3> QED BY <2>1, <2>2, <3>1, <3>2 DEF OwnerShape, Owing
  <2>3. CASE refCount[on[a]] # 1
    <3>1. /\ UNCHANGED <<alive, entry, corrupted>> /\ Released(a)
          /\ refCount' = [refCount EXCEPT ![on[a]] = @ - 1]
      BY <1>15, <2>1, <2>3 DEF ReleasePendingCompletion
    <3> QED BY <2>1, <2>3, <3>1 DEF Released, OwnerShape, Owing
  <2> QED BY <2>2, <2>3
<1>16. ASSUME NEW a \in Actors, CountReleased(a) PROVE Balanced(a)
  BY <1>16 DEF CountReleased, Released, OwnerShape, Owing
<1>17. ASSUME NEW a \in Actors, SignalAllReleased(a) PROVE Balanced(a)
  BY <1>17 DEF SignalAllReleased, Released, OwnerShape, Owing
<1>18. ASSUME CleanupExpired PROVE Balanced(Worker)
  BY <1>18 DEF CleanupExpired
<1>19. ASSUME ExpiredTest PROVE Balanced(Worker)
  BY <1>19 DEF ExpiredTest
<1>20. ASSUME ExpiredUnlink PROVE Balanced(Worker)
  BY <1>20 DEF ExpiredUnlink, LinkShape
<1>21. ASSUME ExpiredRelink PROVE Balanced(Worker)
  BY <1>21 DEF ExpiredRelink, LinkShape
<1>22. ASSUME WorkerExit PROVE Balanced(Worker)
  BY <1>22 DEF WorkerExit
<1>23. ASSUME ShutdownBegin PROVE Balanced(Shutdown)
  BY <1>23 DEF ShutdownBegin
<1>24. ASSUME ShutdownLock PROVE Balanced(Shutdown)
  BY <1>24 DEF ShutdownLock
<1>25. ASSUME ShutdownCancel PROVE Balanced(Shutdown)
  BY <1>25 DEF ShutdownCancel, Pending
<1>26. ASSUME ShutdownDrop PROVE Balanced(Shutdown)
  BY <1>26 DEF ShutdownDrop
<1>27. ASSUME ShutdownTestOutstanding PROVE Balanced(Shutdown)
  BY <1>27 DEF ShutdownTestOutstanding
<1>28. ASSUME ShutdownClearEvent PROVE Balanced(Shutdown)
  BY <1>28 DEF ShutdownClearEvent
<1>29. ASSUME ShutdownFreeOrphan PROVE Balanced(Shutdown)
  BY <1>29 DEF ShutdownFreeOrphan, Orphans
<1>30. ASSUME ShutdownOrphansFreed PROVE Balanced(Shutdown)
  BY <1>30 DEF ShutdownOrphansFreed
<1>31. ASSUME ShutdownDrain PROVE Balanced(Shutdown)
  BY <1>31 DEF ShutdownDrain
<1>32. ASSUME ShutdownDelete PROVE Balanced(Shutdown)
  BY <1>32 DEF ShutdownDelete
<1>33. ASSUME UNCHANGED vars PROVE Balanced(Shutdown)
  BY <1>33 DEF vars
<1> HIDE <1>0, <1>a
         DEF Balanced, Counted, Weight, Link, Bit, Holders, ListReferences,
             Pending, Expired, TypeOK, Holding
<1> QED
  BY <1>1, <1>2, <1>3, <1>4, <1>5, <1>6, <1>7, <1>8, <1>9, <1>10, <1>11, <1>12,
     <1>13, <1>14, <1>15, <1>16, <1>17, <1>18, <1>19, <1>20, <1>21, <1>22,
     <1>23, <1>24, <1>25, <1>26, <1>27, <1>28, <1>29, <1>30, <1>31, <1>32,
     <1>33, BalancedExact
  DEF Next, CallerStep, CompleterStep, WorkerStep, ShutdownStep, ReleaseStep,
      Stopped

(* A completion just allocated is nobody else's.                           *)
LEMMA OwnerStep ==
    ASSUME DetachDuringExpiry = FALSE, TypeOK, WorkShape, OwnerShape,
           LinkShape, AnswerShape, RefCountExact, CountersExact, [Next]_vars
    PROVE  OwnerShape'
<1>0. \A a \in Actors : pc[a] \in Holding =>
         /\ on[a] \in Completions /\ on[a] \in alive
         /\ refCount[on[a]] = 1 =>
               /\ \A b \in Actors :
                     pc[b] \in Holding /\ on[b] = on[a] => b = a
               /\ on[a] \notin Pending \cup Expired
  BY HolderAlive
<1>a. \A x \in Pending \cup Expired : x \in alive
  BY LinkedAlive
<1> USE CompletionAssumption, <1>0, <1>a
    DEF TypeOK, lifeVars, objVars, countVars, Goto, Actors, Shutdown, Labels,
        Holding, Pending, Expired, Orphans, Free, OwnerShape, Owing
<1>1. ASSUME NEW c \in Callers, EnqueueAndWait(c) PROVE OwnerShape'
  BY <1>1 DEF EnqueueAndWait
<1>2. ASSUME NEW c \in Callers, AcquireRundown(c) PROVE OwnerShape'
  BY <1>2 DEF AcquireRundown
<1>3. ASSUME NEW c \in Callers, EnqueueRefused(c) PROVE OwnerShape'
  BY <1>3 DEF EnqueueRefused
<1>4. ASSUME NEW c \in Callers, AllocatePendingCompletion(c) PROVE OwnerShape'
  <2>1. PICK x \in Free :
            /\ alive' = alive \cup {x}
            /\ refCount' = [refCount EXCEPT ![x] = 2]
            /\ entry' = [entry EXCEPT ![x] = "self"]
            /\ on' = [on EXCEPT ![c] = x]
    <3>1. (CHOOSE y \in Free : TRUE) \in Free
      BY <1>4 DEF AllocatePendingCompletion
    <3> QED BY <1>4, <3>1 DEF AllocatePendingCompletion
  <2> QED BY <1>4, <2>1 DEF AllocatePendingCompletion
<1>5. ASSUME NEW c \in Callers, RegisterCompletion(c) PROVE OwnerShape'
  BY <1>5 DEF RegisterCompletion
<1>6. ASSUME NEW c \in Callers, EnqueueBlockingMessage(c) PROVE OwnerShape'
  BY <1>6 DEF EnqueueBlockingMessage
<1>7. ASSUME NEW c \in Callers, WaitSignalled(c) PROVE OwnerShape'
  BY <1>7 DEF WaitSignalled
<1>8. ASSUME NEW c \in Callers, WaitTimeout(c) PROVE OwnerShape'
  BY <1>8 DEF WaitTimeout
<1>9. ASSUME NEW c \in Callers, ReadCompletionState(c) PROVE OwnerShape'
  BY <1>9 DEF ReadCompletionState
<1>10. ASSUME NEW c \in Callers, DetachPendingCompletion(c) PROVE OwnerShape'
  BY <1>10 DEF DetachPendingCompletion
<1>11. ASSUME NEW k \in Completers, FindAndReference(k) PROVE OwnerShape'
  BY <1>11 DEF FindAndReference
<1>12. ASSUME NEW k \in Completers, CompleteExchange(k) PROVE OwnerShape'
  BY <1>12 DEF CompleteExchange
<1>13. ASSUME NEW k \in Completers, Respond(k) PROVE OwnerShape'
  BY <1>13 DEF Respond
<1>14. ASSUME NEW k \in Completers, SignalWaiter(k) PROVE OwnerShape'
  BY <1>14 DEF SignalWaiter
<1>15. ASSUME NEW a \in Actors, ReleasePendingCompletion(a) PROVE OwnerShape'
  <2>1. on[a] \in alive /\ pc[a] = "release"
    BY <1>15 DEF ReleasePendingCompletion
  <2>2. CASE refCount[on[a]] = 1
    <3>1. todo[a] = 1
      <4>1. 1 >= Weight(a, on[a]) + Link(on[a])
        BY <2>1, <2>2, HolderAlive
      <4>2. Link(on[a]) \in Nat
        BY DEF Link, Bit
      <4>3. CASE todo[a] # 1
        <5>1. a \in Callers /\ todo[a] = 2
          BY <2>1, <4>3 DEF WorkShape
        <5>2. a \in Holders(on[a]) /\ a \in ListReferences(on[a])
          BY <2>1, <5>1 DEF Holders, ListReferences
        <5>3. Weight(a, on[a]) = 2
          BY <5>2 DEF Weight, Bit
        <5> QED BY <4>1, <4>2, <5>3
      <4> QED BY <4>3
    <3>2. /\ pc' = [pc EXCEPT ![a] = "count"]
          /\ UNCHANGED <<on, todo>>
      BY <1>15, <2>1, <2>2 DEF ReleasePendingCompletion
    <3> QED BY <2>1, <3>1, <3>2
  <2>3. CASE refCount[on[a]] # 1
    <3>1. UNCHANGED <<alive, entry>> /\ Released(a)
      BY <1>15, <2>1, <2>3 DEF ReleasePendingCompletion
    <3> QED BY <2>1, <3>1 DEF Released
  <2> QED BY <2>2, <2>3
<1>16. ASSUME NEW a \in Actors, CountReleased(a) PROVE OwnerShape'
  BY <1>16 DEF CountReleased, Released
<1>17. ASSUME NEW a \in Actors, SignalAllReleased(a) PROVE OwnerShape'
  BY <1>17 DEF SignalAllReleased, Released
<1>18. CASE CleanupExpired
  BY <1>18 DEF CleanupExpired
<1>19. CASE ExpiredTest
  BY <1>19 DEF ExpiredTest
<1>20. CASE ExpiredUnlink
  BY <1>20 DEF ExpiredUnlink
<1>21. CASE ExpiredRelink
  BY <1>21 DEF ExpiredRelink
<1>22. CASE WorkerExit
  BY <1>22 DEF WorkerExit
<1>23. CASE ShutdownBegin
  BY <1>23 DEF ShutdownBegin
<1>24. CASE ShutdownLock
  BY <1>24 DEF ShutdownLock
<1>25. CASE ShutdownCancel
  BY <1>25 DEF ShutdownCancel, Pending
<1>26. CASE ShutdownDrop
  BY <1>26 DEF ShutdownDrop
<1>27. CASE ShutdownTestOutstanding
  BY <1>27 DEF ShutdownTestOutstanding
<1>28. CASE ShutdownClearEvent
  BY <1>28 DEF ShutdownClearEvent
<1>29. CASE ShutdownFreeOrphan
  BY <1>29 DEF ShutdownFreeOrphan, Orphans
<1>30. CASE ShutdownOrphansFreed
  BY <1>30 DEF ShutdownOrphansFreed
<1>31. CASE ShutdownDrain
  BY <1>31 DEF ShutdownDrain
<1>32. CASE ShutdownDelete
  BY <1>32 DEF ShutdownDelete
<1>33. CASE UNCHANGED vars
  BY <1>33 DEF vars
<1> HIDE <1>0, <1>a DEF TypeOK, Holding, OwnerShape
<1> QED
  BY <1>1, <1>2, <1>3, <1>4, <1>5, <1>6, <1>7, <1>8, <1>9, <1>10, <1>11, <1>12,
     <1>13, <1>14, <1>15, <1>16, <1>17, <1>18, <1>19, <1>20, <1>21, <1>22,
     <1>23, <1>24, <1>25, <1>26, <1>27, <1>28, <1>29, <1>30, <1>31, <1>32,
     <1>33
  DEF Next, CallerStep, CompleterStep, WorkerStep, ShutdownStep, ReleaseStep,
      Stopped

(* Nobody but the worker takes an entry off its list of expired ones, and  *)
(* nobody but its caller registers a completion.                           *)
LEMMA LinkStep ==
    ASSUME DetachDuringExpiry = FALSE, TypeOK, WorkShape, OwnerShape,
           LinkShape, AnswerShape, RefCountExact, CountersExact, [Next]_vars
    PROVE  LinkShape'
<1>0. \A a \in Actors : pc[a] \in Holding =>
         /\ on[a] \in Completions /\ on[a] \in alive
         /\ refCount[on[a]] = 1 =>
               /\ \A b \in Actors :
                     pc[b] \in Holding /\ on[b] = on[a] => b = a
               /\ on[a] \notin Pending \cup Expired
  BY HolderAlive
<1>a. \A x \in Pending \cup Expired : x \in alive
  BY LinkedAlive
<1> USE CompletionAssumption, <1>0, <1>a
    DEF TypeOK, lifeVars, objVars, countVars, Goto, Actors, Shutdown, Labels,
        Holding, Pending, Expired, Orphans, Free, LinkShape,
        OwnerShape
<1>1. ASSUME NEW c \in Callers, EnqueueAndWait(c) PROVE LinkShape'
  BY <1>1 DEF EnqueueAndWait
<1>2. ASSUME NEW c \in Callers, AcquireRundown(c) PROVE LinkShape'
  BY <1>2 DEF AcquireRundown
<1>3. ASSUME NEW c \in Callers, EnqueueRefused(c) PROVE LinkShape'
  BY <1>3 DEF EnqueueRefused
<1>4. ASSUME NEW c \in Callers, AllocatePendingCompletion(c) PROVE LinkShape'
  <2>1. PICK x \in Free :
            /\ alive' = alive \cup {x}
            /\ refCount' = [refCount EXCEPT ![x] = 2]
            /\ entry' = [entry EXCEPT ![x] = "self"]
            /\ on' = [on EXCEPT ![c] = x]
    <3>1. (CHOOSE y \in Free : TRUE) \in Free
      BY <1>4 DEF AllocatePendingCompletion
    <3> QED BY <1>4, <3>1 DEF AllocatePendingCompletion
  <2> QED BY <1>4, <2>1 DEF AllocatePendingCompletion
<1>5. ASSUME NEW c \in Callers, RegisterCompletion(c) PROVE LinkShape'
  BY <1>5 DEF RegisterCompletion
<1>6. ASSUME NEW c \in Callers, EnqueueBlockingMessage(c) PROVE LinkShape'
  BY <1>6 DEF EnqueueBlockingMessage
<1>7. ASSUME NEW c \in Callers, WaitSignalled(c) PROVE LinkShape'
  BY <1>7 DEF WaitSignalled
<1>8. ASSUME NEW c \in Callers, WaitTimeout(c) PROVE LinkShape'
  BY <1>8 DEF WaitTimeout
<1>9. ASSUME NEW c \in Callers, ReadCompletionState(c) PROVE LinkShape'
  BY <1>9 DEF ReadCompletionState
<1>10. ASSUME NEW c \in Callers, DetachPendingCompletion(c) PROVE LinkShape'
  BY <1>10 DEF DetachPendingCompletion
<1>11. ASSUME NEW k \in Completers, FindAndReference(k) PROVE LinkShape'
  BY <1>11 DEF FindAndReference
<1>12. ASSUME NEW k \in Completers, CompleteExchange(k) PROVE LinkShape'
  BY <1>12 DEF CompleteExchange
<1>13. ASSUME NEW k \in Completers, Respond(k) PROVE LinkShape'
  BY <1>13 DEF Respond
<1>14. ASSUME NEW k \in Completers, SignalWaiter(k) PROVE LinkShape'
  BY <1>14 DEF SignalWaiter
<1>15. ASSUME NEW a \in Actors, ReleasePendingCompletion(a) PROVE LinkShape'
  BY <1>15 DEF ReleasePendingCompletion, Released, Freed
<1>16. ASSUME NEW a \in Actors, CountReleased(a) PROVE LinkShape'
  BY <1>16 DEF CountReleased, Released
<1>17. ASSUME NEW a \in Actors, SignalAllReleased(a) PROVE LinkShape'
  BY <1>17 DEF SignalAllReleased, Released
<1>18. CASE CleanupExpired
  BY <1>18 DEF CleanupExpired
<1>19. CASE ExpiredTest
  BY <1>19 DEF ExpiredTest
<1>20. CASE ExpiredUnlink
  BY <1>20 DEF ExpiredUnlink
<1>21. CASE ExpiredRelink
  BY <1>21 DEF ExpiredRelink
<1>22. CASE WorkerExit
  BY <1>22 DEF WorkerExit
<1>23. CASE ShutdownBegin
  BY <1>23 DEF ShutdownBegin
<1>24. CASE ShutdownLock
  BY <1>24 DEF ShutdownLock
<1>25. CASE ShutdownCancel
  BY <1>25 DEF ShutdownCancel, Pending
<1>26. CASE ShutdownDrop
  BY <1>26 DEF ShutdownDrop
<1>27. CASE ShutdownTestOutstanding
  BY <1>27 DEF ShutdownTestOutstanding
<1>28. CASE ShutdownClearEvent
  BY <1>28 DEF ShutdownClearEvent
<1>29. CASE ShutdownFreeOrphan
  BY <1>29 DEF ShutdownFreeOrphan, Orphans
<1>30. CASE ShutdownOrphansFreed
  BY <1>30 DEF ShutdownOrphansFreed
<1>31. CASE ShutdownDrain
  BY <1>31 DEF ShutdownDrain
<1>32. CASE ShutdownDelete
  BY <1>32 DEF ShutdownDelete
<1>33. CASE UNCHANGED vars
  BY <1>33 DEF vars
<1> HIDE <1>0, <1>a DEF TypeOK, Holding, LinkShape
<1> QED
  BY <1>1, <1>2, <1>3, <1>4, <1>5, <1>6, <1>7, <1>8, <1>9, <1>10, <1>11, <1>12,
     <1>13, <1>14, <1>15, <1>16, <1>17, <1>18, <1>19, <1>20, <1>21, <1>22,
     <1>23, <1>24, <1>25, <1>26, <1>27, <1>28, <1>29, <1>30, <1>31, <1>32,
     <1>33
  DEF Next, CallerStep, CompleterStep, WorkerStep, ShutdownStep, ReleaseStep,
      Stopped

(* The event is only set once State says why, and the answer is stored     *)
(* before it; both stay until the last reference is gone.                  *)
LEMMA AnswerStep ==
    ASSUME DetachDuringExpiry = FALSE, TypeOK, WorkShape, OwnerShape,
           LinkShape, AnswerShape, RefCountExact, CountersExact, [Next]_vars
    PROVE  AnswerShape'
<1>0. \A a \in Actors : pc[a] \in Holding =>
         /\ on[a] \in Completions /\ on[a] \in alive
         /\ refCount[on[a]] = 1 =>
               /\ \A b \in Actors :
                     pc[b] \in Holding /\ on[b] = on[a] => b = a
               /\ on[a] \notin Pending \cup Expired
  BY HolderAlive
<1>a. \A x \in Pending \cup Expired : x \in alive
  BY LinkedAlive
<1> USE CompletionAssumption, <1>0, <1>a
    DEF TypeOK, lifeVars, objVars, countVars, Goto, Actors, Shutdown, Labels,
        Holding, Pending, Expired, Orphans, Free, LinkShape, AnswerShape
<1>1. ASSUME NEW c \in Callers, EnqueueAndWait(c) PROVE AnswerShape'
  BY <1>1 DEF EnqueueAndWait
<1>2. ASSUME NEW c \in Callers, AcquireRundown(c) PROVE AnswerShape'
  BY <1>2 DEF AcquireRundown
<1>3. ASSUME NEW c \in Callers, EnqueueRefused(c) PROVE AnswerShape'
  BY <1>3 DEF EnqueueRefused
<1>4. ASSUME NEW c \in Callers, AllocatePendingCompletion(c) PROVE AnswerShape'
  BY <1>4 DEF AllocatePendingCompletion
<1>5. ASSUME NEW c \in Callers, RegisterCompletion(c) PROVE AnswerShape'
  BY <1>5 DEF RegisterCompletion
<1>6. ASSUME NEW c \in Callers, EnqueueBlockingMessage(c) PROVE AnswerShape'
  BY <1>6 DEF EnqueueBlockingMessage
<1>7. ASSUME NEW c \in Callers, WaitSignalled(c) PROVE AnswerShape'
  BY <1>7 DEF WaitSignalled
<1>8. ASSUME NEW c \in Callers, WaitTimeout(c) PROVE AnswerShape'
  BY <1>8 DEF WaitTimeout
<1>9. ASSUME NEW c \in Callers, ReadCompletionState(c) PROVE AnswerShape'
  BY <1>9 DEF ReadCompletionState
<1>10. ASSUME NEW c \in Callers, DetachPendingCompletion(c) PROVE AnswerShape'
  BY <1>10 DEF DetachPendingCompletion
<1>11. ASSUME NEW k \in Completers, FindAndReference(k) PROVE AnswerShape'
  BY <1>11 DEF FindAndReference
<1>12. ASSUME NEW k \in Completers, CompleteExchange(k) PROVE AnswerShape'
  <2>1. on[k] \in Completions /\ pc[k] = "complete"
    BY <1>12 DEF CompleteExchange
  <2>2. UNCHANGED <<event, answered, on>>
    BY <1>12 DEF CompleteExchange
  <2>3. CASE state[on[k]] = "Pending"
    <3>1. /\ state' = [state EXCEPT ![on[k]] = "Completed"]
          /\ pc' = [pc EXCEPT ![k] = "respond"]
      BY <1>12, <2>3 DEF CompleteExchange
    <3>2. on[k] \notin event
      BY <2>3
    <3>3. \A x \in event : state'[x] = state[x]
      BY <3>1, <3>2
    <3>4. \A x \in Completions : state[x] # "Pending" => state'[x] # "Pending"
      BY <3>1
    <3>5. \A b \in Actors : b # k => pc'[b] = pc[b]
      BY <3>1
    <3>6. \A c \in Callers : pc'[c] = "woken" => on'[c] \in event'
      BY <2>2, <3>5
    <3>7. state'[on[k]] # "Pending" /\ pc'[k] = "respond"
      BY <2>1, <3>1
    <3>8. ASSUME NEW b \in Completers
          PROVE  /\ pc'[b] \in {"respond", "signalWaiter"} =>
                       state'[on'[b]] # "Pending"
                 /\ pc'[b] = "signalWaiter" => on'[b] \in answered'
      BY <2>2, <3>4, <3>5, <3>7
    <3> QED BY <2>2, <3>3, <3>6, <3>8
  <2>4. CASE state[on[k]] # "Pending"
    <3>1. state' = state /\ pc' = [pc EXCEPT ![k] = "release"]
      BY <1>12, <2>4 DEF CompleteExchange
    <3> QED BY <2>1, <2>2, <3>1
  <2> QED BY <2>3, <2>4
<1>13. ASSUME NEW k \in Completers, Respond(k) PROVE AnswerShape'
  BY <1>13 DEF Respond
<1>14. ASSUME NEW k \in Completers, SignalWaiter(k) PROVE AnswerShape'
  BY <1>14 DEF SignalWaiter
<1>15. ASSUME NEW a \in Actors, ReleasePendingCompletion(a) PROVE AnswerShape'
  BY <1>15 DEF ReleasePendingCompletion, Released, Freed
<1>16. ASSUME NEW a \in Actors, CountReleased(a) PROVE AnswerShape'
  BY <1>16 DEF CountReleased, Released
<1>17. ASSUME NEW a \in Actors, SignalAllReleased(a) PROVE AnswerShape'
  BY <1>17 DEF SignalAllReleased, Released
<1>18. CASE CleanupExpired
  BY <1>18 DEF CleanupExpired
<1>19. CASE ExpiredTest
  BY <1>19 DEF ExpiredTest
<1>20. CASE ExpiredUnlink
  BY <1>20 DEF ExpiredUnlink
<1>21. CASE ExpiredRelink
  BY <1>21 DEF ExpiredRelink
<1>22. CASE WorkerExit
  BY <1>22 DEF WorkerExit
<1>23. CASE ShutdownBegin
  BY <1>23 DEF ShutdownBegin
<1>24. CASE ShutdownLock
  BY <1>24 DEF ShutdownLock
<1>25. CASE ShutdownCancel
  BY <1>25 DEF ShutdownCancel, Pending
<1>26. CASE ShutdownDrop
  BY <1>26 DEF ShutdownDrop
<1>27. CASE ShutdownTestOutstanding
  BY <1>27 DEF ShutdownTestOutstanding
<1>28. CASE ShutdownClearEvent
  BY <1>28 DEF ShutdownClearEvent
<1>29. CASE ShutdownFreeOrphan
  BY <1>29 DEF ShutdownFreeOrphan, Orphans
<1>30. CASE ShutdownOrphansFreed
  BY <1>30 DEF ShutdownOrphansFreed
<1>31. CASE ShutdownDrain
  BY <1>31 DEF ShutdownDrain
<1>32. CASE ShutdownDelete
  BY <1>32 DEF ShutdownDelete
<1>33. CASE UNCHANGED vars
  BY <1>33 DEF vars
<1> HIDE <1>0, <1>a DEF TypeOK, Holding, AnswerShape
<1> QED
  BY <1>1, <1>2, <1>3, <1>4, <1>5, <1>6, <1>7, <1>8, <1>9, <1>10, <1>11, <1>12,
     <1>13, <1>14, <1>15, <1>16, <1>17, <1>18, <1>19, <1>20, <1>21, <1>22,
     <1>23, <1>24, <1>25, <1>26, <1>27, <1>28, <1>29, <1>30, <1>31, <1>32,
     <1>33
  DEF Next, CallerStep, CompleterStep, WorkerStep, ShutdownStep, ReleaseStep,
      Stopped

(* A caller that finds State Completed was woken after the answer.         *)
LEMMA ResponseStep ==
    ASSUME TypeOK, AnswerShape, ResponseComplete, [Next]_vars
    PROVE  ResponseComplete'
<1> USE CompletionAssumption DEF ResponseComplete
<1>1. ASSUME NEW c \in Callers, ReadCompletionState(c) PROVE torn' = torn
  BY <1>1 DEF ReadCompletionState, AnswerShape
<1> QED
  BY <1>1
  DEF Next, CallerStep, CompleterStep, WorkerStep, ShutdownStep, ReleaseStep,
      Stopped, vars, EnqueueAndWait, AcquireRundown, EnqueueRefused,
      AllocatePendingCompletion, RegisterCompletion, EnqueueBlockingMessage,
      WaitSignalled, WaitTimeout, DetachPendingCompletion,
      ReleasePendingCompletion, CountReleased, SignalAllReleased,
      FindAndReference, CompleteExchange, Respond, SignalWaiter,
      CleanupExpired, ExpiredTest, ExpiredUnlink, ExpiredRelink, WorkerExit,
      ShutdownBegin, ShutdownLock, ShutdownCancel, ShutdownDrop,
      ShutdownTestOutstanding, ShutdownClearEvent, ShutdownFreeOrphan,
      ShutdownOrphansFreed, ShutdownDrain, ShutdownDelete

(* A step that leaves the list of pending completions alone, and one that  *)
(* leaves the registered ones alone.                                       *)
ListSame == UNCHANGED pendingCount /\ Pending' = Pending
RegisteredSame ==
    /\ UNCHANGED outstanding
    /\ Registered' = Registered /\ Counting' = Counting
    /\ Orphans' = Orphans

(* g_PendingCompletionCount follows every change of the list.              *)
LEMMA PendingStep ==
    ASSUME DetachDuringExpiry = FALSE, TypeOK, WorkShape, LinkShape,
           RefCountExact, pendingCount = Cardinality(Pending), [Next]_vars
    PROVE  pendingCount' = Cardinality(Pending')
<1>a. \A a \in Actors : pc[a] \in Holding => on[a] \in Completions
  BY AtWork
<1>b. \A x \in Pending : x \in alive
  BY LinkedAlive
<1>c. \A S \in SUBSET Completions : IsFiniteSet(S) /\ Cardinality(S) \in Nat
  BY Finite
<1> USE CompletionAssumption
    DEF TypeOK, lifeVars, objVars, countVars, Goto, Actors, Shutdown, Labels,
        Holding, Pending, Orphans, Free, ListSame
<1>1. ASSUME NEW c \in Callers, EnqueueAndWait(c) PROVE ListSame
  BY <1>1 DEF EnqueueAndWait
<1>2. ASSUME NEW c \in Callers, AcquireRundown(c) PROVE ListSame
  BY <1>2 DEF AcquireRundown
<1>3. ASSUME NEW c \in Callers, EnqueueRefused(c) PROVE ListSame
  BY <1>3 DEF EnqueueRefused
<1>4. ASSUME NEW c \in Callers, AllocatePendingCompletion(c) PROVE ListSame
  <2>1. PICK x \in Free :
            /\ alive' = alive \cup {x}
            /\ entry' = [entry EXCEPT ![x] = "self"]
            /\ on' = [on EXCEPT ![c] = x]
    <3>1. (CHOOSE y \in Free : TRUE) \in Free
      BY <1>4 DEF AllocatePendingCompletion
    <3> QED BY <1>4, <3>1 DEF AllocatePendingCompletion
  <2>2. UNCHANGED pendingCount
    BY <1>4 DEF AllocatePendingCompletion
  <2> QED BY <2>1, <2>2, <1>b
<1>5. ASSUME NEW c \in Callers, RegisterCompletion(c)
      PROVE  pendingCount' = Cardinality(Pending')
  <2> DEFINE x == on[c]
  <2>1. /\ x \in Completions /\ entry[x] = "self"
        /\ entry' = [entry EXCEPT ![x] = "pending"]
        /\ pendingCount' = pendingCount + 1
    BY <1>5, <1>a DEF RegisterCompletion, LinkShape
  <2>2. Pending' = Pending \cup {x} /\ x \notin Pending
    BY <2>1
  <2>3. Pending \in SUBSET Completions
    OBVIOUS
  <2> HIDE DEF x, Pending
  <2>4. IsFiniteSet(Pending)
    BY <1>c, <2>3
  <2> QED BY <2>1, <2>2, <2>4, FS_AddElement
<1>6. ASSUME NEW c \in Callers, EnqueueBlockingMessage(c) PROVE ListSame
  BY <1>6 DEF EnqueueBlockingMessage
<1>7. ASSUME NEW c \in Callers, WaitSignalled(c) PROVE ListSame
  BY <1>7 DEF WaitSignalled
<1>8. ASSUME NEW c \in Callers, WaitTimeout(c) PROVE ListSame
  BY <1>8 DEF WaitTimeout
<1>9. ASSUME NEW c \in Callers, ReadCompletionState(c) PROVE ListSame
  BY <1>9 DEF ReadCompletionState
<1>10. ASSUME NEW c \in Callers, DetachPendingCompletion(c)
       PROVE  pendingCount' = Cardinality(Pending')
  <2> DEFINE x == on[c]
  <2>1. /\ x \in Completions /\ entry[x] \in {"self", "pending"}
        /\ entry' = [entry EXCEPT ![x] = "self"]
        /\ pendingCount' = IF entry[x] # "self" THEN pendingCount - 1
                                                ELSE pendingCount
    BY <1>10, <1>a DEF DetachPendingCompletion
  <2>2. Pending' = Pending \ {x} /\ (x \in Pending <=> entry[x] # "self")
    BY <2>1
  <2>3. Pending \in SUBSET Completions
    OBVIOUS
  <2> HIDE DEF x, Pending
  <2>4. IsFiniteSet(Pending)
    BY <1>c, <2>3
  <2> QED BY <2>1, <2>2, <2>4, FS_RemoveElement
<1>11. ASSUME NEW k \in Completers, FindAndReference(k) PROVE ListSame
  BY <1>11 DEF FindAndReference
<1>12. ASSUME NEW k \in Completers, CompleteExchange(k) PROVE ListSame
  BY <1>12 DEF CompleteExchange
<1>13. ASSUME NEW k \in Completers, Respond(k) PROVE ListSame
  BY <1>13 DEF Respond
<1>14. ASSUME NEW k \in Completers, SignalWaiter(k) PROVE ListSame
  BY <1>14 DEF SignalWaiter
<1>15. ASSUME NEW a \in Actors, ReleasePendingCompletion(a) PROVE ListSame
  BY <1>15 DEF ReleasePendingCompletion, Released, Freed
<1>16. ASSUME NEW a \in Actors, CountReleased(a) PROVE ListSame
  BY <1>16 DEF CountReleased, Released
<1>17. ASSUME NEW a \in Actors, SignalAllReleased(a) PROVE ListSame
  BY <1>17 DEF SignalAllReleased, Released
<1>18. CASE CleanupExpired
  <2>1. PICK old \in SUBSET Pending :
            /\ entry' = [x \in Completions |-> IF x \in old THEN "expired"
                                                            ELSE entry[x]]
            /\ pendingCount' = pendingCount - Cardinality(old)
    BY <1>18 DEF CleanupExpired
  <2>2. Pending' = Pending \ old /\ Pending \cap old = old
    BY <2>1
  <2>3. Pending \in SUBSET Completions
    OBVIOUS
  <2> HIDE DEF Pending
  <2>4. IsFiniteSet(Pending)
    BY <1>c, <2>3
  <2>5. Cardinality(Pending \ old) = Cardinality(Pending) - Cardinality(old)
    BY <2>2, <2>4, FS_Difference
  <2> QED BY <2>1, <2>2, <2>5
<1>19. ASSUME ExpiredTest PROVE ListSame
  BY <1>19 DEF ExpiredTest
<1>20. ASSUME ExpiredUnlink PROVE ListSame
  BY <1>20 DEF ExpiredUnlink, Expired
<1>21. ASSUME ExpiredRelink PROVE ListSame
  BY <1>21 DEF ExpiredRelink, LinkShape
<1>22. ASSUME WorkerExit PROVE ListSame
  BY <1>22 DEF WorkerExit
<1>23. ASSUME ShutdownBegin PROVE ListSame
  BY <1>23 DEF ShutdownBegin
<1>24. ASSUME ShutdownLock PROVE ListSame
  BY <1>24 DEF ShutdownLock
<1>25. ASSUME ShutdownCancel PROVE pendingCount' = Cardinality(Pending')
  <2>1. PICK x \in Pending : entry' = [entry EXCEPT ![x] = "self"]
    BY <1>25 DEF ShutdownCancel
  <2>2. Pending' = Pending \ {x}
    BY <2>1
  <2>3. pendingCount' = pendingCount - 1
    BY <1>25 DEF ShutdownCancel
  <2>4. Pending \in SUBSET Completions
    OBVIOUS
  <2> HIDE DEF Pending
  <2>5. IsFiniteSet(Pending)
    BY <1>c, <2>4
  <2> QED BY <2>1, <2>2, <2>3, <2>5, FS_RemoveElement
<1>26. ASSUME ShutdownDrop PROVE ListSame
  <2>1. pc[Shutdown] = "drop" /\ UNCHANGED pendingCount
    BY <1>26 DEF ShutdownDrop
  <2>2. refCount[on[Shutdown]] = 1 => on[Shutdown] \notin Pending
    BY <2>1, HolderAlive
  <2> QED BY <1>26, <2>1, <2>2 DEF ShutdownDrop
<1>27. ASSUME ShutdownTestOutstanding PROVE ListSame
  BY <1>27 DEF ShutdownTestOutstanding
<1>28. ASSUME ShutdownClearEvent PROVE ListSame
  BY <1>28 DEF ShutdownClearEvent
<1>29. ASSUME ShutdownFreeOrphan PROVE ListSame
  BY <1>29 DEF ShutdownFreeOrphan, Orphans
<1>30. ASSUME ShutdownOrphansFreed PROVE ListSame
  BY <1>30 DEF ShutdownOrphansFreed
<1>31. ASSUME ShutdownDrain PROVE ListSame
  BY <1>31 DEF ShutdownDrain
<1>32. ASSUME ShutdownDelete PROVE ListSame
  BY <1>32 DEF ShutdownDelete
<1>33. ASSUME UNCHANGED vars PROVE ListSame
  BY <1>33 DEF vars
<1> HIDE DEF TypeOK, Holding, Pending
<1> QED
  BY <1>1, <1>2, <1>3, <1>4, <1>5, <1>6, <1>7, <1>8, <1>9, <1>10, <1>11, <1>12,
     <1>13, <1>14, <1>15, <1>16, <1>17, <1>18, <1>19, <1>20, <1>21, <1>22,
     <1>23, <1>24, <1>25, <1>26, <1>27, <1>28, <1>29, <1>30, <1>31, <1>32,
     <1>33
  DEF Next, CallerStep, CompleterStep, WorkerStep, ShutdownStep, ReleaseStep,
      Stopped

OutstandingExact ==
    outstanding = Cardinality(Registered) + Cardinality(Orphans)
                  + Cardinality(Counting)

(* OutstandingCompletions follows the registered completions, the orphans, *)
(* and the completions just freed whose release is not counted yet.        *)
LEMMA OutstandingStep ==
    ASSUME DetachDuringExpiry = FALSE, TypeOK, WorkShape, OwnerShape,
           LinkShape, RefCountExact, [Next]_vars, OutstandingExact
    PROVE  OutstandingExact'
<1>a. \A a \in Actors : pc[a] \in Holding =>
         /\ on[a] \in Completions /\ on[a] \in alive
         /\ refCount[on[a]] = 1 =>
               /\ \A b \in Actors :
                     pc[b] \in Holding /\ on[b] = on[a] => b = a
               /\ on[a] \notin Pending \cup Expired
  BY HolderAlive
<1>b. /\ Registered \in SUBSET Completions /\ Counting \in SUBSET Actors
      /\ IsFiniteSet(Registered) /\ Cardinality(Registered) \in Nat
      /\ IsFiniteSet(Counting) /\ Cardinality(Counting) \in Nat
      /\ IsFiniteSet(Orphans) /\ Cardinality(Orphans) \in Nat
  <2>1. /\ Registered \in SUBSET Completions /\ Counting \in SUBSET Actors
        /\ Orphans \in SUBSET Completions
    BY DEF Registered, Counting, Orphans, TypeOK
  <2> QED BY <2>1, Finite
<1> USE CompletionAssumption
    DEF TypeOK, lifeVars, objVars, countVars, Goto, Actors, Shutdown, Labels,
        Holding, Registered, Counting, Orphans, Free, LinkShape,
        RegisteredSame
<1>1. ASSUME NEW c \in Callers, EnqueueAndWait(c) PROVE RegisteredSame
  BY <1>1 DEF EnqueueAndWait
<1>2. ASSUME NEW c \in Callers, AcquireRundown(c) PROVE RegisteredSame
  BY <1>2 DEF AcquireRundown
<1>3. ASSUME NEW c \in Callers, EnqueueRefused(c) PROVE RegisteredSame
  BY <1>3 DEF EnqueueRefused
<1>4. ASSUME NEW c \in Callers, AllocatePendingCompletion(c)
      PROVE  RegisteredSame
  <2>1. PICK x \in Free :
            /\ alive' = alive \cup {x}
            /\ entry' = [entry EXCEPT ![x] = "self"]
            /\ on' = [on EXCEPT ![c] = x]
    <3>1. (CHOOSE y \in Free : TRUE) \in Free
      BY <1>4 DEF AllocatePendingCompletion
    <3> QED BY <1>4, <3>1 DEF AllocatePendingCompletion
  <2>2. /\ pc[c] = "limit" /\ pc' = [pc EXCEPT ![c] = "register"]
        /\ UNCHANGED outstanding
    BY <1>4 DEF AllocatePendingCompletion
  <2>3. x \notin alive /\ x \notin Orphans /\ x \in Completions
    BY <2>1
  <2>4. \A d \in Callers : pc[d] = "register" => on[d] # x
    BY <1>a, <2>3
  <2>5. x \notin Registered'
    BY <2>1, <2>2
  <2>6. \A y \in Completions \ {x} : y \in Registered' <=> y \in Registered
    BY <2>1, <2>2, <2>3
  <2>7. Registered' = Registered
    BY <2>1, <2>3, <2>5, <2>6
  <2>8. Orphans' = Orphans /\ Counting' = Counting
    BY <2>1, <2>2, <2>3
  <2> QED BY <2>2, <2>7, <2>8
<1>5. ASSUME NEW c \in Callers, RegisterCompletion(c)
      PROVE  OutstandingExact'
  <2> DEFINE x == on[c]
  <2>1. /\ pc[c] = "register" /\ pc' = [pc EXCEPT ![c] = "enqueue"]
        /\ UNCHANGED <<on, alive>> /\ outstanding' = outstanding + 1
    BY <1>5 DEF RegisterCompletion
  <2>2. x \in alive /\ x \notin Registered
    BY <1>a, <2>1
  <2>3. \A d \in Callers : pc[d] = "register" /\ on[d] = x => d = c
    BY <2>1 DEF OwnerShape
  <2>4. Registered' = Registered \cup {x} /\ Counting' = Counting
    BY <2>1, <2>2, <2>3
  <2>6. Orphans' = Orphans
    BY <1>5 DEF RegisterCompletion
  <2> HIDE DEF x, Registered, Counting, Orphans
  <2>5. Cardinality(Registered \cup {x}) = Cardinality(Registered) + 1
    BY <1>b, <2>2, FS_AddElement
  <2> QED BY <1>b, <2>1, <2>4, <2>5, <2>6 DEF OutstandingExact
<1>6. ASSUME NEW c \in Callers, EnqueueBlockingMessage(c) PROVE RegisteredSame
  BY <1>6 DEF EnqueueBlockingMessage
<1>7. ASSUME NEW c \in Callers, WaitSignalled(c) PROVE RegisteredSame
  BY <1>7 DEF WaitSignalled
<1>8. ASSUME NEW c \in Callers, WaitTimeout(c) PROVE RegisteredSame
  BY <1>8 DEF WaitTimeout
<1>9. ASSUME NEW c \in Callers, ReadCompletionState(c) PROVE RegisteredSame
  BY <1>9 DEF ReadCompletionState
<1>10. ASSUME NEW c \in Callers, DetachPendingCompletion(c)
       PROVE  RegisteredSame
  BY <1>10 DEF DetachPendingCompletion
<1>11. ASSUME NEW k \in Completers, FindAndReference(k) PROVE RegisteredSame
  BY <1>11 DEF FindAndReference
<1>12. ASSUME NEW k \in Completers, CompleteExchange(k) PROVE RegisteredSame
  BY <1>12 DEF CompleteExchange
<1>13. ASSUME NEW k \in Completers, Respond(k) PROVE RegisteredSame
  BY <1>13 DEF Respond
<1>14. ASSUME NEW k \in Completers, SignalWaiter(k) PROVE RegisteredSame
  BY <1>14 DEF SignalWaiter
<1>15. ASSUME NEW a \in Actors, ReleasePendingCompletion(a)
       PROVE  OutstandingExact'
  <2> DEFINE x == on[a]
  <2>1. pc[a] = "release" /\ x \in alive /\ UNCHANGED outstanding
    BY <1>15, <1>a DEF ReleasePendingCompletion
  <2>4. Orphans' = Orphans
    BY <1>15 DEF ReleasePendingCompletion, Freed
  <2>2. CASE refCount[x] = 1
    <3>1. /\ alive' = alive \ {x} /\ UNCHANGED on
          /\ pc' = [pc EXCEPT ![a] = "count"]
      BY <1>15, <2>1, <2>2 DEF ReleasePendingCompletion, Freed
    <3>2. \A b \in Actors : pc[b] \in Holding /\ on[b] = x => b = a
      BY <1>a, <2>1, <2>2
    <3>3. /\ Registered' = Registered \ {x} /\ x \in Registered
          /\ Counting' = Counting \cup {a} /\ a \notin Counting
      BY <2>1, <3>1, <3>2
    <3> HIDE DEF x, Registered, Counting, Orphans
    <3>4. /\ Cardinality(Registered \ {x}) = Cardinality(Registered) - 1
          /\ Cardinality(Counting \cup {a}) = Cardinality(Counting) + 1
      BY <1>b, <3>3, FS_AddElement, FS_RemoveElement
    <3> QED BY <1>b, <2>1, <2>4, <3>3, <3>4 DEF OutstandingExact
  <2>3. CASE refCount[x] # 1
    <3>1. UNCHANGED alive /\ Released(a)
      BY <1>15, <2>1, <2>3 DEF ReleasePendingCompletion
    <3>2. Registered' = Registered /\ Counting' = Counting
      BY <2>1, <3>1 DEF Released
    <3> QED BY <2>1, <2>4, <3>2 DEF OutstandingExact
  <2> QED BY <2>2, <2>3
<1>16. ASSUME NEW a \in Actors, CountReleased(a)
       PROVE  OutstandingExact'
  <2>1. pc[a] = "count" /\ outstanding' = outstanding - 1 /\ UNCHANGED alive
    BY <1>16 DEF CountReleased
  <2>2. Registered' = Registered /\ Orphans' = Orphans
    BY <1>16 DEF CountReleased, Released
  <2>3. Counting' = Counting \ {a} /\ a \in Counting
    BY <1>16 DEF CountReleased, Released
  <2> HIDE DEF Registered, Counting, Orphans
  <2>4. Cardinality(Counting \ {a}) = Cardinality(Counting) - 1
    BY <1>b, <2>3, FS_RemoveElement
  <2> QED BY <1>b, <2>1, <2>2, <2>3, <2>4 DEF OutstandingExact
<1>17. ASSUME NEW a \in Actors, SignalAllReleased(a) PROVE RegisteredSame
  BY <1>17 DEF SignalAllReleased, Released
<1>18. ASSUME CleanupExpired PROVE RegisteredSame
  <2>1. PICK old \in SUBSET Pending :
            entry' = [x \in Completions |-> IF x \in old THEN "expired"
                                                        ELSE entry[x]]
    BY <1>18, SMTT(30) DEF CleanupExpired, Pending
  <2>2. Orphans' = Orphans
    BY <2>1 DEF Pending
  <2>3. /\ UNCHANGED <<outstanding, alive, on>> /\ pc[Worker] = "poll"
        /\ pc' = [pc EXCEPT ![Worker] = "expired"]
    BY <1>18 DEF CleanupExpired
  <2>4. Registered' = Registered /\ Counting' = Counting
    BY <2>3
  <2> QED BY <2>2, <2>3, <2>4
<1>19. ASSUME ExpiredTest PROVE RegisteredSame
  BY <1>19 DEF ExpiredTest
<1>20. ASSUME ExpiredUnlink PROVE RegisteredSame
  <2>1. Orphans' = Orphans
    BY <1>20 DEF ExpiredUnlink, Expired
  <2>2. Registered' = Registered /\ Counting' = Counting
    BY <1>20 DEF ExpiredUnlink
  <2> QED BY <1>20, <2>1, <2>2 DEF ExpiredUnlink
<1>21. ASSUME ExpiredRelink PROVE RegisteredSame
  BY <1>21 DEF ExpiredRelink
<1>22. ASSUME WorkerExit PROVE RegisteredSame
  BY <1>22 DEF WorkerExit
<1>23. ASSUME ShutdownBegin PROVE RegisteredSame
  BY <1>23 DEF ShutdownBegin
<1>24. ASSUME ShutdownLock PROVE RegisteredSame
  BY <1>24 DEF ShutdownLock
<1>25. ASSUME ShutdownCancel PROVE RegisteredSame
  BY <1>25 DEF ShutdownCancel, Pending
<1>26. ASSUME ShutdownDrop PROVE OutstandingExact'
  <2> DEFINE x == on[Shutdown]
  <2>1. /\ pc[Shutdown] = "drop" /\ UNCHANGED outstanding
        /\ on' = [on EXCEPT ![Shutdown] = NULL]
        /\ pc' = [pc EXCEPT ![Shutdown] = "cancel"]
    BY <1>26 DEF ShutdownDrop
  <2>2. x \in alive /\ x \in Completions /\ x \notin Orphans
    BY <1>a, <2>1
  <2>3. Counting' = Counting
    BY <2>1
  <2>4. CASE refCount[x] = 1
    <3>1. alive' = alive \ {x} /\ entry' = [entry EXCEPT ![x] = "orphan"]
      BY <1>26, <2>4 DEF ShutdownDrop
    <3>2. \A b \in Actors : pc[b] \in Holding /\ on[b] = x => b = Shutdown
      BY <1>a, <2>1, <2>4
    <3>3. x \in Registered
      BY <2>1, <2>2, <3>2
    <3>4. Registered' = Registered \ {x}
      BY <2>1, <3>1
    <3>5. Orphans' = Orphans \cup {x}
      BY <2>2, <3>1
    <3> HIDE DEF x, Registered, Counting, Orphans
    <3>6. /\ Cardinality(Registered \ {x}) = Cardinality(Registered) - 1
          /\ Cardinality(Orphans \cup {x}) = Cardinality(Orphans) + 1
      BY <1>b, <2>2, <3>3, FS_AddElement, FS_RemoveElement
    <3> QED BY <1>b, <2>1, <2>3, <3>4, <3>5, <3>6 DEF OutstandingExact
  <2>5. CASE refCount[x] # 1
    <3>1. UNCHANGED <<alive, entry>>
      BY <1>26, <2>5 DEF ShutdownDrop
    <3>2. Registered' = Registered /\ Orphans' = Orphans
      BY <2>1, <3>1
    <3> QED BY <2>1, <2>3, <3>2 DEF OutstandingExact
  <2> QED BY <2>4, <2>5
<1>27. ASSUME ShutdownTestOutstanding PROVE RegisteredSame
  BY <1>27 DEF ShutdownTestOutstanding
<1>28. ASSUME ShutdownClearEvent PROVE RegisteredSame
  BY <1>28 DEF ShutdownClearEvent
<1>29. ASSUME ShutdownFreeOrphan PROVE OutstandingExact'
  <2>1. /\ pc[Shutdown] = "orphans" /\ UNCHANGED <<outstanding, alive>>
        /\ pc' = [pc EXCEPT ![Shutdown] = "count"]
    BY <1>29 DEF ShutdownFreeOrphan
  <2>2. PICK x \in Orphans : /\ entry' = [entry EXCEPT ![x] = "self"]
                             /\ on' = [on EXCEPT ![Shutdown] = x]
    BY <1>29 DEF ShutdownFreeOrphan
  <2>3. Orphans' = Orphans \ {x}
    BY <2>2
  <2>4. Registered' = Registered
    BY <2>1, <2>2
  <2>5. Counting' = Counting \cup {Shutdown} /\ Shutdown \notin Counting
    BY <2>1
  <2> HIDE DEF Registered, Counting, Orphans
  <2>6. /\ Cardinality(Orphans \ {x}) = Cardinality(Orphans) - 1
        /\ Cardinality(Counting \cup {Shutdown}) = Cardinality(Counting) + 1
    BY <1>b, <2>2, <2>5, FS_AddElement, FS_RemoveElement
  <2> QED BY <1>b, <2>1, <2>3, <2>4, <2>5, <2>6 DEF OutstandingExact
<1>30. ASSUME ShutdownOrphansFreed PROVE RegisteredSame
  BY <1>30 DEF ShutdownOrphansFreed
<1>31. ASSUME ShutdownDrain PROVE RegisteredSame
  BY <1>31 DEF ShutdownDrain
<1>32. ASSUME ShutdownDelete PROVE RegisteredSame
  BY <1>32 DEF ShutdownDelete
<1>33. ASSUME UNCHANGED vars PROVE RegisteredSame
  BY <1>33 DEF vars
<1> HIDE DEF TypeOK, Holding, Registered, Counting, Orphans, LinkShape
<1> QED
  BY <1>1, <1>2, <1>3, <1>4, <1>5, <1>6, <1>7, <1>8, <1>9, <1>10, <1>11, <1>12,
     <1>13, <1>14, <1>15, <1>16, <1>17, <1>18, <1>19, <1>20, <1>21, <1>22,
     <1>23, <1>24, <1>25, <1>26, <1>27, <1>28, <1>29, <1>30, <1>31, <1>32,
     <1>33
  DEF Next, CallerStep, CompleterStep, WorkerStep, ShutdownStep, ReleaseStep,
      Stopped, RegisteredSame, OutstandingExact

(* MqInitialize establishes the invariant: no completion is allocated.     *)
LEMMA InitInv == Init => IInv
<1> SUFFICES ASSUME Init PROVE IInv
  OBVIOUS
<1> USE CompletionAssumption DEF Init, Shutdown, Actors
<1>1. TypeOK
  <2>1. /\ pc \in [Actors -> Labels]
        /\ \A c \in Callers : pc[c] \in CallerLabels
        /\ \A k \in Completers : pc[k] \in CompleterLabels
        /\ pc[Worker] \in WorkerLabels
        /\ pc[Shutdown] \in ShutdownLabels
    BY DEF Labels, CallerLabels, CompleterLabels, WorkerLabels, ShutdownLabels
  <2>2. /\ refCount \in [Completions -> Int]
        /\ state \in [Completions -> {"Pending", "Completed", "TimedOut",
                                      "Cancelled", "Detached"}]
        /\ entry \in [Completions -> {"self", "pending", "expired", "stale",
                                      "orphan"}]
        /\ on \in [Actors -> Completions \cup {NULL}]
        /\ todo \in [Actors -> 0 .. 2]
        /\ pendingCount \in Int /\ outstanding \in Int
    OBVIOUS
  <2>3. /\ mqState \in {"Running", "ShuttingDown", "Shutdown"}
        /\ stopping \in BOOLEAN /\ rundown \in BOOLEAN
        /\ lookaside \in BOOLEAN /\ allReleased \in BOOLEAN
        /\ corrupted \in BOOLEAN
        /\ protected \subseteq Callers /\ torn \subseteq Callers
        /\ alive \subseteq Completions
        /\ event \subseteq Completions /\ answered \subseteq Completions
    OBVIOUS
  <2> QED BY <2>1, <2>2, <2>3 DEF TypeOK
<1>2. \A a \in Actors : on[a] = NULL /\ pc[a] \in {"idle", "poll", "off"}
  <2>1. ASSUME NEW a \in Actors
        PROVE  pc[a] = IF a = Shutdown THEN "off"
                       ELSE IF a = Worker THEN "poll" ELSE "idle"
    OBVIOUS
  <2> QED BY <2>1
<1>3. WorkShape
  BY <1>2 DEF WorkShape, Holding, Owing
<1>4. OwnerShape /\ LinkShape /\ AnswerShape /\ ResponseComplete
  BY <1>2
  DEF OwnerShape, LinkShape, AnswerShape, ResponseComplete, Holding, Owing
<1>5. /\ Pending = {} /\ Expired = {} /\ Orphans = {}
      /\ Registered = {} /\ Counting = {}
  BY <1>2 DEF Pending, Expired, Orphans, Registered, Counting
<1>6. \A x \in Completions : Holders(x) = {} /\ ListReferences(x) = {}
  BY <1>2 DEF Holders, ListReferences, Holding
<1>7. RefCountExact
  <2>1. \A x \in Completions : Refs(x) = 0
    BY <1>5, <1>6, FS_EmptySet, SMTT(30) DEF Refs
  <2> QED BY <2>1 DEF RefCountExact
<1>8. CountersExact
  BY <1>5, FS_EmptySet DEF CountersExact
<1> QED BY <1>1, <1>3, <1>4, <1>7, <1>8 DEF IInv

(* Every step keeps it.                                                    *)
LEMMA StepInv == IInv /\ [Next]_vars => IInv'
<1> SUFFICES ASSUME IInv, [Next]_vars PROVE IInv'
  OBVIOUS
<1>1. TypeOK' /\ WorkShape'
  BY TypeStep, WorkStep DEF IInv
<1>2. ASSUME DetachDuringExpiry = FALSE
      PROVE  /\ OwnerShape' /\ LinkShape' /\ AnswerShape'
             /\ RefCountExact' /\ CountersExact' /\ ResponseComplete'
  <2>1. /\ TypeOK /\ WorkShape /\ OwnerShape /\ LinkShape /\ AnswerShape
        /\ RefCountExact /\ CountersExact /\ ResponseComplete
    BY <1>2 DEF IInv
  <2>2. OwnerShape' /\ LinkShape' /\ AnswerShape' /\ ResponseComplete'
    BY <1>2, <2>1, OwnerStep, LinkStep, AnswerStep, ResponseStep
  <2>3. RefCountExact'
    BY <1>1, <1>2, <2>1, RefsStep
  <2>4. CountersExact'
    <3>1. pendingCount' = Cardinality(Pending')
      BY <1>2, <2>1, PendingStep DEF CountersExact
    <3>2. OutstandingExact'
      BY <1>2, <2>1, OutstandingStep DEF CountersExact, OutstandingExact
    <3> QED BY <3>1, <3>2 DEF CountersExact, OutstandingExact
  <2> QED BY <2>2, <2>3, <2>4
<1> QED BY <1>1, <1>2, CompletionAssumption DEF IInv

(* The invariant holds in every state, whether or not callers detach while *)
(* the worker is busy with its list.                                       *)
THEOREM InductiveInvariant == Spec => []IInv
BY InitInv, StepInv, PTL DEF Spec

(* Every variable stays within its type, also when callers detach while    *)
(* the worker is busy with its list: an actor that releases a reference    *)
(* still has one to release.                                               *)
THEOREM TypeCorrect == Spec => []TypeOK
<1>1. IInv => TypeOK
  BY DEF IInv
<1> QED BY <1>1, InductiveInvariant, PTL

(* As long as no caller detaches a completion the worker is still busy     *)
(* with, RefCount is what callers, completers, lists, worker and shutdown  *)
(* hold: the last of them frees the completion, or makes it an orphan,     *)
(* nobody works on a freed one, and no list is touched through links that  *)
(* are not there.                                                          *)
THEOREM ReferencesExact ==
    ASSUME DetachDuringExpiry = FALSE PROVE Spec => []RefCountExact
<1>1. IInv => RefCountExact
  BY DEF IInv
<1> QED BY <1>1, InductiveInvariant, PTL

(* Under the same condition g_PendingCompletionCount is the length of the  *)
(* list and OutstandingCompletions the number of registered completions    *)
(* and orphans that are not freed and counted yet.                         *)
THEOREM CompletionsCounted ==
    ASSUME DetachDuringExpiry = FALSE PROVE Spec => []CountersExact
<1>1. IInv => CountersExact
  BY DEF IInv
<1> QED BY <1>1, InductiveInvariant, PTL

(* Under the same condition a caller that finds its message answered has   *)
(* the whole answer.                                                       *)
THEOREM AnswersWhole ==
    ASSUME DetachDuringExpiry = FALSE PROVE Spec => []ResponseComplete
<1>1. IInv => ResponseComplete
  BY DEF IInv
<1> QED BY <1>1, InductiveInvariant, PTL

=============================================================================
