-------------------------- MODULE ScanCache_proofs --------------------------
(***************************************************************************)
(* Lemmas about ScanCache, for any set of threads and keys and any limit:  *)
(* what its operations and its shutdown preserve.  FileScan_proofs builds  *)
(* on them.                                                                *)
(***************************************************************************)
EXTENDS ScanCache, FiniteSetTheorems, TLAPS

(* There are finitely many threads and keys, so that references and        *)
(* entries can be counted.                                                 *)
LEMMA FiniteThreads ==
    ASSUME NEW S \in SUBSET Threads
    PROVE  IsFiniteSet(S) /\ Cardinality(S) \in Nat
BY CacheAssumption, FS_Subset, FS_CardinalityType

(* The same for the keys.                                                  *)
LEMMA FiniteKeys ==
    ASSUME NEW S \in SUBSET Keys
    PROVE  /\ IsFiniteSet(S) /\ Cardinality(S) \in Nat
           /\ Cardinality(Keys) \in Nat /\ Cardinality(S) <= Cardinality(Keys)
BY CacheAssumption, FS_Subset, FS_CardinalityType

(* Between AcquireReference and ReleaseReference.                          *)
InsideLabels == {"recheck", "limit", "work", "count", "leave"}

(* The threads inside the cache, as one of them moves.                     *)
LEMMA InsideMoves ==
    ASSUME NEW t \in Threads, NEW l, pc \in [Threads -> Labels], Goto(t, l)
    PROVE  /\ pc[t] \in InsideLabels /\ l \in InsideLabels => Inside' = Inside
           /\ pc[t] \notin InsideLabels /\ l \notin InsideLabels =>
                 Inside' = Inside
           /\ pc[t] \notin InsideLabels /\ l \in InsideLabels =>
                 Cardinality(Inside') = Cardinality(Inside) + 1
           /\ pc[t] \in InsideLabels /\ l \notin InsideLabels =>
                 Inside' = Inside \ {t} /\ t \in Inside
<1>1. Inside = {u \in Threads : pc[u] \in InsideLabels}
  BY DEF Inside, InsideLabels
<1>2. Inside' = {u \in Threads : pc'[u] \in InsideLabels}
  BY DEF Inside, InsideLabels
<1>3. \A u \in Threads : pc'[u] = IF u = t THEN l ELSE pc[u]
  BY DEF Goto
<1>4. ASSUME pc[t] \notin InsideLabels, l \in InsideLabels
      PROVE  Cardinality(Inside') = Cardinality(Inside) + 1
  <2>1. Inside' = Inside \cup {t} /\ t \notin Inside
    BY <1>1, <1>2, <1>3, <1>4
  <2>2. IsFiniteSet(Inside)
    BY FiniteThreads DEF Inside
  <2> QED BY <2>1, <2>2, FS_AddElement
<1> QED BY <1>1, <1>2, <1>3, <1>4

(* Without a reference nobody is inside.                                   *)
LEMMA NobodyInside ==
    ASSUME RefsExact, refs = 0
    PROVE  \A t \in Threads : pc[t] \notin InsideLabels
<1>1. IsFiniteSet(Inside) /\ Cardinality(Inside) = 0
  BY FiniteThreads DEF Inside, RefsExact
<1>2. Inside = {}
  BY <1>1, FS_EmptySet
<1> QED BY <1>2 DEF Inside, InsideLabels

(* What a thread owes the entry count enters and leaves the sum as it is.  *)
LEMMA SumChange ==
    ASSUME NEW f, NEW t \in Threads,
           f \in [Threads -> -Cardinality(Keys) .. 1], f[t] = 0,
           NEW n \in -Cardinality(Keys) .. 1,
           NEW g, g = [f EXCEPT ![t] = n]
    PROVE  SumOf(f) \in Int /\ SumOf(g) = SumOf(f) + n
<1> DEFINE N == Cardinality(Keys)
           Ones(h) == {u \in Threads : h[u] = 1}
           Owed(h) == {p \in Threads \X (1 .. N) : p[2] <= -h[p[1]]}
<1>1. N \in Nat
  BY FiniteKeys
<1>2. \A h : /\ IsFiniteSet(Ones(h)) /\ Cardinality(Ones(h)) \in Nat
             /\ IsFiniteSet(Owed(h)) /\ Cardinality(Owed(h)) \in Nat
  <2> TAKE h
  <2>1. IsFiniteSet(1 .. N)
    BY <1>1, FS_Interval
  <2>2. IsFiniteSet(Threads \X (1 .. N))
    BY <2>1, CacheAssumption, FS_Product
  <2>3. Ones(h) \in SUBSET Threads /\ Owed(h) \in SUBSET (Threads \X (1 .. N))
    OBVIOUS
  <2>4. IsFiniteSet(Ones(h)) /\ IsFiniteSet(Owed(h))
    BY <2>2, <2>3, CacheAssumption, FS_Subset
  <2> QED BY <2>4, FS_CardinalityType
<1>3. \A h : SumOf(h) = Cardinality(Ones(h)) - Cardinality(Owed(h))
  BY DEF SumOf
<1> HIDE DEF Ones, Owed
<1>4. SumOf(f) \in Int
  BY <1>2, <1>3
<1>5. CASE n = 1
  <2>1. Ones(g) = Ones(f) \cup {t} /\ t \notin Ones(f)
    BY <1>5 DEF Ones
  <2>2. Owed(g) = Owed(f)
    <3>1. \A p \in Threads \X (1 .. N) : p[2] <= -g[p[1]] <=> p[2] <= -f[p[1]]
      <4> TAKE p \in Threads \X (1 .. N)
      <4>1. p[1] \in Threads /\ p[2] \in 1 .. N
        OBVIOUS
      <4>2. CASE p[1] = t
        BY <1>1, <1>5, <4>1, <4>2
      <4>3. CASE p[1] # t
        BY <4>1, <4>3
      <4> QED BY <4>2, <4>3
    <3> QED BY <3>1 DEF Owed
  <2>3. Cardinality(Ones(g)) = Cardinality(Ones(f)) + 1
    <3>1. IsFiniteSet(Ones(f))
      BY <1>2
    <3>2. Cardinality(Ones(f) \cup {t}) = Cardinality(Ones(f)) + 1
      BY <2>1, <3>1, FS_AddElement
    <3> QED BY <2>1, <3>2
  <2> QED BY <1>2, <1>3, <1>4, <1>5, <2>2, <2>3
<1>6. CASE n # 1
  <2> DEFINE New == {t} \X (1 .. -n)
  <2>1. n <= 0 /\ -n \in Nat /\ -n <= N
    BY <1>1, <1>6
  <2>2. Ones(g) = Ones(f)
    BY <1>6 DEF Ones
  <2>3. Owed(g) = Owed(f) \cup New
    <3>1. ASSUME NEW p \in Owed(g) PROVE p \in Owed(f) \cup New
      <4>1. /\ p[1] \in Threads /\ p[2] \in 1 .. N /\ p = <<p[1], p[2]>>
            /\ p[2] <= -g[p[1]]
        BY <3>1 DEF Owed
      <4>2. CASE p[1] = t
        BY <1>1, <2>1, <4>1, <4>2
      <4>3. CASE p[1] # t
        BY <3>1, <4>1, <4>3 DEF Owed
      <4> QED BY <4>2, <4>3
    <3>2. ASSUME NEW p \in Owed(f) PROVE p \in Owed(g)
      <4>1. p[1] \in Threads /\ p[2] \in 1 .. N /\ p[2] <= -f[p[1]]
        BY DEF Owed
      <4>2. p[1] # t
        BY <1>1, <4>1
      <4> QED BY <4>1, <4>2 DEF Owed
    <3>3. ASSUME NEW p \in New PROVE p \in Owed(g)
      <4>1. /\ p \in Threads \X (1 .. N)
            /\ p[1] = t /\ p[2] <= -n
        BY <1>1, <2>1
      <4> QED BY <2>1, <4>1 DEF Owed
    <3> HIDE DEF New
    <3> QED BY <3>1, <3>2, <3>3
  <2>4. Owed(f) \cap New = {}
    BY <1>1 DEF Owed
  <2>5. IsFiniteSet(New) /\ Cardinality(New) = -n
    <3>1. IsFiniteSet({t}) /\ Cardinality({t}) = 1
      BY FS_Singleton
    <3>2. IsFiniteSet(1 .. -n) /\ Cardinality(1 .. -n) = -n
      BY <2>1, FS_Interval
    <3>3. IsFiniteSet(New) /\ Cardinality(New) = 1 * Cardinality(1 .. -n)
      BY <3>1, <3>2, FS_Product
    <3> QED BY <2>1, <3>2, <3>3
  <2>6. Cardinality(Owed(g)) = Cardinality(Owed(f)) + (-n)
    <3> HIDE DEF New
    <3>1. Cardinality(Owed(f) \cup New)
            = Cardinality(Owed(f)) + Cardinality(New) - Cardinality({})
      BY <1>2, <2>4, <2>5, FS_Union
    <3>2. Cardinality({}) = 0
      BY FS_EmptySet
    <3>3. Cardinality(Owed(f)) \in Nat
      BY <1>2
    <3>4. Cardinality(Owed(f)) + Cardinality(New) - Cardinality({})
            = Cardinality(Owed(f)) + (-n)
      BY <2>1, <2>5, <3>2, <3>3
    <3> QED BY <2>3, <3>1, <3>4
  <2> QED BY <1>2, <1>3, <1>4, <2>1, <2>2, <2>6
<1> QED BY <1>4, <1>5, <1>6

(* When nobody owes anything, the sum is zero.                             *)
LEMMA SumZero ==
    ASSUME NEW f, \A t \in Threads : f[t] = 0
    PROVE  SumOf(f) = 0
<1> DEFINE Ones == {t \in Threads : f[t] = 1}
           Owed == {p \in Threads \X (1 .. Cardinality(Keys)) :
                       p[2] <= -f[p[1]]}
<1>1. Ones = {}
  OBVIOUS
<1>2. Owed = {}
  BY FiniteKeys
<1>3. SumOf(f) = Cardinality(Ones) - Cardinality(Owed)
  BY DEF SumOf
<1> HIDE DEF Ones, Owed
<1> QED BY <1>1, <1>2, <1>3, FS_EmptySet

-----------------------------------------------------------------------------
(* The steps of an operation.                                              *)

(* ActiveReferences goes on counting the threads inside.                   *)
LEMMA StepRefs ==
    ASSUME CacheTypeOK, RefsExact, NEW t \in Threads, CacheStep(t)
    PROVE  RefsExact' /\ refs' \in Nat
<1> USE DEF CacheTypeOK
<1>0. /\ Inside \in SUBSET Threads /\ Inside' \in SUBSET Threads
      /\ Cardinality(Inside) \in Nat /\ Cardinality(Inside') \in Nat
      /\ IsFiniteSet(Inside)
  BY FiniteThreads DEF Inside
<1>1. SUFFICES RefsExact'
  BY <1>0 DEF RefsExact
<1>2. CASE AcquireReference(t)
  BY <1>0, <1>2, InsideMoves DEF AcquireReference, RefsExact, InsideLabels
<1>3. CASE AcquireRecheck(t)
  BY <1>3, InsideMoves DEF AcquireRecheck, RefsExact, InsideLabels
<1>4. CASE CacheFull(t)
  BY <1>4, InsideMoves DEF CacheFull, RefsExact, InsideLabels
<1>5. CASE CacheLookup(t)
  BY <1>5, InsideMoves DEF CacheLookup, RefsExact, InsideLabels
<1>6. CASE CacheInsert(t)
  BY <1>6, InsideMoves DEF CacheInsert, RefsExact, InsideLabels
<1>7. CASE CacheInsertFailed(t)
  BY <1>7, InsideMoves DEF CacheInsertFailed, RefsExact, InsideLabels
<1>8. CASE CacheRemove(t)
  BY <1>8, InsideMoves DEF CacheRemove, RefsExact, InsideLabels
<1>9. CASE CountEntries(t)
  BY <1>9, InsideMoves DEF CountEntries, RefsExact, InsideLabels
<1>10. CASE ReleaseReference(t)
  <2>1. Inside' = Inside \ {t} /\ t \in Inside
    BY <1>10, InsideMoves DEF ReleaseReference, InsideLabels
  <2>2. Cardinality(Inside') = Cardinality(Inside) - 1
    BY <1>0, <2>1, FS_RemoveElement
  <2> QED BY <1>10, <2>2 DEF ReleaseReference, RefsExact
<1>11. CASE SignalShutdown(t)
  BY <1>11, InsideMoves DEF SignalShutdown, RefsExact, InsideLabels
<1> QED BY <1>2, <1>3, <1>4, <1>5, <1>6, <1>7, <1>8, <1>9, <1>10, <1>11
        DEF CacheStep

(* An operation keeps the types, and what expires is an entry.             *)
LEMMA StepType ==
    ASSUME CacheTypeOK, CallShape, RefsExact, NEW t \in Threads, CacheStep(t)
    PROVE  CacheTypeOK'
<1> USE DEF CacheTypeOK, lifeVars, tableVars, callVars, Goto, Labels
<1>1. refs' \in Nat
  BY StepRefs
<1>2. CASE AcquireReference(t)
  BY <1>1, <1>2 DEF AcquireReference, Refused, Entries
<1>3. CASE AcquireRecheck(t)
  BY <1>1, <1>3 DEF AcquireRecheck, Refused, Entries
<1>4. CASE CacheFull(t)
  BY <1>1, <1>4 DEF CacheFull, Refused, Entries
<1>5. CASE CacheLookup(t)
  <2>1. key[t] \in Keys
    BY <1>5 DEF CacheLookup, CallShape
  <2>2. verdict' \in [Threads -> Verdicts \cup {NULL}]
    BY <1>5, <2>1 DEF CacheLookup, Verdicts, Definitive
  <2> QED BY <1>1, <1>5, <2>2 DEF CacheLookup, Entries
<1>6. CASE CacheInsert(t)
  <2>1. key[t] \in Keys /\ verdict[t] \in Definitive
    BY <1>6 DEF CacheInsert, CallShape, Entering
  <2>2. entry' \in [Keys -> Definitive \cup {NULL}]
    BY <1>6, <2>1 DEF CacheInsert
  <2>3. expired' \subseteq Entries'
    BY <1>6, <2>1 DEF CacheInsert, Entries
  <2>4. /\ delta' \in [Threads -> Int] /\ pc' \in [Threads -> Labels]
    BY <1>6 DEF CacheInsert
  <2> QED BY <1>1, <1>6, <2>2, <2>3, <2>4 DEF CacheInsert
<1>7. CASE CacheInsertFailed(t)
  BY <1>1, <1>7 DEF CacheInsertFailed, Refused, Entries
<1>8. CASE CacheRemove(t)
  <2>1. Removed(t) \in SUBSET Entries
    BY DEF Removed
  <2>2. Cardinality(Removed(t)) \in Nat
    BY <2>1, FiniteKeys DEF Entries
  <2>3. entry' \in [Keys -> Definitive \cup {NULL}]
    BY <1>8 DEF CacheRemove
  <2>4. expired' \subseteq Entries'
    BY <1>8, <2>1 DEF CacheRemove, Entries
  <2>5. delta' \in [Threads -> Int] /\ pc' \in [Threads -> Labels]
    BY <1>8, <2>2 DEF CacheRemove
  <2> QED BY <1>1, <1>8, <2>3, <2>4, <2>5 DEF CacheRemove
<1>9. CASE CountEntries(t)
  BY <1>1, <1>9 DEF CountEntries, Refused, Entries
<1>10. CASE ReleaseReference(t)
  BY <1>1, <1>10 DEF ReleaseReference, Refused, Entries
<1>11. CASE SignalShutdown(t)
  BY <1>1, <1>11 DEF SignalShutdown, Refused, Entries
<1> QED BY <1>2, <1>3, <1>4, <1>5, <1>6, <1>7, <1>8, <1>9, <1>10, <1>11
        DEF CacheStep

(* An operation keeps the shape of its call, and owes nothing but when it  *)
(* is about to count.                                                      *)
LEMMA StepShape ==
    ASSUME CacheTypeOK, CallShape, DeltaShape, NEW t \in Threads, CacheStep(t)
    PROVE  CallShape' /\ DeltaShape'
<1> USE DEF CacheTypeOK, lifeVars, tableVars, callVars, Goto, Labels,
            CallShape, DeltaShape, Entering
<1>1. Cardinality(Keys) \in Nat
  BY FiniteKeys
<1>2. CASE AcquireReference(t)
  BY <1>1, <1>2 DEF AcquireReference, Refused
<1>3. CASE AcquireRecheck(t)
  BY <1>1, <1>3 DEF AcquireRecheck, Refused
<1>4. CASE CacheFull(t)
  BY <1>1, <1>4 DEF CacheFull, Refused
<1>5. CASE CacheLookup(t)
  BY <1>1, <1>5 DEF CacheLookup, Refused
<1>6. CASE CacheInsert(t)
  BY <1>1, <1>6 DEF CacheInsert, Refused
<1>7. CASE CacheInsertFailed(t)
  BY <1>1, <1>7 DEF CacheInsertFailed, Refused
<1>8. CASE CacheRemove(t)
  <2>1. Removed(t) \in SUBSET Keys
    BY DEF Removed, Entries
  <2>2. Cardinality(Removed(t)) \in 0 .. Cardinality(Keys)
    BY <2>1, FiniteKeys
  <2>3. CallShape'
    BY <1>8 DEF CacheRemove
  <2>4. DeltaShape'
    BY <1>1, <1>8, <2>2 DEF CacheRemove
  <2> QED BY <2>3, <2>4
<1>9. CASE CountEntries(t)
  BY <1>1, <1>9 DEF CountEntries, Refused
<1>10. CASE ReleaseReference(t)
  BY <1>1, <1>10 DEF ReleaseReference, Refused
<1>11. CASE SignalShutdown(t)
  BY <1>1, <1>11 DEF SignalShutdown, Refused
<1> QED BY <1>2, <1>3, <1>4, <1>5, <1>6, <1>7, <1>8, <1>9, <1>10, <1>11
        DEF CacheStep

(* Once the shutdown has begun, no operation gets to the buckets any more  *)
(* that was not there already, and none is there when the event is set.    *)
LEMMA StepStop ==
    ASSUME CacheTypeOK, CallShape, RefsExact, StopShape,
           NEW t \in Threads, CacheStep(t)
    PROVE  StopShape'
<1> USE DEF CacheTypeOK, lifeVars, tableVars, callVars, Goto, Labels,
            StopShape, NoUseAfterTeardown, Busy
<1>1. CASE AcquireReference(t)
  BY <1>1 DEF AcquireReference, Refused
<1>2. CASE AcquireRecheck(t)
  BY <1>2 DEF AcquireRecheck, Refused
<1>3. CASE CacheFull(t)
  BY <1>3 DEF CacheFull, Refused
<1>4. CASE CacheLookup(t)
  BY <1>4 DEF CacheLookup, Refused
<1>5. CASE CacheInsert(t)
  BY <1>5 DEF CacheInsert, Refused
<1>6. CASE CacheInsertFailed(t)
  BY <1>6 DEF CacheInsertFailed, Refused
<1>7. CASE CacheRemove(t)
  BY <1>7 DEF CacheRemove, Refused
<1>8. CASE CountEntries(t)
  BY <1>8 DEF CountEntries, Refused
<1>9. CASE ReleaseReference(t)
  <2>1. ASSUME refs = 1 PROVE \A u \in Threads : pc'[u] \notin Busy
    <3>1. RefsExact' /\ refs' = 0
      BY <1>9, <2>1, StepRefs DEF ReleaseReference
    <3>2. IsFiniteSet(Inside') /\ Cardinality(Inside') = 0
      BY <3>1, FiniteThreads DEF Inside, RefsExact
    <3>3. Inside' = {}
      BY <3>2, FS_EmptySet
    <3> QED BY <3>3 DEF Inside
  <2> QED BY <1>9, <2>1 DEF ReleaseReference
<1>10. CASE SignalShutdown(t)
  BY <1>10 DEF SignalShutdown, Refused
<1> QED BY <1>1, <1>2, <1>3, <1>4, <1>5, <1>6, <1>7, <1>8, <1>9, <1>10
        DEF CacheStep

(* CurrentEntries, with what is owed to it, goes on counting the entries.  *)
LEMMA StepCount ==
    ASSUME CacheTypeOK, CallShape, DeltaShape, RefsExact, CountExact,
           NEW t \in Threads, CacheStep(t)
    PROVE  CountExact'
<1>1. /\ delta \in [Threads -> -Cardinality(Keys) .. 1]
      /\ delta' \in [Threads -> -Cardinality(Keys) .. 1]
      /\ Cardinality(Keys) \in Nat
  <2>1. DeltaShape' /\ CacheTypeOK'
    BY StepShape, StepType
  <2> QED BY <2>1, FiniteKeys DEF DeltaShape, CacheTypeOK
<1>2. IsFiniteSet(Entries) /\ Cardinality(Entries) \in Nat /\ count \in Int
  BY FiniteKeys DEF Entries, CacheTypeOK
<1>3. ASSUME UNCHANGED <<entry, delta, count>> PROVE CountExact'
  BY <1>3 DEF CountExact, Entries, SumOf
<1>4. CASE CacheInsert(t)
  <2>1. key[t] \in Keys /\ verdict[t] \in Definitive /\ delta[t] = 0
    BY <1>4 DEF CacheInsert, CallShape, DeltaShape, Entering
  <2>2. verdict[t] # NULL
    BY <2>1, CacheAssumption DEF Definitive, Verdicts
  <2>3. Entries' = Entries \cup {key[t]}
    BY <1>4, <2>1, <2>2 DEF CacheInsert, Entries, CacheTypeOK
  <2>4. CASE key[t] \in Entries
    <3>1. Entries' = Entries
      BY <2>3, <2>4
    <3>2. UNCHANGED <<delta, count>>
      BY <1>4, <2>4 DEF CacheInsert
    <3> QED BY <3>1, <3>2 DEF CountExact, SumOf
  <2>5. CASE key[t] \notin Entries
    <3>1. Cardinality(Entries') = Cardinality(Entries) + 1
      BY <1>2, <2>3, <2>5, FS_AddElement
    <3>2. delta' = [delta EXCEPT ![t] = 1] /\ count' = count
      BY <1>4, <2>5 DEF CacheInsert
    <3>3. SumOf(delta') = SumOf(delta) + 1 /\ SumOf(delta) \in Int
      <4> DEFINE one == 1
      <4>1. one \in -Cardinality(Keys) .. 1 /\ delta' = [delta EXCEPT ![t] = one]
        BY <1>1, <3>2
      <4> HIDE DEF one
      <4>2. SumOf(delta') = SumOf(delta) + one /\ SumOf(delta) \in Int
        BY <1>1, <2>1, <4>1, SumChange
      <4> QED BY <4>2 DEF one
    <3>4. CountExact' <=> count' + SumOf(delta') = Cardinality(Entries')
      BY DEF CountExact, SumOf
    <3> QED BY <1>2, <3>1, <3>2, <3>3, <3>4 DEF CountExact
  <2> QED BY <2>4, <2>5
<1>5. CASE CacheRemove(t)
  <2> DEFINE R == Removed(t)
  <2>1. R \in SUBSET Entries /\ R \in SUBSET Keys
    BY DEF Removed, Entries, CacheTypeOK
  <2>2. Entries' = Entries \ R
    BY <1>5, <2>1 DEF CacheRemove, Entries, CacheTypeOK
  <2>3. delta[t] = 0
    BY <1>5 DEF CacheRemove, DeltaShape
  <2>4. CASE R = {}
    <3>1. Entries' = Entries /\ UNCHANGED <<delta, count>>
      BY <1>5, <2>2, <2>4 DEF CacheRemove
    <3> QED BY <3>1 DEF CountExact, SumOf
  <2>5. CASE R # {}
    <3>1. delta' = [delta EXCEPT ![t] = -Cardinality(R)] /\ count' = count
      BY <1>5, <2>5 DEF CacheRemove
    <3>2. Cardinality(R) \in 0 .. Cardinality(Keys)
      BY <2>1, FiniteKeys
    <3>3. -Cardinality(R) \in -Cardinality(Keys) .. 1
      BY <1>1, <3>2
    <3>4. SumOf(delta') = SumOf(delta) + (-Cardinality(R)) /\ SumOf(delta) \in Int
      <4> HIDE DEF R
      <4> QED BY <1>1, <2>3, <3>1, <3>3, SumChange
    <3>5. Cardinality(Entries \ R)
            = Cardinality(Entries) - Cardinality(Entries \cap R)
      BY <1>2, FS_Difference
    <3>6. Entries \cap R = R
      BY <2>1
    <3>7. CountExact' <=> count' + SumOf(delta') = Cardinality(Entries')
      BY DEF CountExact, SumOf
    <3> HIDE DEF R
    <3>8. Cardinality(Entries') = Cardinality(Entries) - Cardinality(R)
      BY <2>2, <3>5, <3>6
    <3> QED BY <1>2, <3>1, <3>2, <3>4, <3>7, <3>8 DEF CountExact
  <2> QED BY <2>4, <2>5
<1>6. CASE CountEntries(t)
  <2>1. /\ delta' = [delta EXCEPT ![t] = 0] /\ count' = count + delta[t]
        /\ Entries' = Entries
    BY <1>6 DEF CountEntries, tableVars, Entries
  <2>2. delta'[t] = 0 /\ delta = [delta' EXCEPT ![t] = delta[t]]
    BY <1>1, <2>1
  <2>3. /\ delta[t] \in -Cardinality(Keys) .. 1
        /\ delta[t] \in Int
    BY <1>1
  <2>4. SumOf(delta) = SumOf(delta') + delta[t] /\ SumOf(delta') \in Int
    BY <1>1, <2>2, <2>3, SumChange
  <2>5. CountExact' <=> count' + SumOf(delta') = Cardinality(Entries')
    BY DEF CountExact, SumOf
  <2> QED BY <1>2, <2>1, <2>3, <2>4, <2>5 DEF CountExact
<1>7. CASE \/ AcquireReference(t) \/ AcquireRecheck(t) \/ CacheFull(t)
           \/ CacheLookup(t) \/ CacheInsertFailed(t) \/ ReleaseReference(t)
           \/ SignalShutdown(t)
  BY <1>3, <1>7 DEF AcquireReference, AcquireRecheck, CacheFull, CacheLookup,
     CacheInsertFailed, ReleaseReference, SignalShutdown, tableVars
<1> QED BY <1>4, <1>5, <1>6, <1>7 DEF CacheStep

(* A step of an operation preserves the invariant of the cache.            *)
LEMMA CacheStepInv ==
    ASSUME CacheInv, NEW t \in Threads, CacheStep(t)
    PROVE  CacheInv'
BY StepRefs, StepType, StepShape, StepStop, StepCount DEF CacheInv

-----------------------------------------------------------------------------
(* The calls and the shutdown.                                             *)

(* A step that leaves the cache alone.                                     *)
LEMMA CacheIdle ==
    ASSUME CacheInv, UNCHANGED cacheVars
    PROVE  CacheInv'
BY DEF CacheInv, CacheTypeOK, CallShape, DeltaShape, RefsExact, StopShape,
   CountExact, cacheVars, lifeVars, tableVars, callVars, Entries, Inside,
   SumOf, NoUseAfterTeardown

(* A thread outside calls an operation.                                    *)
LEMMA CallInv ==
    ASSUME CacheInv, NEW t \in Threads, pc[t] = "out", op[t] = "none",
           NEW o \in Operations \ {"none"}, NEW k \in Keys \cup {NULL},
           NEW v \in Verdicts \cup {NULL},
           o \in {"lookup", "insert", "remove"} => k \in Keys,
           Call(t, o, k, v)
    PROVE  CacheInv'
<1> USE DEF CacheInv, CacheTypeOK, lifeVars, tableVars, callVars, Goto, Labels
<1>1. CASE UNCHANGED <<callVars, pc>>
  BY <1>1, CacheIdle DEF Call, cacheVars
<1>2. CASE /\ o = "insert" => v \in Definitive
           /\ op' = [op EXCEPT ![t] = o] /\ key' = [key EXCEPT ![t] = k]
           /\ verdict' = [verdict EXCEPT ![t] = v] /\ Goto(t, "enter")
  <2>1. CacheTypeOK'
    BY <1>2 DEF Call, Entries
  <2>2. CallShape' /\ DeltaShape'
    BY <1>2 DEF Call, CallShape, DeltaShape, Entering
  <2>3. RefsExact'
    <3>1. Inside' = Inside
      BY <1>2 DEF Call, Inside
    <3> QED BY <1>2, <3>1 DEF Call, RefsExact
  <2>4. ASSUME ~LateSignal PROVE StopShape' /\ CountExact'
    BY <1>2, <2>4 DEF Call, StopShape, NoUseAfterTeardown, Busy, CountExact,
       Entries, SumOf
  <2> QED BY <2>1, <2>2, <2>3, <2>4
<1> QED BY <1>1, <1>2 DEF Call

(* A caller takes what its call reported.                                  *)
LEMMA ForgetInv ==
    ASSUME CacheInv, NEW t \in Threads, pc[t] = "out", Forget(t)
    PROVE  CacheInv'
<1> USE DEF CacheInv, CacheTypeOK, lifeVars, tableVars, callVars, Forget
<1>1. CacheTypeOK'
  BY DEF Entries, Operations
<1>2. CallShape' /\ DeltaShape'
  BY DEF CallShape, DeltaShape, Entering
<1>3. RefsExact'
  BY DEF RefsExact, Inside
<1>4. ~LateSignal => StopShape' /\ CountExact'
  BY DEF StopShape, NoUseAfterTeardown, CountExact, Entries, SumOf
<1> QED BY <1>1, <1>2, <1>3, <1>4

(* Time passes for an entry.                                               *)
LEMMA ExpireInv ==
    ASSUME CacheInv, Expire
    PROVE  CacheInv'
<1> USE DEF CacheInv, CacheTypeOK, lifeVars, tableVars, callVars, Expire
<1>1. CacheTypeOK'
  BY DEF Entries
<1>2. CallShape' /\ DeltaShape' /\ RefsExact'
  BY DEF CallShape, DeltaShape, RefsExact, Inside
<1>3. ~LateSignal => StopShape' /\ CountExact'
  BY DEF StopShape, NoUseAfterTeardown, CountExact, Entries, SumOf
<1> QED BY <1>1, <1>2, <1>3

(* The steps of ShadowStrikeCacheShutdown.                                 *)
LEMMA ShutdownInv ==
    ASSUME CacheInv, ShutdownBegin \/ ShutdownGiveUp \/ ShutdownStep
    PROVE  CacheInv'
<1> USE DEF CacheInv, CacheTypeOK, lifeVars, tableVars, callVars
<1>1. CallShape' /\ DeltaShape' /\ RefsExact'
  <2>1. UNCHANGED <<op, key, verdict, delta, pc, refs>>
    BY DEF ShutdownBegin, ShutdownGiveUp, ShutdownStep,
       ShutdownWait, ShutdownClear, ShutdownDelete
  <2> QED BY <2>1 DEF CallShape, DeltaShape, RefsExact, Inside
<1>2. CASE ShutdownBegin
  <2>1. CacheTypeOK'
    BY <1>2 DEF ShutdownBegin, Entries
  <2>2. ~LateSignal => StopShape' /\ CountExact'
    BY <1>2 DEF ShutdownBegin, StopShape, NoUseAfterTeardown, CountExact,
       Entries, SumOf
  <2> QED BY <1>1, <2>1, <2>2
<1>3. CASE ShutdownGiveUp
  <2>1. CacheTypeOK'
    BY <1>3 DEF ShutdownGiveUp, Entries
  <2>2. ~LateSignal => StopShape' /\ CountExact'
    BY <1>3 DEF ShutdownGiveUp, StopShape, NoUseAfterTeardown, CountExact,
       Entries, SumOf
  <2> QED BY <1>1, <2>1, <2>2
<1>4. CASE ShutdownWait
  <2>1. CacheTypeOK'
    BY <1>4 DEF ShutdownWait, Entries
  <2>2. ~LateSignal => CountExact'
    BY <1>4 DEF ShutdownWait, CountExact, Entries, SumOf
  <2>3. ~LateSignal => StopShape'
    BY <1>4, NobodyInside DEF ShutdownWait, StopShape,
       NoUseAfterTeardown, Busy, InsideLabels
  <2> QED BY <1>1, <2>1, <2>2, <2>3
<1>5. CASE ShutdownClear
  <2>1. Entries' = {}
    BY <1>5 DEF ShutdownClear, Entries
  <2>2. CacheTypeOK'
    BY <1>5, <2>1 DEF ShutdownClear
  <2>3. ~LateSignal => StopShape'
    BY <1>5 DEF ShutdownClear, StopShape, NoUseAfterTeardown
  <2>4. ASSUME ~LateSignal PROVE CountExact'
    <3>1. \A t \in Threads : delta'[t] = 0
      BY <1>5, <2>4 DEF ShutdownClear, StopShape, NoUseAfterTeardown,
         DeltaShape
    <3>2. SumOf(delta') = 0
      BY <3>1, SumZero
    <3>3. CountExact' <=> count' + SumOf(delta') = Cardinality(Entries')
      BY DEF CountExact, SumOf
    <3>4. Cardinality(Entries') = 0
      BY <2>1, FS_EmptySet
    <3> QED BY <1>5, <3>2, <3>3, <3>4 DEF ShutdownClear
  <2> QED BY <1>1, <2>2, <2>3, <2>4
<1>6. CASE ShutdownDelete
  <2>1. CacheTypeOK'
    BY <1>6 DEF ShutdownDelete, Entries
  <2>2. ~LateSignal => StopShape' /\ CountExact'
    BY <1>6 DEF ShutdownDelete, StopShape, NoUseAfterTeardown, CountExact,
       Entries, SumOf
  <2> QED BY <1>1, <2>1, <2>2
<1> QED BY <1>2, <1>3, <1>4, <1>5, <1>6 DEF ShutdownStep

(* The cache as ShadowStrikeCacheInitialize leaves it.                     *)
LEMMA CacheInitInv == CacheInit => CacheInv
<1> SUFFICES ASSUME CacheInit PROVE CacheInv
  OBVIOUS
<1> USE DEF CacheInit
<1>1. Inside = {} /\ Entries = {}
  BY DEF Inside, Entries
<1>2. Cardinality({}) = 0
  BY FS_EmptySet
<1>3. Cardinality(Keys) \in Nat
  BY FiniteKeys
<1>4. CacheTypeOK
  <2>1. /\ entry \in [Keys -> Definitive \cup {NULL}]
        /\ op \in [Threads -> Operations]
        /\ key \in [Threads -> Keys \cup {NULL}]
        /\ verdict \in [Threads -> Verdicts \cup {NULL}]
        /\ pc \in [Threads -> Labels]
    BY DEF Operations, Labels
  <2>2. delta \in [Threads -> Int]
    OBVIOUS
  <2>3. refs \in Nat /\ count \in Int /\ expired \subseteq Entries
    OBVIOUS
  <2>4. /\ initialized \in BOOLEAN /\ stopping \in BOOLEAN
        /\ event \in BOOLEAN /\ lookaside \in BOOLEAN
    OBVIOUS
  <2>5. down \in {"off", "wait", "clear", "delete", "done", "gaveUp"}
    OBVIOUS
  <2> HIDE DEF CacheInit
  <2> QED BY <2>1, <2>2, <2>3, <2>4, <2>5 DEF CacheTypeOK
<1>5. CallShape
  BY DEF CallShape
<1>6. DeltaShape
  BY <1>3 DEF DeltaShape
<1>7. RefsExact /\ CountExact
  <2>1. SumOf(delta) = 0
    BY SumZero
  <2> QED BY <1>1, <1>2, <2>1 DEF RefsExact, CountExact
<1>8. StopShape
  BY DEF StopShape, NoUseAfterTeardown, Busy
<1> QED BY <1>4, <1>5, <1>6, <1>7, <1>8 DEF CacheInv

=============================================================================
