------------------------------ MODULE ScanCache ------------------------------
(***************************************************************************)
(* The kernel's cache of scan verdicts (PhantomSensor/Cache/ScanCache.c).  *)
(*                                                                         *)
(* An entry lives in the bucket of its key, under the bucket's lock; a     *)
(* section under a lock is one step.  ActiveReferences and CurrentEntries  *)
(* are counted outside the locks.  Every operation enters through          *)
(* ShadowStrikeCacheAcquireReference, which is what lets                   *)
(* ShadowStrikeCacheShutdown tear the cache down under running callbacks.  *)
(*                                                                         *)
(* A thread makes a call with Call and finds it over when its pc is "out"  *)
(* again; module FileScan supplies the callers.                            *)
(***************************************************************************)
EXTENDS Integers, FiniteSets

CONSTANTS
    Threads,
    Keys,        \* file identity, size and write time
    NULL,
    MaxEntries,  \* SHADOWSTRIKE_CACHE_MAX_ENTRIES
    LateSignal   \* TRUE: a thread may stop between its last decrement and
                 \* its look at ShutdownInProgress, as nothing in the code
                 \* prevents; FALSE: no shutdown begins in that gap

(* Unknown, Error and Timeout, which the code tells apart nowhere, are one *)
(* value, "Transient".  Suspicious is left out: PreCreate, the only caller *)
(* that inserts, treats it as it treats Clean.                             *)
Verdicts == {"Clean", "Malicious", "Transient"}

(* ShadowStrikeCacheIsCacheableVerdict.                                    *)
Definitive == {"Clean", "Malicious"}

ASSUME CacheAssumption ==
    /\ IsFiniteSet(Threads) /\ IsFiniteSet(Keys)
    /\ NULL \notin Keys \cup Verdicts
    /\ MaxEntries \in Nat
    /\ LateSignal \in BOOLEAN

VARIABLES
    initialized, \* Initialized
    stopping,    \* ShutdownInProgress
    event,       \* ShutdownEvent
    lookaside,   \* LookasideInitialized
    refs,        \* ActiveReferences
    entry,       \* key -> the verdict cached for it
    expired,     \* keys whose entry is past its ExpireTime
    count,       \* CurrentEntries
    op,          \* thread -> the operation it is in
    key,         \* thread -> the key it calls with
    verdict,     \* thread -> verdict to insert, or the one looked up
    delta,       \* thread -> what it still has to add to CurrentEntries
    pc,          \* thread -> where it is in the operation
    down         \* where ShadowStrikeCacheShutdown is

lifeVars == <<initialized, stopping, event, lookaside>>
tableVars == <<entry, expired>>
callVars == <<op, key, verdict>>
cacheVars == <<lifeVars, refs, tableVars, count, callVars, delta, pc, down>>

Goto(t, label) == pc' = [pc EXCEPT ![t] = label]

Entries == {k \in Keys : entry[k] # NULL}

(* ShadowStrikeCacheInitialize.                                            *)
CacheInit ==
    /\ initialized = TRUE
    /\ stopping = FALSE
    /\ event = FALSE
    /\ lookaside = TRUE
    /\ refs = 0
    /\ entry = [k \in Keys |-> NULL]
    /\ expired = {}
    /\ count = 0
    /\ op = [t \in Threads |-> "none"]
    /\ key = [t \in Threads |-> NULL]
    /\ verdict = [t \in Threads |-> NULL]
    /\ delta = [t \in Threads |-> 0]
    /\ pc = [t \in Threads |-> "out"]
    /\ down = "off"

-----------------------------------------------------------------------------
(* What every operation does first and last.                               *)

(* A call begins: Initialized and ShutdownInProgress, which the operation  *)
(* and AcquireReference test.  ShadowStrikeCacheInsert takes definitive    *)
(* verdicts only.  A refused call reports nothing.                         *)
Call(t, o, k, v) ==
    /\ IF initialized /\ ~stopping /\ (o = "insert" => v \in Definitive)
       THEN /\ op' = [op EXCEPT ![t] = o]
            /\ key' = [key EXCEPT ![t] = k]
            /\ verdict' = [verdict EXCEPT ![t] = v]
            /\ Goto(t, "enter")
       ELSE UNCHANGED <<callVars, pc>>
    /\ UNCHANGED <<lifeVars, refs, tableVars, count, delta, down>>

Refused(t) == verdict' = [verdict EXCEPT ![t] = NULL]

(* The caller has taken what the call reported.                            *)
Forget(t) ==
    /\ op' = [op EXCEPT ![t] = "none"]
    /\ key' = [key EXCEPT ![t] = NULL]
    /\ verdict' = [verdict EXCEPT ![t] = NULL]
    /\ UNCHANGED <<lifeVars, refs, tableVars, count, delta, pc, down>>

AcquireReference(t) ==
    /\ pc[t] = "enter"
    /\ refs' = refs + 1
    /\ Goto(t, "recheck")
    /\ UNCHANGED <<lifeVars, tableVars, count, callVars, delta, down>>

(* Seeded fault: the flag is not read again.                               *)
AcquireWithoutRecheck(t) ==
    /\ pc[t] = "recheck"
    /\ Goto(t, IF op[t] = "insert" THEN "limit" ELSE "work")
    /\ UNCHANGED <<lifeVars, refs, tableVars, count, callVars, delta, down>>

(* Seeded fault: the refused reference is kept.                            *)
AcquireRecheckLeaks(t) ==
    /\ pc[t] = "recheck"
    /\ IF stopping
       THEN Goto(t, "out") /\ Refused(t)
       ELSE /\ Goto(t, IF op[t] = "insert" THEN "limit" ELSE "work")
            /\ UNCHANGED verdict
    /\ UNCHANGED <<lifeVars, refs, tableVars, count, op, key, delta, down>>

(* Seeded fault: the refused reference is released here and on the way out.*)
AcquireRecheckReleasesTwice(t) ==
    /\ pc[t] = "recheck"
    /\ IF stopping
       THEN Goto(t, "leave") /\ Refused(t) /\ refs' = refs - 1
       ELSE /\ Goto(t, IF op[t] = "insert" THEN "limit" ELSE "work")
            /\ UNCHANGED <<verdict, refs>>
    /\ UNCHANGED <<lifeVars, tableVars, count, op, key, delta, down>>

(* The second look at the flag, with the reference held.                   *)
AcquireRecheck(t) ==
    /\ pc[t] = "recheck"
    /\ IF stopping
       THEN Goto(t, "leave") /\ Refused(t)
       ELSE /\ Goto(t, IF op[t] = "insert" THEN "limit" ELSE "work")
            /\ UNCHANGED verdict
    /\ UNCHANGED <<lifeVars, refs, tableVars, count, op, key, delta, down>>

ReleaseReference(t) ==
    /\ pc[t] = "leave"
    /\ refs' = refs - 1
    /\ Goto(t, IF refs = 1 THEN "signal" ELSE "out")
    /\ UNCHANGED <<lifeVars, tableVars, count, callVars, delta, down>>

(* Whoever released the last reference looks for a shutdown.  By now the   *)
(* count may be above zero again.                                          *)
SignalShutdown(t) ==
    /\ pc[t] = "signal"
    /\ event' = (event \/ stopping)
    /\ Goto(t, "out")
    /\ UNCHANGED <<initialized, stopping, lookaside, refs, tableVars, count,
                   callVars, delta, down>>

-----------------------------------------------------------------------------
(* The operations.                                                         *)

CacheLookup(t) ==
    /\ pc[t] = "work" /\ op[t] = "lookup"
    /\ verdict' = [verdict EXCEPT
                      ![t] = IF key[t] \in expired THEN NULL ELSE entry[key[t]]]
    /\ Goto(t, "leave")
    /\ UNCHANGED <<lifeVars, refs, tableVars, count, op, key, delta, down>>

(* The limit is tested before the lock is taken.                           *)
CacheFull(t) ==
    /\ pc[t] = "limit"
    /\ Goto(t, IF count >= MaxEntries THEN "leave" ELSE "work")
    /\ UNCHANGED <<lifeVars, refs, tableVars, count, callVars, delta, down>>

(* Seeded fault: an update is counted like a new entry.                    *)
CacheInsertCountsAll(t) ==
    /\ pc[t] = "work" /\ op[t] = "insert"
    /\ entry' = [entry EXCEPT ![key[t]] = verdict[t]]
    /\ expired' = expired \ {key[t]}
    /\ delta' = [delta EXCEPT ![t] = 1]
    /\ Goto(t, "count")
    /\ UNCHANGED <<lifeVars, refs, count, callVars, down>>

(* An entry of the same key is overwritten, a new one is counted once the  *)
(* lock is released.                                                       *)
CacheInsert(t) ==
    /\ pc[t] = "work" /\ op[t] = "insert"
    /\ entry' = [entry EXCEPT ![key[t]] = verdict[t]]
    /\ expired' = expired \ {key[t]}
    /\ IF key[t] \in Entries
       THEN Goto(t, "leave") /\ UNCHANGED delta
       ELSE Goto(t, "count") /\ delta' = [delta EXCEPT ![t] = 1]
    /\ UNCHANGED <<lifeVars, refs, count, callVars, down>>

(* The lookaside list has no memory for a new entry.                       *)
CacheInsertFailed(t) ==
    /\ pc[t] = "work" /\ op[t] = "insert"
    /\ key[t] \notin Entries
    /\ Goto(t, "leave")
    /\ UNCHANGED <<lifeVars, refs, tableVars, count, callVars, delta, down>>

(* CleanupInProgress: from the scan of the buckets to the counting.        *)
CleanupInProgress == \E t \in Threads : op[t] = "cleanup" /\ pc[t] = "count"

(* The keys an operation takes out: Remove its own, the periodic cleanup   *)
(* what has expired, InvalidateVolume all of the volume.  The last two go  *)
(* from bucket to bucket, here in one step: no property relates entries of *)
(* different buckets but by their number, which is settled at the end.     *)
Removed(t) ==
    CASE op[t] = "remove"  -> Entries \cap {key[t]}
      [] op[t] = "cleanup" -> IF stopping \/ CleanupInProgress THEN {}
                              ELSE expired
      [] op[t] = "volume"  -> Entries
      [] OTHER -> {}

CacheRemove(t) ==
    /\ pc[t] = "work" /\ op[t] \in {"remove", "cleanup", "volume"}
    /\ entry' = [k \in Keys |-> IF k \in Removed(t) THEN NULL ELSE entry[k]]
    /\ expired' = expired \ Removed(t)
    /\ IF Removed(t) = {}
       THEN Goto(t, "leave") /\ UNCHANGED delta
       ELSE /\ delta' = [delta EXCEPT ![t] = -Cardinality(Removed(t))]
            /\ Goto(t, "count")
    /\ UNCHANGED <<lifeVars, refs, count, callVars, down>>

CountEntries(t) ==
    /\ pc[t] = "count"
    /\ count' = count + delta[t]
    /\ delta' = [delta EXCEPT ![t] = 0]
    /\ Goto(t, "leave")
    /\ UNCHANGED <<lifeVars, refs, tableVars, callVars, down>>

(* Time passes for an entry.                                               *)
Expire ==
    /\ \E k \in Entries \ expired : expired' = expired \cup {k}
    /\ UNCHANGED <<lifeVars, refs, entry, count, callVars, delta, pc, down>>

CacheStep(t) ==
    \/ AcquireReference(t) \/ AcquireRecheck(t)
    \/ CacheFull(t) \/ CacheLookup(t) \/ CacheInsert(t)
    \/ CacheInsertFailed(t) \/ CacheRemove(t) \/ CountEntries(t)
    \/ ReleaseReference(t) \/ SignalShutdown(t)

-----------------------------------------------------------------------------
(* ShadowStrikeCacheShutdown.                                              *)

ShutdownBegin ==
    /\ down = "off"
    /\ LateSignal \/ \A t \in Threads : pc[t] # "signal"
    /\ stopping' = TRUE
    /\ down' = "wait"
    /\ UNCHANGED <<initialized, event, lookaside, refs, tableVars, count,
                   callVars, delta, pc>>

(* While ActiveReferences is above zero the event is waited for; after 30  *)
(* seconds without it the references are read again, every 5 seconds.      *)
ShutdownWait ==
    /\ down = "wait"
    /\ event \/ refs = 0
    /\ down' = "clear"
    /\ UNCHANGED <<lifeVars, refs, tableVars, count, callVars, delta, pc>>

(* After 330 seconds the cache is left as it is.                           *)
ShutdownGiveUp ==
    /\ down = "wait"
    /\ refs > 0
    /\ down' = "gaveUp"
    /\ UNCHANGED <<lifeVars, refs, tableVars, count, callVars, delta, pc>>

(* ShadowStrikeCacheClearInternal.  No cleanup is in progress any more: it *)
(* held a reference.                                                       *)
ShutdownClear ==
    /\ down = "clear"
    /\ entry' = [k \in Keys |-> NULL]
    /\ expired' = {}
    /\ count' = 0
    /\ down' = "delete"
    /\ UNCHANGED <<lifeVars, refs, callVars, delta, pc>>

ShutdownDelete ==
    /\ down = "delete"
    /\ lookaside' = FALSE
    /\ initialized' = FALSE
    /\ down' = "done"
    /\ UNCHANGED <<stopping, event, refs, tableVars, count, callVars, delta,
                   pc>>

ShutdownStep ==
    \/ ShutdownWait \/ ShutdownClear \/ ShutdownDelete

-----------------------------------------------------------------------------
(* Properties of the cache.                                                *)

Operations == {"none", "lookup", "insert", "remove", "cleanup", "volume"}
Labels == {"out", "enter", "recheck", "limit", "work", "count",
           "leave", "signal"}

CacheTypeOK ==
    /\ initialized \in BOOLEAN /\ stopping \in BOOLEAN
    /\ event \in BOOLEAN /\ lookaside \in BOOLEAN
    /\ refs \in Nat
    /\ entry \in [Keys -> Definitive \cup {NULL}]
    /\ expired \subseteq Entries
    /\ count \in Int
    /\ op \in [Threads -> Operations]
    /\ key \in [Threads -> Keys \cup {NULL}]
    /\ verdict \in [Threads -> Verdicts \cup {NULL}]
    /\ delta \in [Threads -> Int]
    /\ pc \in [Threads -> Labels]
    /\ down \in {"off", "wait", "clear", "delete", "done", "gaveUp"}

Inside == {t \in Threads : pc[t] \in {"recheck", "limit", "work", "count",
                                      "leave"}}

(* ActiveReferences counts the threads between AcquireReference and        *)
(* ReleaseReference, the refused ones included.                            *)
RefsExact == refs = Cardinality(Inside)

(* No operation reaches the buckets or the lookaside list once the         *)
(* shutdown has begun to take them down.                                   *)
NoUseAfterTeardown ==
    down \in {"clear", "delete", "done"} =>
        \A t \in Threads : pc[t] \notin {"limit", "work", "count"}

(* The sum of f over the threads, where no value is above 1 and none below *)
(* minus the number of keys.                                               *)
SumOf(f) ==
    Cardinality({t \in Threads : f[t] = 1})
    - Cardinality({p \in Threads \X (1 .. Cardinality(Keys)) :
                      p[2] <= -f[p[1]]})

(* CurrentEntries, on which the limit rests, is the number of entries once *)
(* the threads at work have added what they owe it.                        *)
CountExact == count + SumOf(delta) = Cardinality(Entries)

(* The inductive invariant.  A call that is on its way has a proper key    *)
(* and, to insert, a verdict that may be cached; only the counting step    *)
(* owes CurrentEntries something.                                          *)
Entering == {"enter", "recheck", "limit", "work"}
Busy == {"limit", "work", "count"}

CallShape ==
    \A t \in Threads :
        /\ pc[t] # "out" => op[t] # "none"
        /\ pc[t] = "limit" => op[t] = "insert"
        /\ op[t] \in {"lookup", "insert", "remove"} => key[t] \in Keys
        /\ op[t] = "insert" /\ pc[t] \in Entering => verdict[t] \in Definitive

DeltaShape ==
    \A t \in Threads :
        /\ delta[t] \in -Cardinality(Keys) .. 1
        /\ pc[t] # "count" => delta[t] = 0

(* Once the shutdown has begun nobody new gets to the buckets, and whoever *)
(* may set the event has seen the last of those inside leave.              *)
StopShape ==
    /\ stopping <=> down # "off"
    /\ event => stopping
    /\ stopping /\ (event \/ \E t \in Threads : pc[t] = "signal") =>
          \A t \in Threads : pc[t] \notin Busy
    /\ NoUseAfterTeardown

(* The last two parts need that no shutdown begins between the last        *)
(* decrement of a thread and its look at ShutdownInProgress.               *)
CacheInv ==
    /\ CacheTypeOK /\ CallShape /\ DeltaShape
    /\ RefsExact
    /\ ~LateSignal => StopShape /\ CountExact

=============================================================================
