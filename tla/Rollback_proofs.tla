--------------------------- MODULE Rollback_proofs ---------------------------
(***************************************************************************)
(* Theorems about Rollback, for any number of threads and files, any       *)
(* number of snapshots and any number of crashes and cancellations.        *)
(*                                                                         *)
(* The argument for RollbackRestores: unless one was cancelled, at most    *)
(* one thread is in a rollback (RollShape), and nobody replaces files      *)
(* meanwhile, because an update replaces them under both locks while every *)
(* rollback holds one of the two (JobShape).                               *)
(*                                                                         *)
(* The argument for ListedComplete: while a snapshot is made it belongs to *)
(* its maker alone (MakingShape), so its manifest is what was copied; from *)
(* then on only a thread that has doomed it touches its directory          *)
(* (WorkShape).  DiskShape says so of everything on disk, listed or not,   *)
(* because a crash lists all of it.                                        *)
(***************************************************************************)
EXTENDS Rollback, FiniteSetTheorems, TLAPS

(* The steps of a call keep to its locks.                                  *)
LEMMA JobStep ==
    ASSUME TypeOK, JobShape, NEW t \in Threads, Call(t) \/ Step(t)
    PROVE  JobShape'
<1> USE RollbackAssumption DEF TypeOK, JobShape, Making, RollingBack, Labels
<1> USE DEF Goto, Todo, Mine, Removing, Release, Forget, Return, AfterRollback,
            AfterSnapshot, Begin, diskVars, lockVars, memoryVars, cleanVars,
            threadVars, countVars, historyVars
<1>1. CASE StartUpdate(t)
  BY <1>1 DEF StartUpdate
<1>2. CASE PerformRollback(t)
  BY <1>2 DEF PerformRollback
<1>3. CASE BackupCurrentVersion(t)
  BY <1>3 DEF BackupCurrentVersion
<1>4. CASE UpdateDatabase(t)
  BY <1>4 DEF UpdateDatabase
<1>5. CASE ExecuteUpdate(t)
  BY <1>5 DEF ExecuteUpdate
<1>6. CASE ApplyFailed(t)
  BY <1>6 DEF ApplyFailed
<1>7. CASE CreateDirectory(t)
  BY <1>7 DEF CreateDirectory
<1>8. CASE SnapshotFailed(t)
  BY <1>8 DEF SnapshotFailed
<1>9. CASE WriteManifest(t)
  BY <1>9 DEF WriteManifest
<1>10. CASE Register(t)
  BY <1>10 DEF Register
<1>11. CASE CollectVictims(t)
  BY <1>11 DEF CollectVictims
<1>12. CASE RemoveDirectory(t)
  BY <1>12 DEF RemoveDirectory
<1>13. CASE CleanupDone(t)
  BY <1>13 DEF CleanupDone
<1>14. CASE MarkLastKnownGood(t)
  BY <1>14 DEF MarkLastKnownGood
<1>15. CASE UpdateSucceeded(t)
  BY <1>15 DEF UpdateSucceeded
<1>16. CASE UpdateFailed(t)
  BY <1>16 DEF UpdateFailed
<1>17. CASE TriggerRollback(t)
  BY <1>17 DEF TriggerRollback
<1>18. CASE ClaimRollback(t)
  BY <1>18 DEF ClaimRollback
<1>19. CASE FindSnapshot(t)
  BY <1>19 DEF FindSnapshot
<1>20. CASE RestoreFailed(t)
  BY <1>20 DEF RestoreFailed
<1>21. CASE RollbackComplete(t)
  BY <1>21 DEF RollbackComplete
<1>22. ASSUME NEW f \in Files, CopyFile(t, f) PROVE JobShape'
  BY <1>22 DEF CopyFile
<1>23. ASSUME NEW f \in Files, ReplaceFile(t, f) PROVE JobShape'
  BY <1>23 DEF ReplaceFile
<1>24. ASSUME NEW f \in Files, RestoreFile(t, f) PROVE JobShape'
  BY <1>24 DEF RestoreFile
<1>25. ASSUME NEW v \in victims[t], DeleteSnapshot(t, v) PROVE JobShape'
  BY <1>25 DEF DeleteSnapshot
<1> QED BY <1>1, <1>2, <1>3, <1>4, <1>5, <1>6, <1>7, <1>8, <1>9, <1>10,
           <1>11, <1>12, <1>13, <1>14, <1>15, <1>16, <1>17, <1>18, <1>19,
           <1>20, <1>21, <1>22, <1>23, <1>24, <1>25
        DEF Call, Step

(* ... and to the snapshot it works on.                                    *)
LEMMA WorkStep ==
    ASSUME TypeOK, JobShape, WorkShape, NEW t \in Threads, Call(t) \/ Step(t)
    PROVE  WorkShape'
<1> USE RollbackAssumption DEF TypeOK, JobShape, WorkShape, Making, RollingBack,
                               Labels, Ids
<1> USE DEF Goto, Todo, Mine, Removing, Release, Forget, Return, AfterRollback,
            AfterSnapshot, Begin, diskVars, lockVars, memoryVars, cleanVars,
            threadVars, countVars, historyVars
<1>1. CASE StartUpdate(t)
  BY <1>1 DEF StartUpdate
<1>2. CASE PerformRollback(t)
  BY <1>2 DEF PerformRollback
<1>3. CASE BackupCurrentVersion(t)
  BY <1>3 DEF BackupCurrentVersion
<1>4. CASE UpdateDatabase(t)
  BY <1>4 DEF UpdateDatabase
<1>5. CASE ExecuteUpdate(t)
  BY <1>5 DEF ExecuteUpdate
<1>6. CASE ApplyFailed(t)
  BY <1>6 DEF ApplyFailed
<1>7. CASE CreateDirectory(t)
  BY <1>7 DEF CreateDirectory
<1>8. CASE SnapshotFailed(t)
  BY <1>8 DEF SnapshotFailed
<1>9. CASE WriteManifest(t)
  BY <1>9 DEF WriteManifest
<1>10. CASE Register(t)
  BY <1>10 DEF Register
<1>11. CASE CollectVictims(t)
  BY <1>11 DEF CollectVictims
<1>12. CASE RemoveDirectory(t)
  BY <1>12 DEF RemoveDirectory
<1>13. CASE CleanupDone(t)
  BY <1>13 DEF CleanupDone
<1>14. CASE MarkLastKnownGood(t)
  BY <1>14 DEF MarkLastKnownGood
<1>15. CASE UpdateSucceeded(t)
  BY <1>15 DEF UpdateSucceeded
<1>16. CASE UpdateFailed(t)
  BY <1>16 DEF UpdateFailed
<1>17. CASE TriggerRollback(t)
  <2>1. CASE lkg = NULL
    BY <1>17, <2>1 DEF TriggerRollback
  <2>2. CASE ~(lkg = NULL)
    BY <1>17, <2>2 DEF TriggerRollback
  <2> QED BY <2>1, <2>2
<1>18. CASE ClaimRollback(t)
  <2>1. CASE rolling
    <3>1. AfterRollback(t) /\ UNCHANGED <<list, lkg, doomed>>
      BY <1>18, <2>1 DEF ClaimRollback
    <3> QED BY <3>1
  <2>2. CASE ~rolling
    <3>1. /\ pc[t] = "claim" /\ pc' = [pc EXCEPT ![t] = "find"]
          /\ UNCHANGED <<mine, victim, doomed, entries>>
      BY <1>18, <2>2 DEF ClaimRollback
    <3> QED BY <3>1
  <2> QED BY <2>1, <2>2
<1>19. CASE FindSnapshot(t)
  <2>1. CASE mine[t] \in Listed /\ manifest[mine[t]] # NULL
    BY <1>19, <2>1 DEF FindSnapshot
  <2>2. CASE ~(mine[t] \in Listed /\ manifest[mine[t]] # NULL)
    BY <1>19, <2>2 DEF FindSnapshot
  <2> QED BY <2>1, <2>2
<1>20. CASE RestoreFailed(t)
  BY <1>20 DEF RestoreFailed
<1>21. CASE RollbackComplete(t)
  BY <1>21 DEF RollbackComplete
<1>22. ASSUME NEW f \in Files, CopyFile(t, f) PROVE WorkShape'
  BY <1>22 DEF CopyFile
<1>23. ASSUME NEW f \in Files, ReplaceFile(t, f) PROVE WorkShape'
  BY <1>23 DEF ReplaceFile
<1>24. ASSUME NEW f \in Files, RestoreFile(t, f) PROVE WorkShape'
  BY <1>24 DEF RestoreFile
<1>25. ASSUME NEW v \in victims[t], DeleteSnapshot(t, v) PROVE WorkShape'
  BY <1>25 DEF DeleteSnapshot
<1> QED BY <1>1, <1>2, <1>3, <1>4, <1>5, <1>6, <1>7, <1>8, <1>9, <1>10,
           <1>11, <1>12, <1>13, <1>14, <1>15, <1>16, <1>17, <1>18, <1>19,
           <1>20, <1>21, <1>22, <1>23, <1>24, <1>25
        DEF Call, Step

(* Whoever leaves a rollback clears the flag.                              *)
LEMMA FlagStep ==
    ASSUME TypeOK, FlagHasOwner, NEW t \in Threads, Call(t) \/ Step(t)
    PROVE  FlagHasOwner'
<1> USE DEF TypeOK, FlagHasOwner, Labels
<1> USE DEF Goto, Todo, Mine, Removing, Release, Forget, Return, AfterRollback,
            AfterSnapshot, Begin, diskVars, lockVars, memoryVars, cleanVars,
            threadVars, countVars, historyVars
<1>1. CASE StartUpdate(t)
  BY <1>1 DEF StartUpdate
<1>2. CASE PerformRollback(t)
  BY <1>2 DEF PerformRollback
<1>3. CASE BackupCurrentVersion(t)
  BY <1>3 DEF BackupCurrentVersion
<1>4. CASE UpdateDatabase(t)
  BY <1>4 DEF UpdateDatabase
<1>5. CASE ExecuteUpdate(t)
  BY <1>5 DEF ExecuteUpdate
<1>6. CASE ApplyFailed(t)
  BY <1>6 DEF ApplyFailed
<1>7. CASE CreateDirectory(t)
  BY <1>7 DEF CreateDirectory
<1>8. CASE SnapshotFailed(t)
  BY <1>8 DEF SnapshotFailed
<1>9. CASE WriteManifest(t)
  BY <1>9 DEF WriteManifest
<1>10. CASE Register(t)
  BY <1>10 DEF Register
<1>11. CASE CollectVictims(t)
  BY <1>11 DEF CollectVictims
<1>12. CASE RemoveDirectory(t)
  BY <1>12 DEF RemoveDirectory
<1>13. CASE CleanupDone(t)
  BY <1>13 DEF CleanupDone
<1>14. CASE MarkLastKnownGood(t)
  BY <1>14 DEF MarkLastKnownGood
<1>15. CASE UpdateSucceeded(t)
  BY <1>15 DEF UpdateSucceeded
<1>16. CASE UpdateFailed(t)
  BY <1>16 DEF UpdateFailed
<1>17. CASE TriggerRollback(t)
  BY <1>17 DEF TriggerRollback
<1>18. CASE ClaimRollback(t)
  BY <1>18 DEF ClaimRollback
<1>19. CASE FindSnapshot(t)
  BY <1>19 DEF FindSnapshot
<1>20. CASE RestoreFailed(t)
  BY <1>20 DEF RestoreFailed
<1>21. CASE RollbackComplete(t)
  BY <1>21 DEF RollbackComplete
<1>22. ASSUME NEW f \in Files, CopyFile(t, f) PROVE FlagHasOwner'
  BY <1>22 DEF CopyFile
<1>23. ASSUME NEW f \in Files, ReplaceFile(t, f) PROVE FlagHasOwner'
  BY <1>23 DEF ReplaceFile
<1>24. ASSUME NEW f \in Files, RestoreFile(t, f) PROVE FlagHasOwner'
  BY <1>24 DEF RestoreFile
<1>25. ASSUME NEW v \in victims[t], DeleteSnapshot(t, v) PROVE FlagHasOwner'
  BY <1>25 DEF DeleteSnapshot
<1> QED BY <1>1, <1>2, <1>3, <1>4, <1>5, <1>6, <1>7, <1>8, <1>9, <1>10,
           <1>11, <1>12, <1>13, <1>14, <1>15, <1>16, <1>17, <1>18, <1>19,
           <1>20, <1>21, <1>22, <1>23, <1>24, <1>25
        DEF Call, Step

(* Nobody else writes a file that a rollback restores.                     *)
LEMMA RollStep ==
    ASSUME TypeOK, JobShape, WorkShape, RollShape, NEW t \in Threads,
           Call(t) \/ Step(t)
    PROVE  RollShape'
<1> USE RollbackAssumption DEF TypeOK, JobShape, WorkShape, RollShape, Making,
        RollingBack,
                               Labels, Ids, Contents
<1> USE DEF Goto, Todo, Mine, Removing, Release, Forget, Return, AfterRollback,
            AfterSnapshot, Begin, diskVars, lockVars, memoryVars, cleanVars,
            threadVars, countVars, historyVars
<1>1. CASE StartUpdate(t)
  BY <1>1 DEF StartUpdate
<1>2. CASE PerformRollback(t)
  BY <1>2 DEF PerformRollback
<1>3. CASE BackupCurrentVersion(t)
  BY <1>3 DEF BackupCurrentVersion
<1>4. CASE UpdateDatabase(t)
  BY <1>4 DEF UpdateDatabase
<1>5. CASE ExecuteUpdate(t)
  BY <1>5 DEF ExecuteUpdate
<1>6. CASE ApplyFailed(t)
  BY <1>6 DEF ApplyFailed
<1>7. CASE CreateDirectory(t)
  BY <1>7 DEF CreateDirectory
<1>8. CASE SnapshotFailed(t)
  BY <1>8 DEF SnapshotFailed
<1>9. CASE WriteManifest(t)
  BY <1>9 DEF WriteManifest
<1>10. CASE Register(t)
  BY <1>10 DEF Register
<1>11. CASE CollectVictims(t)
  BY <1>11 DEF CollectVictims
<1>12. CASE RemoveDirectory(t)
  BY <1>12 DEF RemoveDirectory
<1>13. CASE CleanupDone(t)
  BY <1>13 DEF CleanupDone
<1>14. CASE MarkLastKnownGood(t)
  BY <1>14 DEF MarkLastKnownGood
<1>15. CASE UpdateSucceeded(t)
  BY <1>15 DEF UpdateSucceeded
<1>16. CASE UpdateFailed(t)
  BY <1>16 DEF UpdateFailed
<1>17. CASE TriggerRollback(t)
  BY <1>17 DEF TriggerRollback
<1>18. CASE ClaimRollback(t)
  BY <1>18 DEF ClaimRollback
<1>19. CASE FindSnapshot(t)
  BY <1>19 DEF FindSnapshot
<1>20. CASE RestoreFailed(t)
  <2>1. /\ pc' = [pc EXCEPT
                     ![t] = IF job[t] = "update" THEN "failed" ELSE "idle"]
        /\ pc[t] = "restore" /\ UNCHANGED <<install, cancelled>>
        /\ \A u \in Threads \ {t} : todo'[u] = todo[u] /\ entries'[u] = entries[u]
    BY <1>20 DEF RestoreFailed
  <2> QED BY <2>1
<1>21. CASE RollbackComplete(t)
  BY <1>21 DEF RollbackComplete
<1>22. ASSUME NEW f \in Files, CopyFile(t, f) PROVE RollShape'
  BY <1>22 DEF CopyFile
<1>23. ASSUME NEW f \in Files, ReplaceFile(t, f) PROVE RollShape'
  BY <1>23 DEF ReplaceFile
<1>24. ASSUME NEW f \in Files, RestoreFile(t, f) PROVE RollShape'
  BY <1>24 DEF RestoreFile
<1>25. ASSUME NEW v \in victims[t], DeleteSnapshot(t, v) PROVE RollShape'
  BY <1>25 DEF DeleteSnapshot
<1> QED BY <1>1, <1>2, <1>3, <1>4, <1>5, <1>6, <1>7, <1>8, <1>9, <1>10,
           <1>11, <1>12, <1>13, <1>14, <1>15, <1>16, <1>17, <1>18, <1>19,
           <1>20, <1>21, <1>22, <1>23, <1>24, <1>25
        DEF Call, Step

(* The types in two parts: the threads with their locks, and the rest.     *)
ThreadOK ==
    /\ applying \in Threads \cup {NULL} /\ program \in Threads \cup {NULL}
    /\ job \in [Threads -> {"none", "apply", "update", "rollback", "backup"}]
    /\ pc \in [Threads -> Labels]
    /\ mine \in [Threads -> Ids \cup {NULL}]
    /\ todo \in [Threads -> SUBSET Files]
    /\ entries \in [Threads -> Contents \cup {NULL}]
    /\ victims \in [Threads -> SUBSET Ids]
    /\ victim \in [Threads -> Ids \cup {NULL}]

RestOK ==
    /\ install \in Contents
    /\ copy \in [Ids -> [Files -> Versions \cup {NULL}]]
    /\ manifest \in [Ids -> Contents \cup {NULL}]
    /\ list \in Seq(Ids)
    /\ lkg \in Ids \cup {NULL}
    /\ rolling \in BOOLEAN
    /\ nextId \in 0 .. MaxIds /\ updates \in 0 .. MaxUpdates
    /\ faults \in 0 .. MaxFaults
    /\ doomed \subseteq Ids
    /\ good \in Ids \cup {NULL}
    /\ cancelled \in BOOLEAN

(* Together they are TypeOK, before and after a step.                      *)
LEMMA TypeParts ==
    /\ TypeOK <=> ThreadOK /\ RestOK
    /\ TypeOK' <=> ThreadOK' /\ RestOK'
BY DEF TypeOK, ThreadOK, RestOK

(* The ends of a call leave the threads typed.                             *)
LEMMA ReturnTypes ==
    ASSUME ThreadOK, NEW t \in Threads, Return(t)
    PROVE  ThreadOK'
BY DEF ThreadOK, Return, Forget, Release, Goto, Todo, Mine, Labels

(* So does what follows a rollback ...                                     *)
LEMMA AfterRollbackTypes ==
    ASSUME ThreadOK, NEW t \in Threads, AfterRollback(t)
    PROVE  ThreadOK'
<1>1. CASE job[t] = "update"
  BY <1>1 DEF AfterRollback, ThreadOK, Forget, Release, Goto, Todo, Mine, Labels
<1>2. CASE job[t] # "update"
  BY <1>2, ReturnTypes DEF AfterRollback
<1> QED BY <1>1, <1>2

(* ... or a snapshot.                                                      *)
LEMMA AfterSnapshotTypes ==
    ASSUME ThreadOK, NEW t \in Threads, NEW i, AfterSnapshot(t, i)
    PROVE  ThreadOK'
<1>1. CASE job[t] = "update"
  BY <1>1 DEF AfterSnapshot, ThreadOK, Goto, Todo, Mine, Labels, lockVars,
     cleanVars
<1>2. CASE job[t] = "apply"
  BY <1>2 DEF AfterSnapshot, ThreadOK, Forget, Goto, Todo, Mine, Labels,
     lockVars
<1>3. CASE job[t] = "backup" /\ i # NULL
  BY <1>3 DEF AfterSnapshot, ThreadOK, Goto, Labels, lockVars, cleanVars
<1>4. CASE job[t] \notin {"update", "apply"} /\ ~(job[t] = "backup" /\ i # NULL)
  BY <1>4, ReturnTypes DEF AfterSnapshot
<1> QED BY <1>1, <1>2, <1>3, <1>4

(* DeleteSnapshot erases one place of the list and nothing else.           *)
LEMMA FoundIndex ==
    ASSUME NEW v \in Listed
    PROVE  /\ FindSnapshotIndex(v) \in DOMAIN list
           /\ list[FindSnapshotIndex(v)] = v
BY DEF Listed, FindSnapshotIndex

(* What is left in a list with one place erased.                           *)
LEMMA EraseFacts ==
    ASSUME NEW S, NEW s \in Seq(S), NEW i \in DOMAIN s
    PROVE  /\ EraseAt(s, i) \in Seq(S)
           /\ \A k \in DOMAIN EraseAt(s, i) :
                 \E j \in DOMAIN s : EraseAt(s, i)[k] = s[j]
           /\ \A j \in DOMAIN s \ {i} :
                 \E k \in DOMAIN EraseAt(s, i) : EraseAt(s, i)[k] = s[j]
<1> DEFINE n == Len(s) - 1
           e == EraseAt(s, i)
<1>1. n \in Nat /\ i \in 1 .. n + 1 /\ DOMAIN s = 1 .. n + 1 /\ Len(s) = n + 1
  OBVIOUS
<1>2. e = [k \in 1 .. n |-> IF k < i THEN s[k] ELSE s[k + 1]]
  BY DEF EraseAt
<1>3. DOMAIN e = 1 .. n
  BY <1>2
<1>4. \A k \in 1 .. n : \E j \in DOMAIN s : e[k] = s[j]
  <2> TAKE k \in 1 .. n
  <2>1. CASE k < i
    BY <1>1, <1>2, <2>1
  <2>2. CASE ~(k < i)
    <3>1. k + 1 \in DOMAIN s /\ e[k] = s[k + 1]
      BY <1>1, <1>2, <2>2
    <3> QED BY <3>1
  <2> QED BY <2>1, <2>2
<1>5. \A j \in DOMAIN s \ {i} : \E k \in 1 .. n : e[k] = s[j]
  <2> TAKE j \in DOMAIN s \ {i}
  <2>1. CASE j < i
    BY <1>1, <1>2, <2>1
  <2>2. CASE ~(j < i)
    <3>1. j - 1 \in 1 .. n /\ e[j - 1] = s[j]
      BY <1>1, <1>2, <2>2
    <3> QED BY <3>1
  <2> QED BY <2>1, <2>2
<1>6. \A j \in DOMAIN s : s[j] \in S
  OBVIOUS
<1>7. e \in [1 .. n -> S]
  BY <1>2, <1>4, <1>6
<1>8. e \in Seq(S)
  BY <1>1, <1>7
<1> QED BY <1>3, <1>4, <1>5, <1>8

(* A step of a call keeps the types.                                       *)
LEMMA TypeStep ==
    ASSUME TypeOK, JobShape, WorkShape, MakingShape, NEW t \in Threads,
           Call(t) \/ Step(t)
    PROVE  TypeOK'
<1> USE TypeParts, RollbackAssumption
<1>1. CASE StartUpdate(t)
  <2>1. ThreadOK'
    BY <1>1 DEF StartUpdate, Begin, ThreadOK, memoryVars,
       lockVars, cleanVars, Goto, Todo, Mine, Removing, Labels
  <2>2. RestOK'
    BY <1>1 DEF StartUpdate, Begin, RestOK, diskVars, memoryVars,
       countVars, historyVars
  <2> QED BY <2>1, <2>2
<1>2. CASE PerformRollback(t)
  <2>1. ThreadOK'
    BY <1>2 DEF PerformRollback, Begin, ThreadOK, memoryVars,
       lockVars, cleanVars, Goto, Todo, Mine, Removing, Labels
  <2>2. RestOK'
    BY <1>2 DEF PerformRollback, Begin, RestOK, diskVars, memoryVars,
       countVars, historyVars
  <2> QED BY <2>1, <2>2
<1>3. CASE BackupCurrentVersion(t)
  <2>1. ThreadOK'
    BY <1>3 DEF BackupCurrentVersion, Begin, ThreadOK, memoryVars,
       lockVars, cleanVars, Goto, Todo, Mine, Removing, Labels
  <2>2. RestOK'
    BY <1>3 DEF BackupCurrentVersion, Begin, RestOK, diskVars, memoryVars,
       countVars, historyVars
  <2> QED BY <2>1, <2>2
<1>4. CASE UpdateDatabase(t)
  <2>1. ThreadOK'
    BY <1>4, ReturnTypes DEF UpdateDatabase, ThreadOK, memoryVars,
       lockVars, cleanVars, Goto, Todo, Mine, Removing, Labels
  <2>2. RestOK'
    BY <1>4 DEF UpdateDatabase, RestOK, diskVars, memoryVars,
       countVars, historyVars
  <2> QED BY <2>1, <2>2
<1>5. CASE ExecuteUpdate(t)
  <2>1. ThreadOK'
    BY <1>5 DEF ExecuteUpdate, ThreadOK, memoryVars,
       lockVars, cleanVars, Goto, Todo, Mine, Removing, Labels
  <2>2. RestOK'
    BY <1>5 DEF ExecuteUpdate, RestOK, diskVars, memoryVars,
       countVars, historyVars
  <2> QED BY <2>1, <2>2
<1>6. CASE ApplyFailed(t)
  <2>1. ThreadOK'
    BY <1>6, ReturnTypes DEF ApplyFailed, ThreadOK, memoryVars,
       lockVars, cleanVars, Goto, Todo, Mine, Removing, Labels
  <2>2. RestOK'
    BY <1>6 DEF ApplyFailed, RestOK, diskVars, memoryVars,
       countVars, historyVars
  <2> QED BY <2>1, <2>2
<1>7. CASE CreateDirectory(t)
  <2>0. nextId + 1 \in Ids /\ nextId + 1 \in 0 .. MaxIds
    BY <1>7 DEF CreateDirectory, RestOK, Ids
  <2>1. ThreadOK'
    BY <1>7, <2>0 DEF CreateDirectory, ThreadOK, memoryVars,
       lockVars, cleanVars, Goto, Todo, Mine, Removing, Labels
  <2>2. RestOK'
    BY <1>7, <2>0 DEF CreateDirectory, RestOK, diskVars, memoryVars,
       countVars, historyVars
  <2> QED BY <2>1, <2>2
<1>8. CASE SnapshotFailed(t)
  <2>1. ThreadOK'
    BY <1>8, AfterSnapshotTypes DEF SnapshotFailed, ThreadOK, memoryVars,
       lockVars, cleanVars, Goto, Todo, Mine, Removing, Labels
  <2>2. RestOK'
    <3>1. copy' \in [Ids -> [Files -> Versions \cup {NULL}]]
      BY <1>8 DEF SnapshotFailed, RestOK, Nothing
    <3> QED BY <1>8, <3>1 DEF SnapshotFailed, RestOK, memoryVars, countVars,
               historyVars
  <2> QED BY <2>1, <2>2
<1>9. CASE WriteManifest(t)
  <2>0. mine[t] \in Ids
    BY <1>9 DEF WriteManifest, WorkShape, ThreadOK
  <2>3. copy[mine[t]] \in Contents
    <3>1. copy[mine[t]] \in [Files -> Versions \cup {NULL}]
      BY <2>0 DEF RestOK
    <3>2. \A f \in Files : copy[mine[t]][f] \in Versions
      BY <1>9, <3>1 DEF WriteManifest, MakingShape
    <3> QED BY <3>1, <3>2 DEF Contents
  <2>1. ThreadOK'
    BY <1>9, <2>0, <2>3 DEF WriteManifest, ThreadOK, memoryVars,
       lockVars, cleanVars, Goto, Todo, Mine, Removing, Labels
  <2>2. RestOK'
    BY <1>9, <2>0, <2>3 DEF WriteManifest, RestOK, diskVars, memoryVars,
       countVars, historyVars
  <2> QED BY <2>1, <2>2
<1>10. CASE Register(t)
  <2>0. mine[t] \in Ids
    BY <1>10 DEF Register, WorkShape, ThreadOK
  <2>1. ThreadOK'
    BY <1>10, <2>0 DEF Register, ThreadOK, memoryVars,
       lockVars, cleanVars, Goto, Todo, Mine, Removing, Labels
  <2>2. RestOK'
    <3>1. <<mine[t]>> \o list \in Seq(Ids)
      BY <2>0 DEF RestOK
    <3> QED BY <1>10, <3>1 DEF Register, RestOK, diskVars, countVars,
               historyVars
  <2> QED BY <2>1, <2>2
<1>11. CASE CollectVictims(t)
  <2>0. Surplus \in SUBSET Ids
    BY DEF Surplus, RestOK
  <2>1. ThreadOK'
    BY <1>11, <2>0, AfterSnapshotTypes DEF CollectVictims, ThreadOK, memoryVars,
       lockVars, cleanVars, Goto, Todo, Mine, Removing, Labels
  <2>2. RestOK'
    BY <1>11, <2>0 DEF CollectVictims, RestOK, diskVars, memoryVars,
       countVars, historyVars
  <2> QED BY <2>1, <2>2
<1>12. CASE RemoveDirectory(t)
  <2>0. victim[t] \in Ids
    BY <1>12 DEF RemoveDirectory, WorkShape, RestOK
  <2>1. ThreadOK'
    BY <1>12, <2>0 DEF RemoveDirectory, ThreadOK, memoryVars,
       lockVars, cleanVars, Goto, Todo, Mine, Removing, Labels
  <2>2. RestOK'
    <3>1. manifest' \in [Ids -> Contents \cup {NULL}]
      BY <1>12, <2>0 DEF RemoveDirectory, RestOK
    <3>2. CASE copy' = [copy EXCEPT ![victim[t]] = Nothing]
      <4>1. copy' \in [Ids -> [Files -> Versions \cup {NULL}]]
        BY <2>0, <3>2 DEF RestOK, Nothing
      <4> QED BY <1>12, <3>1, <4>1 DEF RemoveDirectory, RestOK, memoryVars,
                 countVars,
                 historyVars
    <3>3. ASSUME NEW left \in SUBSET Files,
                 copy' = [copy EXCEPT ![victim[t]] =
                            [f \in Files |->
                               IF f \in left THEN copy[victim[t]][f] ELSE NULL]]
          PROVE  RestOK'
      <4>1. copy[victim[t]] \in [Files -> Versions \cup {NULL}]
        BY <2>0 DEF RestOK
      <4>2. copy' \in [Ids -> [Files -> Versions \cup {NULL}]]
        BY <2>0, <3>3, <4>1 DEF RestOK
      <4> QED BY <1>12, <3>1, <4>2 DEF RemoveDirectory, RestOK, memoryVars,
                 countVars,
                 historyVars
    <3> QED BY <1>12, <3>2, <3>3 DEF RemoveDirectory
  <2> QED BY <2>1, <2>2
<1>13. CASE CleanupDone(t)
  <2>1. ThreadOK'
    BY <1>13, AfterSnapshotTypes DEF CleanupDone, ThreadOK, memoryVars,
       lockVars, cleanVars, Goto, Todo, Mine, Removing, Labels
  <2>2. RestOK'
    BY <1>13 DEF CleanupDone, RestOK, diskVars, memoryVars,
       countVars, historyVars
  <2> QED BY <2>1, <2>2
<1>14. CASE MarkLastKnownGood(t)
  <2>0. mine[t] \in Ids
    BY <1>14 DEF MarkLastKnownGood, WorkShape, ThreadOK
  <2>1. ThreadOK'
    BY <1>14, <2>0, ReturnTypes DEF MarkLastKnownGood, ThreadOK, memoryVars,
       lockVars, cleanVars, Goto, Todo, Mine, Removing, Labels
  <2>2. RestOK'
    <3>1. lkg' \in Ids \cup {NULL} /\ good' \in Ids \cup {NULL}
      BY <1>14, <2>0 DEF MarkLastKnownGood, RestOK
    <3>2. rolling' \in BOOLEAN
      BY <1>14 DEF MarkLastKnownGood, RestOK
    <3> QED BY <1>14, <3>1, <3>2 DEF MarkLastKnownGood, RestOK, diskVars,
               countVars
  <2> QED BY <2>1, <2>2
<1>15. CASE UpdateSucceeded(t)
  <2>1. ThreadOK'
    BY <1>15, ReturnTypes DEF UpdateSucceeded, ThreadOK, memoryVars,
       lockVars, cleanVars, Goto, Todo, Mine, Removing, Labels
  <2>2. RestOK'
    BY <1>15 DEF UpdateSucceeded, RestOK, diskVars, memoryVars,
       countVars, historyVars
  <2> QED BY <2>1, <2>2
<1>16. CASE UpdateFailed(t)
  <2>1. ThreadOK'
    BY <1>16, AfterRollbackTypes DEF UpdateFailed, ThreadOK, memoryVars,
       lockVars, cleanVars, Goto, Todo, Mine, Removing, Labels
  <2>2. RestOK'
    BY <1>16 DEF UpdateFailed, RestOK, diskVars, memoryVars,
       countVars, historyVars
  <2> QED BY <2>1, <2>2
<1>17. CASE TriggerRollback(t)
  <2>1. ThreadOK'
    <3>1. CASE lkg = NULL
      BY <1>17, <3>1, AfterRollbackTypes DEF TriggerRollback
    <3>2. CASE lkg # NULL
      <4>1. lkg \in Ids
        BY <3>2 DEF RestOK
      <4> QED BY <1>17, <3>2, <4>1 DEF TriggerRollback, ThreadOK, lockVars,
                 cleanVars,
                 Goto, Mine, Labels
    <3> QED BY <3>1, <3>2
  <2>2. RestOK'
    BY <1>17 DEF TriggerRollback, RestOK, diskVars, memoryVars,
       countVars, historyVars
  <2> QED BY <2>1, <2>2
<1>18. CASE ClaimRollback(t)
  <2>1. ThreadOK'
    BY <1>18, AfterRollbackTypes DEF ClaimRollback, ThreadOK, memoryVars,
       lockVars, cleanVars, Goto, Todo, Mine, Removing, Labels
  <2>2. RestOK'
    BY <1>18 DEF ClaimRollback, RestOK, diskVars, memoryVars,
       countVars, historyVars
  <2> QED BY <2>1, <2>2
<1>19. CASE FindSnapshot(t)
  <2>0. mine[t] \in Ids
    BY <1>19 DEF FindSnapshot, WorkShape, ThreadOK
  <2>1. ThreadOK'
    <3>1. CASE mine[t] \in Listed /\ manifest[mine[t]] # NULL
      <4>1. manifest[mine[t]] \in Contents
        BY <2>0, <3>1 DEF RestOK
      <4> QED BY <1>19, <3>1, <4>1 DEF FindSnapshot, ThreadOK, lockVars,
                 cleanVars,
                 Goto, Todo, Labels
    <3>2. CASE ~(mine[t] \in Listed /\ manifest[mine[t]] # NULL)
      BY <1>19, <3>2, AfterRollbackTypes DEF FindSnapshot
    <3> QED BY <3>1, <3>2
  <2>2. RestOK'
    BY <1>19, <2>0 DEF FindSnapshot, RestOK, diskVars, memoryVars,
       countVars, historyVars
  <2> QED BY <2>1, <2>2
<1>20. CASE RestoreFailed(t)
  <2>1. ThreadOK'
    BY <1>20, AfterRollbackTypes DEF RestoreFailed, ThreadOK, memoryVars,
       lockVars, cleanVars, Goto, Todo, Mine, Removing, Labels
  <2>2. RestOK'
    BY <1>20 DEF RestoreFailed, RestOK, diskVars, memoryVars,
       countVars, historyVars
  <2> QED BY <2>1, <2>2
<1>21. CASE RollbackComplete(t)
  <2>0. mine[t] \in Ids
    BY <1>21 DEF RollbackComplete, WorkShape, ThreadOK
  <2>1. ThreadOK'
    BY <1>21, <2>0, AfterRollbackTypes DEF RollbackComplete, ThreadOK,
       memoryVars,
       lockVars, cleanVars, Goto, Todo, Mine, Removing, Labels
  <2>2. RestOK'
    <3>1. lkg' \in Ids \cup {NULL} /\ good' \in Ids \cup {NULL}
      BY <1>21, <2>0 DEF RollbackComplete, RestOK
    <3>2. rolling' \in BOOLEAN
      BY <1>21 DEF RollbackComplete, RestOK
    <3> QED BY <1>21, <3>1, <3>2 DEF RollbackComplete, RestOK, diskVars,
               countVars
  <2> QED BY <2>1, <2>2
<1>22. ASSUME NEW f \in Files, CopyFile(t, f) PROVE TypeOK'
  <2>0. mine[t] \in Ids
    BY <1>22 DEF CopyFile, WorkShape, ThreadOK
  <2>3. install[f] \in Versions
    BY <1>22 DEF RestOK, Contents
  <2>1. ThreadOK'
    BY <1>22, <2>0, <2>3 DEF CopyFile, ThreadOK, memoryVars,
       lockVars, cleanVars, Goto, Todo, Mine, Removing, Labels
  <2>2. RestOK'
    <3>1. copy' \in [Ids -> [Files -> Versions \cup {NULL}]]
      BY <1>22, <2>0, <2>3 DEF CopyFile, RestOK, Nothing
    <3> QED BY <1>22, <3>1 DEF CopyFile, RestOK, memoryVars, countVars,
               historyVars
  <2> QED BY <2>1, <2>2
<1>23. ASSUME NEW f \in Files, ReplaceFile(t, f) PROVE TypeOK'
  <2>0. updates \in Versions
    BY DEF RestOK, Versions
  <2>1. ThreadOK'
    BY <1>23, <2>0 DEF ReplaceFile, ThreadOK, memoryVars,
       lockVars, cleanVars, Goto, Todo, Mine, Removing, Labels
  <2>2. RestOK'
    <3>1. install' \in Contents
      BY <1>23, <2>0 DEF ReplaceFile, RestOK, Contents
    <3> QED BY <1>23, <3>1 DEF ReplaceFile, RestOK, memoryVars, countVars,
               historyVars
  <2> QED BY <2>1, <2>2
<1>24. ASSUME NEW f \in Files, RestoreFile(t, f) PROVE TypeOK'
  <2>0. mine[t] \in Ids
    BY <1>24 DEF RestoreFile, WorkShape, ThreadOK
  <2>3. entries[t] \in Contents
    BY <1>24 DEF RestoreFile, WorkShape, ThreadOK
  <2>1. ThreadOK'
    BY <1>24, <2>0, <2>3 DEF RestoreFile, ThreadOK, memoryVars,
       lockVars, cleanVars, Goto, Todo, Mine, Removing, Labels
  <2>2. RestOK'
    <3>1. install' \in Contents
      BY <1>24, <2>3 DEF RestoreFile, RestOK, Contents
    <3> QED BY <1>24, <3>1 DEF RestoreFile, RestOK, memoryVars, countVars,
               historyVars
  <2> QED BY <2>1, <2>2
<1>25. ASSUME NEW v \in victims[t], DeleteSnapshot(t, v) PROVE TypeOK'
  <2>0. v \in Ids
    BY <1>25 DEF ThreadOK
  <2>1. ThreadOK'
    BY <1>25, <2>0 DEF DeleteSnapshot, ThreadOK, memoryVars,
       lockVars, cleanVars, Goto, Todo, Mine, Removing, Labels
  <2>2. RestOK'
    <3>1. CASE v # lkg /\ v \in Listed
      <4>1. EraseAt(list, FindSnapshotIndex(v)) \in Seq(Ids)
        BY <3>1, FoundIndex, EraseFacts DEF RestOK
      <4> QED BY <1>25, <2>0, <3>1, <4>1 DEF DeleteSnapshot, RestOK, diskVars,
                 countVars
    <3>2. CASE ~(v # lkg /\ v \in Listed)
      BY <1>25, <3>2 DEF DeleteSnapshot, RestOK, diskVars, countVars
    <3> QED BY <3>1, <3>2
  <2> QED BY <2>1, <2>2
<1> QED BY <1>1, <1>2, <1>3, <1>4, <1>5, <1>6, <1>7, <1>8, <1>9, <1>10,
           <1>11, <1>12, <1>13, <1>14, <1>15, <1>16, <1>17, <1>18, <1>19,
           <1>20, <1>21, <1>22, <1>23, <1>24, <1>25
        DEF Call, Step

-----------------------------------------------------------------------------
(* The snapshots in the making and on disk.                                *)

(* The snapshot a thread makes has an id.                                  *)
LEMMA MineNumber ==
    ASSUME TypeOK, WorkShape, NEW t \in Threads, pc[t] \in Unlisted
    PROVE  mine[t] \in Ids /\ mine[t] \in Nat /\ nextId \in Nat
<1>1. mine[t] # NULL
  BY DEF WorkShape, Unlisted
<1>2. mine[t] \in Ids /\ nextId \in Nat
  BY <1>1, RollbackAssumption DEF TypeOK
<1> QED BY <1>2, RollbackAssumption DEF Ids

(* What is listed are ids.                                                 *)
LEMMA ListedIds ==
    ASSUME TypeOK
    PROVE  Listed \subseteq Ids
BY DEF TypeOK, Listed

(* A manifest is written when all the copies are there.                    *)
LEMMA WrittenManifest ==
    ASSUME TypeOK, JobShape, WorkShape, MakingShape, NEW t \in Threads,
           WriteManifest(t)
    PROVE  copy[mine[t]] \in Contents
<1>1. mine[t] \in Ids
  BY DEF WriteManifest, WorkShape, TypeOK
<1>2. copy[mine[t]] \in [Files -> Versions \cup {NULL}]
  BY <1>1 DEF TypeOK
<1>3. \A f \in Files : copy[mine[t]][f] \in Versions
  BY <1>2 DEF WriteManifest, MakingShape
<1> QED BY <1>2, <1>3 DEF Contents

(* A new snapshot joins the list.                                          *)
LEMMA ConsListed ==
    ASSUME NEW S, list \in Seq(S), NEW i \in S, list' = <<i>> \o list
    PROVE  Listed' = Listed \cup {i}
<1>1. /\ Len(list) \in Nat /\ DOMAIN list = 1 .. Len(list)
      /\ DOMAIN list' = 1 .. Len(list) + 1
  OBVIOUS
<1>2. list'[1] = i /\ \A j \in DOMAIN list : list'[j + 1] = list[j]
  BY <1>1
<1>3. \A j \in DOMAIN list' :
          \/ list'[j] = i
          \/ j - 1 \in DOMAIN list /\ list'[j] = list[j - 1]
  BY <1>1
<1>4. 1 \in DOMAIN list' /\ \A j \in DOMAIN list : j + 1 \in DOMAIN list'
  BY <1>1
<1> QED BY <1>2, <1>3, <1>4 DEF Listed

(* DeleteSnapshot takes one id off the list.                               *)
LEMMA ErasedList ==
    ASSUME TypeOK, NEW v \in Listed,
           list' = EraseAt(list, FindSnapshotIndex(v))
    PROVE  /\ Listed' \subseteq Listed
           /\ Listed \ {v} \subseteq Listed'
<1>1. list \in Seq(Ids) /\ FindSnapshotIndex(v) \in DOMAIN list
      /\ list[FindSnapshotIndex(v)] = v
  BY FoundIndex DEF TypeOK
<1>2. /\ \A k \in DOMAIN list' : \E j \in DOMAIN list : list'[k] = list[j]
      /\ \A j \in DOMAIN list \ {FindSnapshotIndex(v)} :
            \E k \in DOMAIN list' : list'[k] = list[j]
  BY <1>1, EraseFacts
<1> QED BY <1>1, <1>2 DEF Listed

(* The thread is left with nothing in the making, the others as they were. *)
Elsewhere(t) ==
    /\ \A u \in Threads \ {t} :
          pc'[u] = pc[u] /\ mine'[u] = mine[u] /\ todo'[u] = todo[u]
    /\ pc'[t] \notin Unlisted

(* The ends of a call do that.                                             *)
LEMMA EndFrame ==
    ASSUME TypeOK, NEW t \in Threads
    PROVE  /\ Return(t) => Elsewhere(t)
           /\ AfterRollback(t) => Elsewhere(t)
           /\ \A i : AfterSnapshot(t, i) => Elsewhere(t)
<1> USE DEF TypeOK, Elsewhere, Forget, Goto, Todo, Mine, Unlisted, cleanVars
<1>1. Return(t) => Elsewhere(t)
  BY DEF Return
<1>2. AfterRollback(t) => Elsewhere(t)
  BY <1>1 DEF AfterRollback
<1>3. ASSUME NEW i, AfterSnapshot(t, i) PROVE Elsewhere(t)
  <2>1. CASE job[t] = "update"
    BY <1>3, <2>1 DEF AfterSnapshot
  <2>2. CASE job[t] = "apply"
    BY <1>3, <2>2 DEF AfterSnapshot
  <2>3. CASE job[t] = "backup" /\ i # NULL
    BY <1>3, <2>3 DEF AfterSnapshot
  <2>4. CASE job[t] \notin {"update", "apply"} /\ ~(job[t] = "backup" /\ i # NULL)
    BY <1>1, <1>3, <2>4 DEF AfterSnapshot
  <2> QED BY <2>1, <2>2, <2>3, <2>4
<1> QED BY <1>1, <1>2, <1>3

(* A step that neither makes nor deletes a snapshot.                       *)
LEMMA QuietStep ==
    ASSUME MakingShape, DiskShape, NEW t \in Threads,
           UNCHANGED <<nextId, list, doomed, manifest, copy>>, Elsewhere(t)
    PROVE  MakingShape' /\ DiskShape'
<1> USE DEF Elsewhere
<1>1. Listed' = Listed
  BY DEF Listed
<1>2. MakingShape'
  BY <1>1 DEF MakingShape, Unlisted
<1>3. DiskShape'
  BY <1>1 DEF DiskShape
<1> QED BY <1>2, <1>3

(* A step of a call keeps the snapshots as they should be.                 *)
LEMMA SnapshotStep ==
    ASSUME TypeOK, JobShape, WorkShape, MakingShape, DiskShape,
           NEW t \in Threads, Call(t) \/ Step(t)
    PROVE  MakingShape' /\ DiskShape'
<1>1. CASE StartUpdate(t)
  <2>1. UNCHANGED <<nextId, list, doomed, manifest, copy>>
    BY <1>1 DEF StartUpdate, Begin, diskVars, memoryVars, countVars, historyVars
  <2>2. Elsewhere(t)
    BY <1>1 DEF StartUpdate, Begin, Elsewhere, TypeOK, Goto, Todo, Mine,
       Unlisted, cleanVars
  <2> QED BY <2>1, <2>2, QuietStep
<1>2. CASE PerformRollback(t)
  <2>1. UNCHANGED <<nextId, list, doomed, manifest, copy>>
    BY <1>2 DEF PerformRollback, Begin, diskVars, memoryVars, countVars,
       historyVars
  <2>2. Elsewhere(t)
    BY <1>2 DEF PerformRollback, Begin, Elsewhere, TypeOK, Goto, Todo, Mine,
       Unlisted, cleanVars
  <2> QED BY <2>1, <2>2, QuietStep
<1>3. CASE BackupCurrentVersion(t)
  <2>1. UNCHANGED <<nextId, list, doomed, manifest, copy>>
    BY <1>3 DEF BackupCurrentVersion, Begin, diskVars, memoryVars, countVars,
       historyVars
  <2>2. Elsewhere(t)
    BY <1>3 DEF BackupCurrentVersion, Begin, Elsewhere, TypeOK, Goto, Todo,
       Mine,
       Unlisted, cleanVars
  <2> QED BY <2>1, <2>2, QuietStep
<1>4. CASE UpdateDatabase(t)
  <2>1. UNCHANGED <<nextId, list, doomed, manifest, copy>>
    BY <1>4 DEF UpdateDatabase, diskVars, memoryVars, countVars, historyVars
  <2>2. Elsewhere(t)
    BY <1>4, EndFrame DEF UpdateDatabase, Elsewhere, TypeOK, Goto, Todo, Mine,
       Unlisted, cleanVars
  <2> QED BY <2>1, <2>2, QuietStep
<1>5. CASE ExecuteUpdate(t)
  <2>1. UNCHANGED <<nextId, list, doomed, manifest, copy>>
    BY <1>5 DEF ExecuteUpdate, diskVars, memoryVars, countVars, historyVars
  <2>2. Elsewhere(t)
    BY <1>5 DEF ExecuteUpdate, Elsewhere, TypeOK, Goto, Todo, Mine,
       Unlisted, cleanVars
  <2> QED BY <2>1, <2>2, QuietStep
<1>6. CASE ApplyFailed(t)
  <2>1. UNCHANGED <<nextId, list, doomed, manifest, copy>>
    BY <1>6 DEF ApplyFailed, diskVars, memoryVars, countVars, historyVars
  <2>2. Elsewhere(t)
    BY <1>6, EndFrame DEF ApplyFailed, Elsewhere, TypeOK, Goto, Todo, Mine,
       Unlisted, cleanVars
  <2> QED BY <2>1, <2>2, QuietStep
<1>7. CASE CreateDirectory(t)
  <2>1. /\ pc' = [pc EXCEPT ![t] = "copy"] /\ mine' = [mine EXCEPT ![t] = nextId + 1]
        /\ todo' = [todo EXCEPT ![t] = Files] /\ nextId' = nextId + 1
        /\ nextId + 1 \in Ids /\ UNCHANGED <<copy, manifest, list, doomed>>
    BY <1>7, RollbackAssumption DEF CreateDirectory, TypeOK, Ids, diskVars,
       memoryVars,
       historyVars, Goto, Mine, Todo
  <2>2. manifest[nextId + 1] = NULL /\ nextId + 1 \notin Listed \cup doomed
    BY <2>1 DEF DiskShape, Ids, TypeOK
  <2>3. Listed' = Listed
    BY <2>1 DEF Listed
  <2>4. MakingShape'
    BY <2>1, <2>2, <2>3, MineNumber DEF MakingShape, Unlisted, TypeOK
  <2>5. DiskShape'
    BY <2>1, <2>3 DEF DiskShape, TypeOK, Ids
  <2> QED BY <2>4, <2>5
<1>8. CASE SnapshotFailed(t)
  <2>1. /\ Elsewhere(t) /\ UNCHANGED <<manifest, list, doomed, nextId>>
        /\ \A i \in Ids : i # mine[t] => copy'[i] = copy[i]
        /\ pc[t] \in {"create", "copy", "manifest"}
    BY <1>8, EndFrame DEF SnapshotFailed, countVars, historyVars
  <2>2. Listed' = Listed
    BY <2>1 DEF Listed
  <2>3. mine[t] # NULL => pc[t] \in Unlisted /\ manifest[mine[t]] = NULL
    BY <2>1 DEF WorkShape, MakingShape, Unlisted
  <2>4. \A u \in Threads \ {t} :
          pc[u] \in Unlisted => mine[u] \in Ids /\ mine[u] # mine[t]
    <3> TAKE u \in Threads \ {t}
    <3> HAVE pc[u] \in Unlisted
    <3>1. mine[u] \in Ids /\ mine[u] # NULL
      BY MineNumber, RollbackAssumption
    <3>2. CASE mine[t] = NULL
      BY <3>1, <3>2
    <3>3. CASE mine[t] # NULL
      BY <2>3, <3>1, <3>3 DEF MakingShape
    <3> QED BY <3>2, <3>3
  <2>5. MakingShape'
    BY <2>1, <2>2, <2>4 DEF MakingShape, Unlisted, Elsewhere
  <2>6. \A i \in Ids : manifest[i] # NULL => copy'[i] = copy[i]
    <3>1. \A i \in Ids : i # NULL
      BY RollbackAssumption DEF Ids
    <3> QED BY <2>1, <2>3, <3>1
  <2>7. DiskShape'
    BY <2>1, <2>2, <2>6 DEF DiskShape
  <2> QED BY <2>5, <2>7
<1>9. CASE WriteManifest(t)
  <2>1. /\ pc' = [pc EXCEPT ![t] = "register"]
        /\ UNCHANGED <<copy, list, doomed, nextId, mine, todo>>
        /\ manifest' = [manifest EXCEPT ![mine[t]] = copy[mine[t]]]
        /\ pc[t] = "manifest"
    BY <1>9 DEF WriteManifest, memoryVars, countVars, historyVars, Goto
  <2>2. Listed' = Listed
    BY <2>1 DEF Listed
  <2>3. mine[t] \in Ids /\ mine[t] <= nextId /\ mine[t] \notin Listed \cup doomed
    BY <2>1, MineNumber DEF MakingShape, Unlisted
  <2>4. copy[mine[t]] # NULL
    BY <1>9, WrittenManifest, RollbackAssumption DEF Contents
  <2>5. MakingShape'
    BY <2>1, <2>2, <2>3, <2>4, MineNumber DEF MakingShape, Unlisted, TypeOK
  <2>6. DiskShape'
    <3>1. \A i \in Ids :
            manifest'[i] = IF i = mine[t] THEN copy[mine[t]] ELSE manifest[i]
      BY <2>1, <2>3 DEF TypeOK
    <3>2. ~(mine[t] > nextId)
      BY <2>1, <2>3, MineNumber DEF Unlisted
    <3> QED BY <2>1, <2>2, <2>3, <2>4, <3>1, <3>2, ListedIds DEF DiskShape
  <2> QED BY <2>5, <2>6
<1>10. CASE Register(t)
  <2>1. /\ pc' = [pc EXCEPT ![t] = "collect"] /\ pc[t] = "register"
        /\ UNCHANGED <<copy, manifest, doomed, nextId, mine, todo>>
    BY <1>10 DEF Register, diskVars, countVars, historyVars, Goto
  <2>2. mine[t] \in Ids /\ mine[t] <= nextId /\ manifest[mine[t]] # NULL
    BY <2>1, MineNumber DEF MakingShape, Unlisted
  <2>3. Listed' = Listed \cup {mine[t]}
    BY <1>10, <2>2, ConsListed DEF Register, TypeOK
  <2>4. MakingShape'
    BY <2>1, <2>2, <2>3, MineNumber DEF MakingShape, Unlisted, TypeOK
  <2>5. DiskShape'
    BY <2>1, <2>2, <2>3 DEF DiskShape, TypeOK, Ids
  <2> QED BY <2>4, <2>5
<1>11. CASE CollectVictims(t)
  <2>1. UNCHANGED <<nextId, list, doomed, manifest, copy>>
    BY <1>11 DEF CollectVictims, diskVars, memoryVars, countVars, historyVars
  <2>2. Elsewhere(t)
    BY <1>11, EndFrame DEF CollectVictims, Elsewhere, TypeOK, Goto, Todo, Mine,
       Unlisted, cleanVars
  <2> QED BY <2>1, <2>2, QuietStep
<1>12. CASE RemoveDirectory(t)
  <2>1. /\ pc' = [pc EXCEPT ![t] = "delete"] /\ pc[t] = "remove"
        /\ UNCHANGED <<list, doomed, nextId, mine, todo>>
        /\ victim[t] \in doomed
    BY <1>12 DEF RemoveDirectory, memoryVars, countVars, historyVars, Goto,
       WorkShape
  <2>2. \A i \in Ids \ doomed : copy'[i] = copy[i] /\ manifest'[i] = manifest[i]
    BY <1>12, <2>1 DEF RemoveDirectory, TypeOK
  <2>3. \A i \in Ids : manifest[i] = NULL => manifest'[i] = NULL
    BY <1>12, <2>1 DEF RemoveDirectory, TypeOK
  <2>4. Listed' = Listed
    BY <2>1 DEF Listed
  <2>5. MakingShape'
    BY <2>1, <2>2, <2>4, MineNumber DEF MakingShape, Unlisted, TypeOK
  <2>6. DiskShape'
    BY <2>1, <2>2, <2>3, <2>4, ListedIds DEF DiskShape
  <2> QED BY <2>5, <2>6
<1>13. CASE CleanupDone(t)
  <2>1. UNCHANGED <<nextId, list, doomed, manifest, copy>>
    BY <1>13 DEF CleanupDone, diskVars, memoryVars, countVars, historyVars
  <2>2. Elsewhere(t)
    BY <1>13, EndFrame DEF CleanupDone, Elsewhere, TypeOK, Goto, Todo, Mine,
       Unlisted, cleanVars
  <2> QED BY <2>1, <2>2, QuietStep
<1>14. CASE MarkLastKnownGood(t)
  <2>1. UNCHANGED <<nextId, list, doomed, manifest, copy>>
    BY <1>14 DEF MarkLastKnownGood, diskVars, memoryVars, countVars, historyVars
  <2>2. Elsewhere(t)
    BY <1>14, EndFrame DEF MarkLastKnownGood, Elsewhere, TypeOK, Goto, Todo,
       Mine,
       Unlisted, cleanVars
  <2> QED BY <2>1, <2>2, QuietStep
<1>15. CASE UpdateSucceeded(t)
  <2>1. UNCHANGED <<nextId, list, doomed, manifest, copy>>
    BY <1>15 DEF UpdateSucceeded, diskVars, memoryVars, countVars, historyVars
  <2>2. Elsewhere(t)
    BY <1>15, EndFrame DEF UpdateSucceeded, Elsewhere, TypeOK, Goto, Todo, Mine,
       Unlisted, cleanVars
  <2> QED BY <2>1, <2>2, QuietStep
<1>16. CASE UpdateFailed(t)
  <2>1. UNCHANGED <<nextId, list, doomed, manifest, copy>>
    BY <1>16 DEF UpdateFailed, diskVars, memoryVars, countVars, historyVars
  <2>2. Elsewhere(t)
    BY <1>16, EndFrame DEF UpdateFailed, Elsewhere, TypeOK, Goto, Todo, Mine,
       Unlisted, cleanVars
  <2> QED BY <2>1, <2>2, QuietStep
<1>17. CASE TriggerRollback(t)
  <2>1. UNCHANGED <<nextId, list, doomed, manifest, copy>>
    BY <1>17 DEF TriggerRollback, diskVars, memoryVars, countVars, historyVars
  <2>2. Elsewhere(t)
    BY <1>17, EndFrame DEF TriggerRollback, Elsewhere, TypeOK, Goto, Todo, Mine,
       Unlisted, cleanVars
  <2> QED BY <2>1, <2>2, QuietStep
<1>18. CASE ClaimRollback(t)
  <2>1. UNCHANGED <<nextId, list, doomed, manifest, copy>>
    BY <1>18 DEF ClaimRollback, diskVars, memoryVars, countVars, historyVars
  <2>2. Elsewhere(t)
    BY <1>18, EndFrame DEF ClaimRollback, Elsewhere, TypeOK, Goto, Todo, Mine,
       Unlisted, cleanVars
  <2> QED BY <2>1, <2>2, QuietStep
<1>19. CASE FindSnapshot(t)
  <2>1. UNCHANGED <<nextId, list, doomed, manifest, copy>>
    BY <1>19 DEF FindSnapshot, diskVars, memoryVars, countVars, historyVars
  <2>2. Elsewhere(t)
    BY <1>19, EndFrame DEF FindSnapshot, Elsewhere, TypeOK, Goto, Todo, Mine,
       Unlisted, cleanVars
  <2> QED BY <2>1, <2>2, QuietStep
<1>20. CASE RestoreFailed(t)
  <2>1. UNCHANGED <<nextId, list, doomed, manifest, copy>>
    BY <1>20 DEF RestoreFailed, diskVars, memoryVars, countVars, historyVars
  <2>2. Elsewhere(t)
    BY <1>20, EndFrame DEF RestoreFailed, Elsewhere, TypeOK, Goto, Todo, Mine,
       Unlisted, cleanVars
  <2> QED BY <2>1, <2>2, QuietStep
<1>21. CASE RollbackComplete(t)
  <2>1. UNCHANGED <<nextId, list, doomed, manifest, copy>>
    BY <1>21 DEF RollbackComplete, diskVars, memoryVars, countVars, historyVars
  <2>2. Elsewhere(t)
    BY <1>21, EndFrame DEF RollbackComplete, Elsewhere, TypeOK, Goto, Todo,
       Mine,
       Unlisted, cleanVars
  <2> QED BY <2>1, <2>2, QuietStep
<1>22. ASSUME NEW f \in Files, CopyFile(t, f)
       PROVE  MakingShape' /\ DiskShape'
  <2>1. /\ \A u \in Threads \ {t} : pc'[u] = pc[u] /\ todo'[u] = todo[u]
        /\ pc[t] = "copy" /\ pc'[t] = IF todo[t] = {f} THEN "manifest" ELSE "copy"
        /\ todo'[t] = todo[t] \ {f}
        /\ UNCHANGED <<manifest, list, doomed, nextId, mine>>
    BY <1>22 DEF CopyFile, TypeOK, memoryVars, countVars, historyVars, Goto,
       Todo
  <2>2. /\ mine[t] \in Ids /\ mine[t] <= nextId /\ manifest[mine[t]] = NULL
        /\ \A g \in Files \ todo[t] : copy[mine[t]][g] # NULL
    BY <2>1, MineNumber DEF MakingShape, Unlisted
  <2>3. /\ \A i \in Ids \ {mine[t]} : copy'[i] = copy[i]
        /\ \A g \in Files \ {f} : copy'[mine[t]][g] = copy[mine[t]][g]
        /\ copy'[mine[t]][f] = install[f]
    BY <1>22, <2>2 DEF CopyFile, TypeOK
  <2>4. install[f] # NULL
    BY RollbackAssumption DEF TypeOK, Contents, Versions
  <2>5. Listed' = Listed
    BY <2>1 DEF Listed
  <2>6. \A g \in Files \ todo'[t] : copy'[mine[t]][g] # NULL
    BY <2>1, <2>2, <2>3, <2>4
  <2>7. pc'[t] = "manifest" => \A g \in Files : copy'[mine[t]][g] # NULL
    BY <2>1, <2>6
  <2>8. \A u \in Threads \ {t} :
          pc[u] \in Unlisted => mine[u] \in Ids /\ mine[u] # mine[t]
    BY <2>1, <2>2, MineNumber DEF MakingShape, Unlisted
  <2>9. MakingShape'
    BY <2>1, <2>2, <2>3, <2>5, <2>6, <2>7, <2>8 DEF MakingShape, Unlisted
  <2>10. DiskShape'
    BY <2>1, <2>2, <2>3, <2>5 DEF DiskShape
  <2> QED BY <2>9, <2>10
<1>23. ASSUME NEW f \in Files, ReplaceFile(t, f)
       PROVE  MakingShape' /\ DiskShape'
  <2>1. UNCHANGED <<nextId, list, doomed, manifest, copy>>
    BY <1>23 DEF ReplaceFile, diskVars, memoryVars, countVars, historyVars
  <2>2. Elsewhere(t)
    BY <1>23 DEF ReplaceFile, Elsewhere, TypeOK, Goto, Todo, Mine,
       Unlisted, cleanVars
  <2> QED BY <2>1, <2>2, QuietStep
<1>24. ASSUME NEW f \in Files, RestoreFile(t, f)
       PROVE  MakingShape' /\ DiskShape'
  <2>1. UNCHANGED <<nextId, list, doomed, manifest, copy>>
    BY <1>24 DEF RestoreFile, diskVars, memoryVars, countVars, historyVars
  <2>2. Elsewhere(t)
    BY <1>24 DEF RestoreFile, Elsewhere, TypeOK, Goto, Todo, Mine,
       Unlisted, cleanVars
  <2> QED BY <2>1, <2>2, QuietStep
<1>25. ASSUME NEW v \in victims[t], DeleteSnapshot(t, v)
       PROVE  MakingShape' /\ DiskShape'
  <2>1. CASE v # lkg /\ v \in Listed
    <3>1. /\ pc' = [pc EXCEPT ![t] = "remove"] /\ pc[t] = "delete"
          /\ UNCHANGED <<copy, manifest, nextId, mine, todo>>
          /\ doomed' = doomed \cup {v} /\ v \in Ids
      BY <1>25, <2>1, ListedIds DEF DeleteSnapshot, diskVars, countVars, Goto
    <3>2. Listed' \subseteq Listed
      BY <1>25, <2>1, ErasedList DEF DeleteSnapshot
    <3>3. \A u \in Threads : pc[u] \in Unlisted => mine[u] # v
      BY <2>1 DEF MakingShape
    <3>4. MakingShape'
      BY <3>1, <3>2, <3>3, MineNumber DEF MakingShape, Unlisted, TypeOK
    <3>5. DiskShape'
      BY <2>1, <3>1, <3>2 DEF DiskShape
    <3> QED BY <3>4, <3>5
  <2>2. CASE ~(v # lkg /\ v \in Listed)
    <3>1. Elsewhere(t)
      BY <1>25, <2>2 DEF DeleteSnapshot, Elsewhere, Unlisted
    <3> QED BY <1>25, <2>2, <3>1, QuietStep DEF DeleteSnapshot, diskVars,
               countVars
  <2> QED BY <2>1, <2>2
<1> QED BY <1>1, <1>2, <1>3, <1>4, <1>5, <1>6, <1>7, <1>8, <1>9, <1>10,
           <1>11, <1>12, <1>13, <1>14, <1>15, <1>16, <1>17, <1>18, <1>19,
           <1>20, <1>21, <1>22, <1>23, <1>24, <1>25
        DEF Call, Step

-----------------------------------------------------------------------------
(* Crashes and cancellations.                                              *)

(* CancelRollback clears the flag and touches nothing else.                *)
LEMMA CancelInv ==
    ASSUME IInv, CancelRollback
    PROVE  IInv'
<1> USE TypeParts DEF IInv
<1>1. /\ UNCHANGED <<install, copy, manifest, list, lkg, applying, program, job,
                     pc, mine, todo, entries, victims, victim, nextId, updates,
                     doomed, good>>
      /\ cancelled' = TRUE /\ rolling' = FALSE /\ faults' = faults + 1
      /\ faults < MaxFaults
  BY DEF CancelRollback, diskVars, lockVars, threadVars, cleanVars
<1>2. ThreadOK'
  BY <1>1 DEF ThreadOK
<1>3. RestOK'
  <2>1. faults' \in 0 .. MaxFaults
    BY <1>1, RollbackAssumption DEF RestOK
  <2> QED BY <1>1, <2>1 DEF RestOK
<1>4. JobShape' /\ WorkShape'
  BY <1>1 DEF JobShape, WorkShape
<1>5. Listed' = Listed
  BY <1>1 DEF Listed
<1>6. MakingShape' /\ DiskShape'
  BY <1>1, <1>5 DEF MakingShape, DiskShape
<1>7. RollShape' /\ FlagHasOwner'
  BY <1>1 DEF RollShape, FlagHasOwner
<1> QED BY <1>2, <1>3, <1>4, <1>6, <1>7

(* A start lists what it finds on disk and works on nothing.               *)
LEMMA CrashInv ==
    ASSUME IInv, Crash
    PROVE  IInv'
<1> USE TypeParts DEF IInv
<1>1. OnDisk \subseteq Ids /\ Cardinality(OnDisk) \in Nat
  <2>1. IsFiniteSet(Ids)
    BY RollbackAssumption, FS_Interval DEF Ids
  <2>2. OnDisk \in SUBSET Ids
    BY DEF OnDisk
  <2> QED BY <2>1, <2>2, FS_Subset, FS_CardinalityType
<1>2. list' \in [1 .. Cardinality(OnDisk) -> OnDisk]
  BY DEF Crash, NewestFirst
<1>3. list' \in Seq(Ids) /\ Listed' \subseteq OnDisk
  BY <1>1, <1>2 DEF Listed
<1>4. /\ UNCHANGED <<install, copy, manifest, nextId, updates, doomed, good>>
      /\ pc' = [t \in Threads |-> "idle"] /\ mine' = [t \in Threads |-> NULL]
      /\ job' = [t \in Threads |-> "none"] /\ todo' = [t \in Threads |-> {}]
      /\ entries' = [t \in Threads |-> NULL]
      /\ victims' = [t \in Threads |-> {}] /\ victim' = [t \in Threads |-> NULL]
      /\ applying' = NULL /\ program' = NULL /\ lkg' = NULL
      /\ faults' = faults + 1 /\ faults < MaxFaults
  BY DEF Crash, diskVars
<1>5. rolling' = FALSE /\ cancelled' = FALSE
  BY DEF Crash
<1>6. ThreadOK'
  BY <1>4 DEF ThreadOK, Labels
<1>7. RestOK'
  <2>1. faults' \in 0 .. MaxFaults
    BY <1>4, RollbackAssumption DEF RestOK
  <2> QED BY <1>3, <1>4, <1>5, <2>1 DEF RestOK
<1>8. JobShape' /\ WorkShape'
  BY <1>4 DEF JobShape, WorkShape, Making, RollingBack
<1>9. MakingShape'
  BY <1>4 DEF MakingShape, Unlisted
<1>10. DiskShape'
  BY <1>3, <1>4 DEF DiskShape, OnDisk
<1>11. RollShape' /\ FlagHasOwner'
  BY <1>4, <1>5 DEF RollShape, FlagHasOwner, RollingBack
<1> QED BY <1>6, <1>7, <1>8, <1>9, <1>10, <1>11

-----------------------------------------------------------------------------
(* The theorems.                                                           *)

(* The inductive invariant holds at first.                                 *)
LEMMA InitInv == Init => IInv
<1> SUFFICES ASSUME Init PROVE IInv
  OBVIOUS
<1> USE DEF Init
<1>1. ThreadOK
  BY DEF ThreadOK, Labels
<1>2. RestOK
  <2>1. 0 \in 0 .. MaxIds /\ 0 \in 0 .. MaxUpdates /\ 0 \in 0 .. MaxFaults
    BY RollbackAssumption
  <2>2. install \in Contents /\ copy \in [Ids -> [Files -> Versions \cup {NULL}]]
    BY <2>1 DEF Contents, Versions, Nothing
  <2>3. manifest \in [Ids -> Contents \cup {NULL}] /\ list \in Seq(Ids)
    OBVIOUS
  <2> QED BY <2>1, <2>2, <2>3 DEF RestOK
<1>3. JobShape /\ WorkShape
  BY DEF JobShape, WorkShape, Making, RollingBack
<1>4. Listed = {}
  BY DEF Listed
<1>5. MakingShape /\ DiskShape
  BY <1>4 DEF MakingShape, DiskShape, Unlisted
<1>6. RollShape /\ FlagHasOwner
  BY DEF RollShape, FlagHasOwner, RollingBack
<1> QED BY <1>1, <1>2, <1>3, <1>5, <1>6, TypeParts DEF IInv

(* Every step preserves the inductive invariant.                           *)
LEMMA NextInv == IInv /\ [Next]_vars => IInv'
<1> SUFFICES ASSUME IInv, [Next]_vars PROVE IInv'
  OBVIOUS
<1>1. ASSUME NEW t \in Threads, Call(t) \/ Step(t) PROVE IInv'
  BY <1>1, TypeStep, JobStep, WorkStep, SnapshotStep, RollStep,
     FlagStep DEF IInv
<1>2. CASE UNCHANGED vars
  <2>1. UNCHANGED <<install, copy, manifest, list, lkg, rolling, applying, program,
                    job, pc, mine, todo, entries, victims, victim, nextId, updates,
                    faults, doomed, good, cancelled>>
    BY <1>2 DEF vars, diskVars, memoryVars, lockVars, threadVars, cleanVars,
       countVars, historyVars
  <2>2. Listed' = Listed
    BY <2>1 DEF Listed
  <2>3. ThreadOK' /\ RestOK'
    BY <2>1, TypeParts DEF IInv, ThreadOK, RestOK
  <2>4. JobShape' /\ WorkShape' /\ RollShape' /\ FlagHasOwner'
    BY <2>1 DEF IInv, JobShape, WorkShape, RollShape, FlagHasOwner
  <2>5. MakingShape' /\ DiskShape'
    BY <2>1, <2>2 DEF IInv, MakingShape, DiskShape
  <2> QED BY <2>3, <2>4, <2>5, TypeParts DEF IInv
<1> QED BY <1>1, <1>2, CancelInv, CrashInv DEF Next

(* Snapshots, rollbacks, updates and crashes keep the inductive invariant. *)
THEOREM InductiveInvariant == Spec => []IInv
BY InitInv, NextInv, PTL DEF Spec

(* The state on disk, in memory and of the threads keeps its types.        *)
THEOREM TypeCorrect == Spec => []TypeOK
<1>1. IInv => TypeOK
  BY DEF IInv
<1> QED BY <1>1, InductiveInvariant, PTL

(* A rollback that was not cancelled, when it is about to report success,  *)
(* has put back every file of its snapshot: m_rollbackInProgress keeps     *)
(* other rollbacks out, and each rollback holds one of the two locks an    *)
(* update needs both of to replace a file.                                 *)
THEOREM RollbackIsComplete == Spec => []RollbackRestores
<1>1. IInv => RollbackRestores
  BY DEF IInv, RollShape, RollbackRestores
<1> QED BY <1>1, InductiveInvariant, PTL

(* After any number of crashes, a listed snapshot that nobody has begun to *)
(* delete has its manifest and every copy the manifest names.              *)
THEOREM ListedSnapshotsComplete == Spec => []ListedComplete
<1>1. IInv => ListedComplete
  BY ListedIds DEF IInv, DiskShape, ListedComplete
<1> QED BY <1>1, InductiveInvariant, PTL

(* m_rollbackInProgress is set only while some rollback runs.              *)
THEOREM FlagIsCleared == Spec => []FlagHasOwner
<1>1. IInv => FlagHasOwner
  BY DEF IInv
<1> QED BY <1>1, InductiveInvariant, PTL

(* No step takes the last known good snapshot off the list while it is the *)
(* last known good one.                                                    *)
THEOREM LastKnownGoodKept == Spec => LkgKept
<1> DEFINE Kept == lkg # NULL /\ lkg' = lkg /\ lkg \in Listed =>
                      lkg \in {list'[i] : i \in DOMAIN list'}
<1>1. IInv /\ [Next]_vars => [Kept]_vars
  <2> SUFFICES ASSUME IInv, Next, lkg # NULL, lkg' = lkg, lkg \in Listed
               PROVE  lkg \in Listed'
    BY DEF Listed
  <2>1. ASSUME list' = list PROVE lkg \in Listed'
    BY <2>1 DEF Listed
  <2>2. ASSUME NEW t \in Threads, Call(t) PROVE list' = list
    BY <2>2 DEF Call, StartUpdate, PerformRollback, BackupCurrentVersion, Begin
  <2>3. ASSUME NEW t \in Threads, Step(t) PROVE lkg \in Listed'
    <3>1. CASE Register(t)
      <4>1. mine[t] \in Ids
        BY <3>1 DEF Register, IInv, WorkShape, TypeOK
      <4>2. Listed' = Listed \cup {mine[t]}
        BY <3>1, <4>1, ConsListed DEF Register, IInv, TypeOK
      <4> QED BY <4>2
    <3>2. ASSUME NEW v \in victims[t], DeleteSnapshot(t, v) PROVE lkg \in Listed'
      <4>1. CASE v # lkg /\ v \in Listed
        <5>1. Listed \ {v} \subseteq Listed'
          BY <3>2, <4>1, ErasedList DEF DeleteSnapshot, IInv
        <5> QED BY <4>1, <5>1
      <4>2. CASE ~(v # lkg /\ v \in Listed)
        BY <2>1, <3>2, <4>2 DEF DeleteSnapshot
      <4> QED BY <4>1, <4>2
    <3>3. CASE ~Register(t) /\ ~\E v \in victims[t] : DeleteSnapshot(t, v)
      <4>1. list' = list
        BY <2>3, <3>3 DEF Step, UpdateDatabase, ExecuteUpdate, ApplyFailed,
           CreateDirectory, SnapshotFailed, WriteManifest, CollectVictims,
           RemoveDirectory, CleanupDone, MarkLastKnownGood, UpdateSucceeded,
           UpdateFailed, TriggerRollback, ClaimRollback, FindSnapshot,
           RestoreFailed, RollbackComplete, CopyFile, ReplaceFile, RestoreFile,
           memoryVars
      <4> QED BY <2>1, <4>1
    <3> QED BY <3>1, <3>2, <3>3
  <2>4. CASE CancelRollback
    BY <2>1, <2>4 DEF CancelRollback
  <2>5. CASE Crash
    BY <2>5 DEF Crash
  <2> QED BY <2>1, <2>2, <2>3, <2>4, <2>5 DEF Next
<1> QED BY <1>1, InductiveInvariant, PTL DEF Spec, LkgKept

=============================================================================
