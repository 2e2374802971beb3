------------------------------- MODULE Rollback -------------------------------
(***************************************************************************)
(* Snapshots and rollback of the installation (PhantomCore/Update:         *)
(* RollbackManager.cpp and its callers in ProgramUpdater.cpp and           *)
(* UpdateManager.cpp), with crashes.                                       *)
(*                                                                         *)
(* A snapshot is a directory of copies and, written last, a manifest.  The *)
(* list of snapshots, the last known good one and the flag of a running    *)
(* rollback live in memory: a crash loses them, and the next start lists   *)
(* what it finds on disk.                                                  *)
(*                                                                         *)
(* A file's content is the number of the update that wrote it.  Health     *)
(* checks, services, progress and boot counting are left out; what depends *)
(* on them is a choice.                                                    *)
(***************************************************************************)
EXTENDS Integers, Sequences, FiniteSets

CONSTANTS
    Threads,
    Files,        \* of the installation
    NULL,
    MaxSnapshots, \* config.maxSnapshots
    MaxIds,       \* bound: snapshots ever created
    MaxEvents,    \* bound: snapshots, crashes and cancellations together
    MaxUpdates,   \* bound: updates ever started
    MaxFaults     \* bound: crashes and cancelled rollbacks

Ids == 1 .. MaxIds
Versions == 0 .. MaxUpdates

ASSUME RollbackAssumption ==
    /\ IsFiniteSet(Threads) /\ IsFiniteSet(Files) /\ Files # {}
    /\ MaxSnapshots \in Nat \ {0}
    /\ MaxIds \in Nat /\ MaxEvents \in Nat /\ MaxUpdates \in Nat /\ MaxFaults \in Nat
    /\ NULL \notin Nat \cup Threads \cup [Files -> Versions]

VARIABLES
    install,    \* file -> its content on disk
    copy,       \* id -> file -> the copy in the snapshot's directory, or NULL
    manifest,   \* id -> file -> what was copied; NULL: no manifest on disk
    list,       \* m_snapshots, newest first
    lkg,        \* m_lastKnownGoodId
    rolling,    \* m_rollbackInProgress
    applying,   \* thread that holds UpdateManager's m_applyInFlight
    program,    \* thread that holds ProgramUpdater's m_mutex
    job,        \* thread -> what it was called for
    pc,         \* thread -> where it is
    mine,       \* thread -> the snapshot it makes, or rolls back to
    todo,       \* thread -> files still to copy, replace or restore
    entries,    \* thread -> fileEntries read from the manifest
    victims,    \* thread -> toDelete, what CleanupSnapshots still has to delete
    victim,     \* thread -> the snapshot whose directory it removes
    nextId,     \* ids used so far
    updates,    \* updates so far
    faults,     \* crashes and cancelled rollbacks so far
    doomed,     \* history: ids whose directory somebody has begun to remove
    good,       \* history: the id last marked as last known good
    cancelled   \* history: a rollback was cancelled since the last start

diskVars == <<install, copy, manifest>>
lockVars == <<applying, program>>
memoryVars == <<list, lkg, rolling, lockVars>>
cleanVars == <<victims, victim>>
threadVars == <<job, pc, mine, todo, entries, cleanVars>>
countVars == <<nextId, updates, faults>>
historyVars == <<doomed, good, cancelled>>
vars == <<diskVars, memoryVars, threadVars, countVars, historyVars>>

Nothing == [f \in Files |-> NULL]
Budget == nextId + faults < MaxEvents
Listed == {list[i] : i \in DOMAIN list}

Init ==
    /\ install = [f \in Files |-> 0]
    /\ copy = [i \in Ids |-> Nothing]
    /\ manifest = [i \in Ids |-> NULL]
    /\ list = <<>>
    /\ lkg = NULL
    /\ rolling = FALSE
    /\ applying = NULL
    /\ program = NULL
    /\ job = [t \in Threads |-> "none"]
    /\ pc = [t \in Threads |-> "idle"]
    /\ mine = [t \in Threads |-> NULL]
    /\ todo = [t \in Threads |-> {}]
    /\ entries = [t \in Threads |-> NULL]
    /\ victims = [t \in Threads |-> {}]
    /\ victim = [t \in Threads |-> NULL]
    /\ nextId = 0 /\ updates = 0 /\ faults = 0
    /\ doomed = {}
    /\ good = NULL
    /\ cancelled = FALSE

Goto(t, label) == pc' = [pc EXCEPT ![t] = label]
Todo(t, S) == todo' = [todo EXCEPT ![t] = S]
Mine(t, i) == mine' = [mine EXCEPT ![t] = i]
Removing(t, v) == victim' = [victim EXCEPT ![t] = v]

Release(t) == program' = IF program = t THEN NULL ELSE program

(* What the thread's work on a snapshot leaves behind is forgotten.        *)
Forget(t) ==
    /\ Mine(t, NULL)
    /\ Todo(t, {})
    /\ entries' = [entries EXCEPT ![t] = NULL]
    /\ victims' = [victims EXCEPT ![t] = {}]
    /\ UNCHANGED victim

(* The call returns; the locks it holds are released.                      *)
Return(t) ==
    /\ job' = [job EXCEPT ![t] = "none"]
    /\ Goto(t, "idle")
    /\ Forget(t)
    /\ applying' = IF applying = t THEN NULL ELSE applying
    /\ Release(t)

(* A rollback, or the attempt, is over.  If it was that of a failed program*)
(* update, UpdateManager is told of the failure.                           *)
AfterRollback(t) ==
    IF job[t] = "update"
    THEN /\ job' = [job EXCEPT ![t] = "apply"]
         /\ Goto(t, "failed")
         /\ Forget(t)
         /\ Release(t)
         /\ UNCHANGED applying
    ELSE Return(t)

-----------------------------------------------------------------------------
(* The calls.                                                              *)

CanRollback == list # <<>> /\ ~rolling

Begin(t, j, label) ==
    /\ pc[t] = "idle"
    /\ job' = [job EXCEPT ![t] = j]
    /\ Goto(t, label)
    /\ UNCHANGED <<diskVars, list, lkg, rolling, mine, todo, entries, cleanVars,
                   countVars, historyVars>>

(* UpdateManager::StartUpdate, one at a time, up to the snapshot of        *)
(* ApplyPackageInternal.                                                   *)
StartUpdate(t) ==
    /\ applying = NULL
    /\ applying' = t
    /\ Begin(t, "apply", "create")
    /\ UNCHANGED program

(* ProgramUpdater::PerformRollback.                                        *)
PerformRollback(t) ==
    /\ program = NULL
    /\ CanRollback
    /\ program' = t
    /\ Begin(t, "rollback", "trigger")
    /\ UNCHANGED applying

(* UpdateManager::FinalizePendingUpdates, "call after reboot": the version *)
(* is stable.  Its other branch, TriggerRollback in a boot loop, comes     *)
(* before any snapshot of this process is marked and does nothing.         *)
BackupCurrentVersion(t) ==
    /\ Begin(t, "backup", "create")
    /\ UNCHANGED lockVars

(* ApplyPackageInternal, after its snapshot: a signature database, or a    *)
(* program that cannot be staged, which changes no file either ...         *)
UpdateDatabase(t) ==
    /\ pc[t] = "dispatch"
    /\ \/ Return(t)
       \/ /\ Goto(t, "failed")
          /\ UNCHANGED <<lockVars, job, mine, todo, entries, cleanVars>>
    /\ UNCHANGED <<diskVars, list, lkg, rolling, countVars, historyVars>>

(* ... or the program: ApplyPackage takes the lock, ExecuteUpdate makes a  *)
(* snapshot of its own.                                                    *)
ExecuteUpdate(t) ==
    /\ pc[t] = "dispatch"
    /\ program = NULL
    /\ updates < MaxUpdates
    /\ program' = t
    /\ updates' = updates + 1
    /\ job' = [job EXCEPT ![t] = "update"]
    /\ Goto(t, "create")
    /\ UNCHANGED <<diskVars, list, lkg, rolling, applying, mine, todo, entries,
                   cleanVars, nextId, faults, historyVars>>

(* The end of ApplyPackageInternal for an update that failed.              *)
ApplyFailed(t) ==
    /\ pc[t] = "failed"
    /\ IF CanRollback
       THEN /\ Goto(t, "trigger")
            /\ UNCHANGED <<lockVars, job, mine, todo, entries, cleanVars>>
       ELSE Return(t)
    /\ UNCHANGED <<diskVars, list, lkg, rolling, countVars, historyVars>>

-----------------------------------------------------------------------------
(* CreateSnapshot and CleanupSnapshots.                                    *)

(* What follows the snapshot: an update goes on with or without it.        *)
AfterSnapshot(t, i) ==
    CASE job[t] = "update" ->
            /\ Goto(t, "replace")
            /\ Mine(t, NULL)
            /\ Todo(t, Files)
            /\ UNCHANGED <<lockVars, job, entries, cleanVars>>
      [] job[t] = "apply" ->
            /\ Goto(t, "dispatch")
            /\ Forget(t)
            /\ UNCHANGED <<lockVars, job>>
      [] job[t] = "backup" /\ i # NULL ->
            /\ Goto(t, "mark")
            /\ UNCHANGED <<lockVars, job, mine, todo, entries, cleanVars>>
      [] OTHER -> Return(t)

CreateDirectory(t) ==
    /\ pc[t] = "create"
    /\ nextId < MaxIds /\ Budget
    /\ nextId' = nextId + 1
    /\ Mine(t, nextId + 1)
    /\ Todo(t, Files)
    /\ Goto(t, "copy")
    /\ UNCHANGED <<diskVars, memoryVars, job, entries, cleanVars, updates,
                   faults, historyVars>>

(* No space, no directory, a file that cannot be copied: what is there is  *)
(* removed, and there is no snapshot.                                      *)
SnapshotFailed(t) ==
    /\ pc[t] \in {"create", "copy", "manifest"}
    /\ copy' = [i \in Ids |-> IF i = mine[t] THEN Nothing ELSE copy[i]]
    /\ AfterSnapshot(t, NULL)
    /\ UNCHANGED <<install, manifest, list, lkg, rolling, countVars,
                   historyVars>>

(* Seeded fault: the manifest is written with the first copy.              *)
CopyFileManifestFirst(t, f) ==
    /\ pc[t] = "copy"
    /\ f \in todo[t]
    /\ copy' = [copy EXCEPT ![mine[t]][f] = install[f]]
    /\ manifest' = [manifest EXCEPT ![mine[t]] = install]
    /\ Todo(t, todo[t] \ {f})
    /\ Goto(t, IF todo[t] = {f} THEN "manifest" ELSE "copy")
    /\ UNCHANGED <<install, memoryVars, job, mine, entries, cleanVars,
                   countVars, historyVars>>

CopyFile(t, f) ==
    /\ pc[t] = "copy"
    /\ f \in todo[t]
    /\ copy' = [copy EXCEPT ![mine[t]][f] = install[f]]
    /\ Todo(t, todo[t] \ {f})
    /\ Goto(t, IF todo[t] = {f} THEN "manifest" ELSE "copy")
    /\ UNCHANGED <<install, manifest, memoryVars, job, mine, entries, cleanVars,
                   countVars, historyVars>>

(* Written to a temporary file and renamed.                                *)
WriteManifest(t) ==
    /\ pc[t] = "manifest"
    /\ manifest' = [manifest EXCEPT ![mine[t]] = copy[mine[t]]]
    /\ Goto(t, "register")
    /\ UNCHANGED <<install, copy, memoryVars, job, mine, todo, entries,
                   cleanVars, countVars, historyVars>>

Register(t) ==
    /\ pc[t] = "register"
    /\ list' = <<mine[t]>> \o list
    /\ Goto(t, "collect")
    /\ UNCHANGED <<diskVars, lkg, rolling, lockVars, job, mine, todo, entries,
                   cleanVars, countVars, historyVars>>

(* The snapshots past the first MaxSnapshots, the last known good excepted.*)
Surplus == {list[i] : i \in {j \in DOMAIN list : j > MaxSnapshots}} \ {lkg}

CollectVictims(t) ==
    /\ pc[t] = "collect"
    /\ IF Surplus = {}
       THEN AfterSnapshot(t, mine[t])
       ELSE /\ victims' = [victims EXCEPT ![t] = Surplus]
            /\ Goto(t, "delete")
            /\ UNCHANGED <<lockVars, job, mine, todo, entries, victim>>
    /\ UNCHANGED <<diskVars, list, lkg, rolling, countVars, historyVars>>

FindSnapshotIndex(v) == CHOOSE i \in DOMAIN list : list[i] = v

(* m_snapshots.erase.                                                      *)
EraseAt(s, i) ==
    [k \in 1 .. Len(s) - 1 |-> IF k < i THEN s[k] ELSE s[k + 1]]

(* Seeded fault: what was collected is deleted without a second look.      *)
DeleteSnapshotUnchecked(t, v) ==
    /\ pc[t] = "delete"
    /\ v \in victims[t]
    /\ IF v \in Listed
       THEN /\ list' = EraseAt(list, FindSnapshotIndex(v))
            /\ doomed' = doomed \cup {v}
            /\ Removing(t, v)
            /\ Goto(t, "remove")
       ELSE /\ Removing(t, NULL)
            /\ UNCHANGED <<list, doomed, pc>>
    /\ victims' = [victims EXCEPT ![t] = @ \ {v}]
    /\ UNCHANGED <<diskVars, lkg, rolling, lockVars, job, mine, todo, entries,
                   countVars, good, cancelled>>

(* DeleteSnapshot, under the lock: it refuses the last known good one and  *)
(* one that is not listed any more.                                        *)
DeleteSnapshot(t, v) ==
    /\ pc[t] = "delete"
    /\ v \in victims[t]
    /\ IF v # lkg /\ v \in Listed
       THEN /\ list' = EraseAt(list, FindSnapshotIndex(v))
            /\ doomed' = doomed \cup {v}
            /\ Removing(t, v)
            /\ Goto(t, "remove")
       ELSE /\ Removing(t, NULL)
            /\ UNCHANGED <<list, doomed, pc>>
    /\ victims' = [victims EXCEPT ![t] = @ \ {v}]
    /\ UNCHANGED <<diskVars, lkg, rolling, lockVars, job, mine, todo, entries,
                   countVars, good, cancelled>>

(* RemoveDirectoryRecursive goes on when a file cannot be removed: any     *)
(* part of the directory may remain.  Copies without their manifest, which *)
(* no later start lists, count as gone.                                    *)
RemoveDirectory(t) ==
    /\ pc[t] = "remove"
    /\ \/ /\ copy' = [copy EXCEPT ![victim[t]] = Nothing]
          /\ manifest' = [manifest EXCEPT ![victim[t]] = NULL]
       \/ /\ \E left \in SUBSET Files :
                copy' = [copy EXCEPT ![victim[t]] =
                           [f \in Files |-> IF f \in left THEN @[f] ELSE NULL]]
          /\ UNCHANGED manifest
    /\ Removing(t, NULL)
    /\ Goto(t, "delete")
    /\ UNCHANGED <<install, memoryVars, job, mine, todo, entries, victims,
                   countVars, historyVars>>

CleanupDone(t) ==
    /\ pc[t] = "delete"
    /\ victims[t] = {}
    /\ AfterSnapshot(t, mine[t])
    /\ UNCHANGED <<diskVars, list, lkg, rolling, countVars, historyVars>>

(* The end of BackupCurrentVersion.                                        *)
MarkLastKnownGood(t) ==
    /\ pc[t] = "mark"
    /\ lkg' = mine[t]
    /\ good' = mine[t]
    /\ Return(t)
    /\ UNCHANGED <<diskVars, list, rolling, countVars, doomed, cancelled>>

-----------------------------------------------------------------------------
(* The rest of ExecuteUpdate.                                              *)

ReplaceFile(t, f) ==
    /\ pc[t] = "replace"
    /\ f \in todo[t]
    /\ install' = [install EXCEPT ![f] = updates]
    /\ Todo(t, todo[t] \ {f})
    /\ UNCHANGED <<copy, manifest, memoryVars, job, pc, mine, entries, cleanVars,
                   countVars, historyVars>>

UpdateSucceeded(t) ==
    /\ pc[t] = "replace" /\ todo[t] = {}
    /\ Return(t)
    /\ UNCHANGED <<diskVars, list, lkg, rolling, countVars, historyVars>>

(* A file is not replaced, a service does not start, or the check fails.   *)
UpdateFailed(t) ==
    /\ pc[t] = "replace"
    /\ IF CanRollback
       THEN /\ Goto(t, "trigger")
            /\ Todo(t, {})
            /\ UNCHANGED <<lockVars, job, mine, entries, cleanVars>>
       ELSE AfterRollback(t)
    /\ UNCHANGED <<diskVars, list, lkg, rolling, countVars, historyVars>>

-----------------------------------------------------------------------------
(* TriggerRollback and RollbackTo.                                         *)

TriggerRollback(t) ==
    /\ pc[t] = "trigger"
    /\ IF lkg = NULL
       THEN AfterRollback(t)
       ELSE /\ Mine(t, lkg)
            /\ Goto(t, "claim")
            /\ UNCHANGED <<lockVars, job, todo, entries, cleanVars>>
    /\ UNCHANGED <<diskVars, list, lkg, rolling, countVars, historyVars>>

(* Seeded fault: the flag is set but its old value is not looked at.       *)
ClaimRollbackAlways(t) ==
    /\ pc[t] = "claim"
    /\ rolling' = TRUE
    /\ Goto(t, "find")
    /\ UNCHANGED <<diskVars, list, lkg, lockVars, job, mine, todo, entries,
                   cleanVars, countVars, historyVars>>

ClaimRollback(t) ==
    /\ pc[t] = "claim"
    /\ IF rolling
       THEN AfterRollback(t) /\ UNCHANGED rolling
       ELSE /\ rolling' = TRUE
            /\ Goto(t, "find")
            /\ UNCHANGED <<lockVars, job, mine, todo, entries, cleanVars>>
    /\ UNCHANGED <<diskVars, list, lkg, countVars, historyVars>>

(* Seeded fault: the rollback of an unknown snapshot keeps the flag.       *)
FindSnapshotKeepsClaim(t) ==
    /\ pc[t] = "find"
    /\ IF mine[t] \in Listed /\ manifest[mine[t]] # NULL
       THEN /\ entries' = [entries EXCEPT ![t] = manifest[mine[t]]]
            /\ Todo(t, Files)
            /\ Goto(t, "restore")
            /\ UNCHANGED <<lockVars, job, mine, cleanVars>>
       ELSE AfterRollback(t)
    /\ UNCHANGED <<diskVars, list, lkg, rolling, countVars, historyVars>>

(* The snapshot is looked up and its manifest read.                        *)
FindSnapshot(t) ==
    /\ pc[t] = "find"
    /\ IF mine[t] \in Listed /\ manifest[mine[t]] # NULL
       THEN /\ entries' = [entries EXCEPT ![t] = manifest[mine[t]]]
            /\ Todo(t, Files)
            /\ Goto(t, "restore")
            /\ UNCHANGED <<rolling, lockVars, job, mine, cleanVars>>
       ELSE rolling' = FALSE /\ AfterRollback(t)
    /\ UNCHANGED <<diskVars, list, lkg, countVars, historyVars>>

(* Seeded fault: what the directory holds is put back without the check.   *)
RestoreFileUnchecked(t, f) ==
    /\ pc[t] = "restore"
    /\ f \in todo[t]
    /\ install' = [install EXCEPT ![f] = copy[mine[t]][f]]
    /\ Todo(t, todo[t] \ {f})
    /\ Goto(t, IF todo[t] = {f} THEN "complete" ELSE "restore")
    /\ UNCHANGED <<copy, manifest, memoryVars, job, mine, entries, cleanVars,
                   countVars, historyVars>>

(* A copy is checked against the manifest before and after it is put back. *)
RestoreFile(t, f) ==
    /\ pc[t] = "restore"
    /\ f \in todo[t]
    /\ copy[mine[t]][f] = entries[t][f]
    /\ install' = [install EXCEPT ![f] = entries[t][f]]
    /\ Todo(t, todo[t] \ {f})
    /\ Goto(t, IF todo[t] = {f} THEN "complete" ELSE "restore")
    /\ UNCHANGED <<copy, manifest, memoryVars, job, mine, entries, cleanVars,
                   countVars, historyVars>>

(* A copy is missing or a file cannot be written; files already restored   *)
(* stay.                                                                   *)
RestoreFailed(t) ==
    /\ pc[t] = "restore"
    /\ rolling' = FALSE
    /\ AfterRollback(t)
    /\ UNCHANGED <<diskVars, list, lkg, countVars, historyVars>>

(* The snapshot becomes the last known good one if the health check allows.*)
RollbackComplete(t) ==
    /\ pc[t] = "complete"
    /\ \/ lkg' = mine[t] /\ good' = mine[t]
       \/ UNCHANGED <<lkg, good>>
    /\ rolling' = FALSE
    /\ AfterRollback(t)
    /\ UNCHANGED <<diskVars, list, countVars, doomed, cancelled>>

(* CancelRollback only clears the flag.                                    *)
CancelRollback ==
    /\ rolling
    /\ faults < MaxFaults /\ Budget
    /\ faults' = faults + 1
    /\ rolling' = FALSE
    /\ cancelled' = TRUE
    /\ UNCHANGED <<diskVars, list, lkg, lockVars, threadVars, nextId, updates,
                   doomed, good>>

-----------------------------------------------------------------------------
(* The process or the machine goes down and comes up again: Initialize and *)
(* LoadExistingSnapshots.                                                  *)

OnDisk == {i \in Ids : manifest[i] # NULL}

(* The one way to list S newest first.                                     *)
NewestFirst(S) ==
    {s \in [1 .. Cardinality(S) -> S] :
        \A a, b \in DOMAIN s : a < b => s[a] > s[b]}

Crash ==
    /\ faults < MaxFaults /\ Budget
    /\ faults' = faults + 1
    /\ list' \in NewestFirst(OnDisk)
    /\ lkg' = NULL
    /\ rolling' = FALSE
    /\ applying' = NULL
    /\ program' = NULL
    /\ job' = [t \in Threads |-> "none"]
    /\ pc' = [t \in Threads |-> "idle"]
    /\ mine' = [t \in Threads |-> NULL]
    /\ todo' = [t \in Threads |-> {}]
    /\ entries' = [t \in Threads |-> NULL]
    /\ victims' = [t \in Threads |-> {}]
    /\ victim' = [t \in Threads |-> NULL]
    /\ cancelled' = FALSE
    /\ UNCHANGED <<diskVars, nextId, updates, doomed, good>>

-----------------------------------------------------------------------------
Call(t) ==
    \/ StartUpdate(t) \/ PerformRollback(t) \/ BackupCurrentVersion(t)

Step(t) ==
    \/ UpdateDatabase(t) \/ ExecuteUpdate(t) \/ ApplyFailed(t)
    \/ CreateDirectory(t) \/ SnapshotFailed(t) \/ WriteManifest(t)
    \/ Register(t) \/ CollectVictims(t) \/ RemoveDirectory(t)
    \/ CleanupDone(t) \/ MarkLastKnownGood(t) \/ UpdateSucceeded(t)
    \/ UpdateFailed(t) \/ TriggerRollback(t) \/ ClaimRollback(t)
    \/ FindSnapshot(t) \/ RestoreFailed(t) \/ RollbackComplete(t)
    \/ \E f \in Files : CopyFile(t, f) \/ ReplaceFile(t, f) \/ RestoreFile(t, f)
    \/ \E v \in victims[t] : DeleteSnapshot(t, v)

Next ==
    \/ \E t \in Threads : Call(t) \/ Step(t)
    \/ CancelRollback
    \/ Crash

Spec == Init /\ [][Next]_vars

-----------------------------------------------------------------------------
(* Properties.                                                             *)

Labels == {"idle", "create", "copy", "manifest", "register", "collect",
           "delete", "remove", "mark", "replace", "trigger", "claim", "find",
           "restore", "complete", "dispatch", "failed"}
Contents == [Files -> Versions]

TypeOK ==
    /\ install \in Contents
    /\ copy \in [Ids -> [Files -> Versions \cup {NULL}]]
    /\ manifest \in [Ids -> Contents \cup {NULL}]
    /\ list \in Seq(Ids)
    /\ lkg \in Ids \cup {NULL}
    /\ rolling \in BOOLEAN
    /\ applying \in Threads \cup {NULL} /\ program \in Threads \cup {NULL}
    /\ job \in [Threads -> {"none", "apply", "update", "rollback", "backup"}]
    /\ pc \in [Threads -> Labels]
    /\ mine \in [Threads -> Ids \cup {NULL}]
    /\ todo \in [Threads -> SUBSET Files]
    /\ entries \in [Threads -> Contents \cup {NULL}]
    /\ victims \in [Threads -> SUBSET Ids]
    /\ victim \in [Threads -> Ids \cup {NULL}]
    /\ nextId \in 0 .. MaxIds /\ updates \in 0 .. MaxUpdates
    /\ faults \in 0 .. MaxFaults
    /\ doomed \subseteq Ids
    /\ good \in Ids \cup {NULL}
    /\ cancelled \in BOOLEAN

(* A rollback that is about to report success has put the whole snapshot   *)
(* back: no other rollback and no update wrote a file meanwhile.  A        *)
(* cancelled rollback runs on beside the next one, which ends the promise. *)
RollbackRestores ==
    \A t \in Threads : pc[t] = "complete" /\ ~cancelled =>
        install = entries[t]

(* Whatever crash came between, a snapshot that is listed and that nobody  *)
(* has begun to delete has every file its manifest names, as copied.       *)
ListedComplete ==
    \A i \in Listed \ doomed : manifest[i] # NULL /\ copy[i] = manifest[i]

(* "Never delete the Last Known Good snapshot automatically": the snapshot *)
(* is not taken off the list while it is the last known good one, even by  *)
(* a cleanup that chose its victims before it was.                         *)
LkgKept ==
    [][lkg # NULL /\ lkg' = lkg /\ lkg \in Listed =>
          lkg \in {list'[i] : i \in DOMAIN list'}]_vars

(* Every way out of a rollback clears m_rollbackInProgress: the flag never *)
(* outlives the rollbacks that run, or no later one would be let in.       *)
FlagHasOwner ==
    rolling => \E t \in Threads : pc[t] \in {"find", "restore", "complete"}

(* The same promise across restarts: the snapshot last marked as known     *)
(* good is never deleted.                                                  *)
LkgNeverDeleted == good \notin doomed

(* The inductive invariant.  Which call a step belongs to, and the lock    *)
(* the call holds: an update replaces files under both, a rollback runs    *)
(* under one of them at least.                                             *)
Making == {"create", "copy", "manifest", "register", "collect", "delete",
           "remove"}
RollingBack == {"find", "restore", "complete"}

JobShape ==
    \A t \in Threads :
        /\ pc[t] \in Making => job[t] \in {"apply", "update", "backup"}
        /\ pc[t] \in {"dispatch", "failed"} => job[t] = "apply"
        /\ pc[t] = "mark" => job[t] = "backup"
        /\ pc[t] = "replace" => job[t] = "update"
        /\ pc[t] \in {"trigger", "claim"} \cup RollingBack =>
              job[t] \in {"apply", "update", "rollback"}
        /\ job[t] \in {"apply", "update"} => applying = t
        /\ job[t] \in {"update", "rollback"} => program = t

(* The snapshot a thread works on.                                         *)
WorkShape ==
    \A t \in Threads :
        /\ mine[t] = NULL <=>
              pc[t] \in {"idle", "create", "dispatch", "failed", "replace",
                        "trigger"}
        /\ pc[t] = "remove" => victim[t] \in doomed
        /\ pc[t] \in {"restore", "complete"} => entries[t] # NULL

(* A snapshot in the making is its maker's alone: it is neither listed nor *)
(* being deleted, and has no manifest before all its copies.               *)
Unlisted == {"copy", "manifest", "register"}

MakingShape ==
    /\ \A t \in Threads : pc[t] \in Unlisted =>
          /\ mine[t] <= nextId
          /\ mine[t] \notin Listed \cup doomed
          /\ manifest[mine[t]] = NULL <=> pc[t] # "register"
    /\ \A t \in Threads : pc[t] = "copy" =>
          \A f \in Files \ todo[t] : copy[mine[t]][f] # NULL
    /\ \A t \in Threads : pc[t] = "manifest" =>
          \A f \in Files : copy[mine[t]][f] # NULL
    /\ \A t, u \in Threads :
          pc[t] \in Unlisted /\ pc[u] \in Unlisted /\ mine[t] = mine[u] => t = u

(* What is on disk under an id that was used, whether it is listed or not. *)
DiskShape ==
    /\ \A i \in Ids : i > nextId =>
          manifest[i] = NULL /\ i \notin Listed \cup doomed
    /\ \A i \in Ids \ doomed : manifest[i] # NULL => copy[i] = manifest[i]
    /\ \A i \in Listed \ doomed : manifest[i] # NULL

(* One rollback at a time, with the flag set, unless one was cancelled,    *)
(* and what it has restored so far.                                        *)
RollShape ==
    ~cancelled =>
        \A t \in Threads :
            /\ pc[t] \in RollingBack =>
                  rolling /\ \A u \in Threads : pc[u] \in RollingBack => u = t
            /\ pc[t] = "restore" =>
                  \A f \in Files \ todo[t] : install[f] = entries[t][f]
            /\ pc[t] = "complete" => install = entries[t]

IInv ==
    /\ TypeOK /\ JobShape /\ WorkShape /\ MakingShape /\ DiskShape
    /\ RollShape /\ FlagHasOwner

=============================================================================
