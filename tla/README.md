# TLA+ models of the ShadowStrike sensor

ShadowStrike is an endpoint protection product for Windows: a kernel
minifilter (PhantomSensor) watches files, processes and the registry and asks
a user-mode service (PhantomCore) for verdicts. This directory holds TLA+
models of the parts where a mistake is hardest to see in a test: the kernel end
of the channel between the two, the message queue and the verdict cache behind
it, and the snapshots an update falls back to. TLC runs check them on small
instances, and proofs show their safety properties for all sizes.

All paths below are relative to `src/PhantomSensor/PhantomSensor/` unless they
say otherwise. In section 1 the parts in bold are modelled.

## 1. Inventory

| Part | State | Operations | Hard behaviour | What makes it correct |
|---|---|---|---|---|
| **Communication port** (`Communication/CommPort.c`) | four client slots (port, reference count, disconnecting, primary, session key, encryption flag), client counter, pending requests | connect, disconnect, key delivery work item, acquire/release of a slot, three send functions, drain of queued messages, close at unload, command handlers | lock-free counting against disconnect; slot reuse; unload next to callbacks; timeouts | no use of a closed port, no lost slot, exact counters, no payload before the key |
| **Scan bridge** (`Communication/ScanBridge.c`) | rundown protection, circuit breaker, lookaside lists | scan request with retries, four event senders, shutdown | stale reads of the breaker state, shutdown against callers, retry after a late answer | nothing outlives the shutdown, the breaker recovers, calls return, the caller learns the outcome |
| **Message queue** (`Communication/MessageQueue.c`) | four priority lists, counts, pending completions, worker | enqueue (with or without waiting), dequeue, batch, complete, expire, flow control, shutdown | counters outside the locks, waiters against replies, expiry and shutdown | bound, no lost wakeup, priority order, each completion freed once, the shutdown ends |
| Message handler (`Communication/MessageHandler.c`) | handler table, protected processes | register, dispatch | unregister against dispatch | a handler is not called after its removal |
| Telemetry buffer (`Communication/TelemetryBuffer.c`) | per-CPU rings, flush thread | append, flush, drain | ring at its limit, flush against append | no event lost without being counted |
| Encryption, compression (`Communication/Encryption.c`, `Compression.c`) | key objects | encrypt, decrypt, compress | numeric | out of reach: byte strings |
| **Scan cache** (`Cache/ScanCache.c`) | buckets of verdicts with TTL, entry counter, active references | lookup, insert, remove, cleanup, invalidate volume, shutdown | counters outside the locks, shutdown under running callbacks | exact counters, nothing touched after the teardown |
| **File system callbacks** (`Callbacks/FileSystem/*.c`) | key of the open, per-stream context | pre-create, pre-write, pre-set-information, section | a verdict that arrives after the file has changed, write times that come back | no verdict for changed content |
| Contexts (`Context/*.c`) | stream and instance contexts | get, set, invalidate | two threads creating one | one context per stream |
| Work queues, thread pool, timers (`Sync/*.c`) | queues, workers, timers | queue, cancel, drain, stop | cancel against run | run once, drain ends |
| Driver entry, unload (`Core/DriverEntry.c`) | subsystem flags | load and unload order | partial initialisation | everything started is stopped, in reverse |
| Process, thread, image, registry callbacks (`Callbacks/Process`, `Callbacks/Registry`) | tables of processes | notifications | callers of the two parts modelled here | |
| Self protection (`SelfProtection/*.c`) | protected processes, handles | protect, unprotect, check | table shared with CommPort | |
| Behaviour engine, monitors (`Behavioral`, `Memory`, `Network`, `Syscall`, `Objects`, `ETW`, ...) | scores | submit, evaluate | heuristics | |
| Early-launch driver (`../PhantomSensorELAM`) | table of hashes | classify | none | |
| User-mode channel (`src/src/PhantomCore/Communication`) | connection, receive threads, pending replies | connect, dispatch, reconnect | the other end of CommPort | a reply reaches its request |
| **Update, rollback** (`src/src/PhantomCore/Update`) | snapshots on disk, list, last known good, rollback flag | snapshot, cleanup, apply, roll back, cancel, restart | a crash between two steps, cleanups against rollbacks | a rollback restores the whole snapshot, listed snapshots are complete |
| Detection, correlation, stores, parsers, emulator, service, products (`src/src`, `src/PhantomEmulator`, `src/PhantomDisassembler`, `src/PhantomCortex`) | | | data and heuristics | |

How the parts interact: the callbacks call the scan bridge
(`SbSendScanRequestEx`, the event senders) on the thread that does the I/O; the
bridge calls CommPort's `ShadowStrikeSendScanRequest`, or takes a client
reference itself and calls `FltSendMessage`; CommPort puts notifications that
find no client into the message queue and drains it when one connects. The file
system callbacks look a verdict up in the scan cache, ask the bridge on a miss
and cache the answer; writers invalidate it. In user mode the update manager
and the program updater each take snapshots of the installation and roll back
through the rollback manager. The
Filter Manager calls `ConnectNotify`, `DisconnectNotify` and `MessageNotify` on
the client's threads. Unload runs in the order callbacks unregistered, cache,
`ShadowStrikeCloseCommunicationPort`, `FltUnregisterFilter`, `MqShutdown`,
`ShadowStrikeScanBridgeShutdown` (`Core/DriverEntry.c:2907-3160`), so the port
is torn down while file system callbacks still send.

## 2. Modules

| Module | Models |
|---|---|
| `CommPort` | slots, references, key delivery, senders, drain |
| `PortLifetime` | abstract: what the references of CommPort promise about one port |
| `CommPortUnload` | `CommPort` together with `ShadowStrikeCloseCommunicationPort` |
| `ScanBridge` | rundown protection, circuit breaker, scan and event senders, shutdown |
| `MessageQueue` | the priority lists: enqueue, batch dequeue, free, flow control, shutdown |
| `MqCompletion` | blocking messages: completions, replies, expiry, shutdown |
| `ScanCache` | the verdict cache: references, entries, cleanup, shutdown |
| `FileScan` | `ScanCache` together with the file system callbacks that use it |
| `Rollback` | snapshots, updates and rollbacks, with crashes |
| `CommPort_proofs`, `ScanBridge_proofs`, `MessageQueue_proofs`, `MqCompletion_proofs`, `ScanCache_proofs`, `FileScan_proofs`, `Rollback_proofs` | theorems and proofs about the modules they are named after |
| `MCCommPort`, `MCMessageQueue`, `MCFileScan`, `MCRollback` | symmetry sets and constants for TLC |

### CommPort

The variables `port`, `refCount`, `disconnecting`, `primary`, `encrypted` are
the fields of `g_ClientPortRefs[]` (`CommPort.h:110-165`); `connectedClients`
and `pending` are the counters in `g_DriverData`. `readers` is the shared side
of `ClientPortLock`; a section under the exclusive lock is one step that needs
`readers = {}`. `closes`, `kexSent`, `kexLost`, `kexFailed` and `drained`
record what was done to a port, so that properties can speak about it.

Three kinds of actors share the slots, and `pc` gives each a place in its code:

* `Send(t)`: a kernel thread in one of the three send functions. `op` says
  which: "scan" counts itself before it acquires a client, "process" with the
  client held, "notify" (also a process notification without reply) is buffered
  when there is no client.
* `Conn(p)`: `ConnectNotify` with the queue drain, later `DisconnectNotify`.
* `Kex(p)`: the work item that delivers the session key.

`Acquire` is four steps, because a disconnect can fall between any two of
them: the choice of a slot from flags that are only read, the increment, the
second look at `Disconnecting`, the undo. `Release` and `DisconnectNotify` end
with a finalize of their own. A connection is identified with its port handle;
a client that reconnects is another member of `Clients`, so slot reuse is in
every run with two clients. `ConnectDenied` stands for all refusals, which
leave no trace. Messages have no content: a payload is sent, dropped, or
queued. The statuses of `FltSendMessage` matter once: `STATUS_TIMEOUT` is a
success code, so a key delivery that times out takes the success branch
(`KexTimedOut`).

### CommPortUnload

Adds the three passes of the teardown, one step per slot and interlocked
operation, and the timeout after which a slot is given up.
`DisconnectDuringClose` says whether a client may leave while it runs. It may
in reality; with FALSE the run shows that the teardown itself is right, with
TRUE that it is not when a client leaves meanwhile.

### ScanBridge

One thread variable per place where the code reads shared state and acts on it
later. The clock is two facts: whether the recovery time has passed since
`OpenedTime` (`recovered`), and since a time stamp a thread has taken but not
yet written (`late`); `Tick` makes both true. CommPort is reduced to the status
it returns, and to whether there is a client, asked anew by every attempt, so
the bridge is checked for every outcome. `Heal` is the moment
from which user mode answers, for the recovery property. The pending-request
hash table is emptied at shutdown but nothing in the file inserts into it;
`SB_CIRCUIT_MIN_TRANSITION_MS` and `SB_CIRCUIT_HALF_OPEN_TEST_MS` are not used
by the code, so the model has neither.

### MessageQueue

`queue` holds the lists of the priorities, `total` the counter
`TotalMessageCount`, which goes up before a message is in its list and down
after it has left. A producer reserves a place, allocates, inserts, reads the
depth, updates the flow control and sets the event, one step each; the consumer
scans the lists from the top, one lock at a time, waits once if they are empty,
and frees what it took. `older` and `inverted` remember what a scan passed by.
Messages have no content; their memory comes back from the lookaside list, so a
stale pointer would meet the next message. The four priorities become two, with
`HighPriority` as the one that may exceed the limit. `MqDequeueMessage` is a
batch of one. When the wait for the first message times out, the status is a
success code, so `MqDequeueBatch` keeps the NULL it was given as its first
entry and goes on; `batch` holds that NULL, `FreeNothing` passes it to
`MqFreeMessage`, and `InBatch` are the messages beside it.

### MqCompletion

The same file seen from `MqEnqueueMessageAndWait`. A completion has a reference
of the caller and one of the list it is linked into (`entry` says which list:
the pending one or the worker's private one); a completer takes a third. The
three counts (`refCount`, `pendingCount`, `outstanding`) are changed in
different places by callers, completers, worker and shutdown. `todo` counts the
references an actor still has to drop, so a release (decrement, free, count,
signal) is written once. A caller chooses between a wait with a limit (`"wait"`),
which ends by the event or by the timeout at any time, and one without
(`"waitForever"`, `TimeoutMs` 0), which only the event ends.

The shutdown's section under `g_PendingCompletionLock` is several steps, since
callers it has woken run beside it without that lock: it unlinks and marks a
completion and sets its event (`ShutdownCancel`), and only then drops the
reference of the list (`ShutdownDrop`). A cancelled caller does not detach, so
its own release may come first; then the shutdown's is the last, and the
completion goes to the orphans, which are freed and counted off when the lock
has been given up (`ShutdownFreeOrphan`). Sections of others under the lock wait
for it (`LockFree`).

`DetachDuringExpiry` says whether a caller may detach while the worker
still empties its private list. Nothing in the code prevents it; with FALSE the
run shows that everything else is right, with TRUE what comes of it.

### ScanCache and FileScan

`ScanCache` is a library: `Call` starts an operation of a thread, which ends
with `pc[t] = "out"`. An operation counts itself in, looks at
`ShutdownInProgress` again, works under the bucket's lock, settles the entry
count afterwards, counts itself out and, if it was the last, looks for a
shutdown to signal. A walk over all buckets is one step, since no property
relates entries of different buckets except by their number. The limit, the
expiry and a failed allocation are there; the hash function, the statistics and
the length of the TTL are not. Unknown, Error and Timeout are one verdict,
`"Transient"`. `LateSignal` plays the part `DetachDuringExpiry` has above, for
the gap between the last decrement and the look at `ShutdownInProgress`.

`FileScan` adds the callers. The file system, the scanner and the clock are the
environment. A change (`Change`) comes some time after the callback that
announced it, and leaves the file with any content and any write time, an
earlier one or the same included: `FileBasicInformation`, which
`PreSetInfo.c:918` lets through, sets `LastWriteTime` to what the caller likes.
The callback has removed the entry of the file as it was (`PreChange`, both
`PreWrite.c:1112-1132` and `PreSetInfo.c:1255-1275`), or the change reaches no
invalidation (`PreChangeWithoutKey`: kernel mode, a trusted or excluded process,
paging I/O, or a key that could not be built). The scanner judges the content it
finds. `PostWrite` is not modelled: it is registered, but `PreWrite` returns
`FLT_PREOP_SUCCESS_NO_CALLBACK` on every path on which the write goes on
(`PreWrite.c:1189`, `:1204-1211`), so it is never called.

`PreCreate` builds the key first, looks up, asks the scanner on a miss
and inserts under the key it built; the verdict may be about newer content than
the key names. `reply` remembers which answer an entry was made from, and
`VerdictCurrent` compares what the cache would serve for the file as it is now,
where that answer was definitive, with the scanner's judgement of its content.
It has two halves. While the write times of a file only went forward
(`back[f] = 0`), the key alone keeps old verdicts away, whatever is announced
and whenever the insertion comes. Where they came back, the invalidation has to
do it: then the entry is right while the cache runs, unless a change went past
it (`overtaken`: its scan and a change of the file overlapped, or it stood when
a change came that removed nothing). `reply`, `back`, `late` and `overtaken` are
history.

### Rollback

From `src/src/PhantomCore/Update`. Disk (`install`, `copy`, `manifest`) is kept
over a crash; `m_snapshots`, `m_lastKnownGoodId` and `m_rollbackInProgress` are
not, and the next start lists the directories with a manifest, newest first.
Copying, replacing and restoring a file, writing the manifest, and each section
under `m_mutex` are steps of their own. A content is the number of the update
that wrote it; what CreateSnapshot copied is what the hashes of its manifest
describe, so a copy that differs is refused. The outcome of a health check, of
starting a service and of staging is a choice (`UpdateDatabase` fails). A file
is replaced at once; a replacement Windows delays until the next boot (drivers,
locked files, `ProgramUpdater.cpp:650-722`) is not modelled.
`autoRollbackOnFailure` is on, as in the default configuration.
`FinalizePendingUpdates` is modelled by the snapshot it marks as last known
good; its boot-loop rollback needs an id that is empty after every start and
does nothing. `doomed`, `good` and `cancelled` are history.

Each property of a passing run has a seeded fault: an operator next to the
definition it would replace ("Seeded fault: ..."), under which the run must
fail.

## 3. Runs

| Run | Instance | Distinct states | Shows |
|---|---|---|---|
| `commport_reuse` | 2 threads, 2 clients, 1 slot, queue 0 | 1.66 M | references, pending requests and client counter exact, encryption bound to the present client, no slot forgotten, no send on a closed port |
| `commport_live` | 1 thread, 1 client, 1 slot, queue 1 | 17 k | refinement of `PortLifetime`; slots are given back, sends return |
| `unload_stay` | 1 thread, 1 client, 1 slot | 35 k | teardown: no baseline dropped twice, no leak, it ends |
| `bridge` | 2 threads, threshold 2, 1 retry | 0.12 M | shutdown against scans and events, calls return, the breaker recovers |
| `mq_wait` | 2 callers, 1 completer, 2 completions, limit 1 | 0.51 M | completions freed once and counted exactly, orphans of the shutdown included; whole responses; the shutdown ends, but for a stranded caller |
| `mq_depth` | 2 producers, 2 messages, 2 priorities, depth 2, batch 2 | 3.45 M | counter exact, limit kept, priority order, one owner, no lost wakeup |
| `filescan` | 2 threads, 1 file, 2 write times, 1 change that does not go forward, 1 entry | 2.92 M | no verdict for changed content, references and entry count exact, teardown |
| `rollback` | 2 threads, 2 files, 1 snapshot kept, 3 ids, 1 update, 1 fault | 2.09 M | complete snapshots, whole rollbacks, last known good kept, flag cleared |

All runs check for deadlock; the models that can end (the queue and the cache
after their shutdown) say so with an action of their own.

Bounds. Two threads are needed for the pending limit, for the races of the
breaker, for a last place two producers want, and for a cleanup against a
rollback; three actors meet in the queue runs, where the shutdown and the
consumer or worker come on top. Two clients give slot reuse, two completions
and two messages reuse of freed memory. `MaxPendingRequests`, `MaxPending` and
`MaxEntries` are 1, the smallest limit two threads exceed; `DrainLimit` 1
replaces 512. One file with two write times (`MaxStamp`) lets a verdict arrive
after a change, one change that gives it no later time (`MaxBack`) lets the old
key come back, with the old content or another, and a change keep the write
time. The constraint `Explored` leaves out a shutdown together with a write
time that came back, where `VerdictCurrent` says nothing, for time; without it
`IInv`, from which the run's properties follow, was checked too (10.8 M states). In `mq_wait`, two
callers are enough for one that is cancelled and releases before the shutdown,
and one that registers behind it. In `Rollback`, two files let a copy, an
update or a rollback stop half way. `MaxSnapshots` 1 makes every second
snapshot start a cleanup. `MaxIds`, `MaxUpdates` and `MaxFaults` bound
snapshots, updates, and crashes or cancellations; `MaxEvents` 3 bounds their
sum, so the run has three snapshots, or two and a crash between any two steps.

Four runs are expected to fail; each states what a comment says and the code
does not do:

* `unload_race` (`NoSendOnClosedPort`): a sender holds the slot, the unload
  marks it and drops the baseline reference, the client leaves and
  `DisconnectNotify` drops the baseline again: the count is zero, the slot is
  finalized, and the sender is inside `FltSendMessage` on a closed port
  (`CommPort.c:1634-1647` against `:640-671`).
* `mq_expiry` (`RefCountExact`): the worker moves an expired completion to its
  private list and wakes the caller; the caller detaches it from whatever list
  it is linked into and drops the list's reference, and the worker, which
  empties the list without the lock, drops it again
  (`MessageQueue.c:2395-2426`, `:2300`).
* `filescan_teardown` (`NoUseAfterTeardown`): a thread drops the count to zero
  and is preempted before its look at `ShutdownInProgress`; another operation
  begins, the shutdown waits for it, and the first thread sets the event the
  shutdown waits for (`Cache/ScanCache.c:172-186`).
* `rollback_lkg` (`LkgNeverDeleted`): the id of the last known good snapshot
  exists only in memory; after a restart the next cleanup deletes the snapshot
  (`RollbackManager.cpp:266`, `:1545`).

### Known divergences without a run

What follows was met while modelling. Where a property is named it is defined
in the module, with the words it is taken from, and TLC finds it violated.

* `CommPort!EstablishedMeansDelivered`: a key delivery that times out passes
  `NT_SUCCESS`, and the flag is set (`CommPort.c:1003`, `CommPort.h:159`).
* `CommPort!BufferedTelemetryDelivered`: the drain is a part of `ConnectNotify`
  and the key comes later by a work item, so what was buffered is dropped
  (`CommPort.c:1531`, `:804`; the comment at `:2913` promises delivery).
* `ScanBridge!TimeoutReported`: the same success code in the bridge; a scan
  that timed out is a success with the verdict of a zeroed reply, is not
  retried and counts as a success for the breaker (`ScanBridge.c:1093`,
  `:1151`). The branch of `PreCreate.c:1539` for timeouts is never reached.
* `FileScan!TransientNotCached`: an undecided answer is cached as Clean
  (`PreCreate.c:1522-1533`); `ScanCache.h:470` says it must not be cached.
* `MessageQueue!SpaceSignalled`: the flow control acts on a depth read earlier,
  so `SpaceAvailableEvent` may stay clear on an empty queue
  (`MessageQueue.c:958`, `:1638-1664`; `MessageQueue.h:296`). Nobody waits for it.
* `MessageQueue!ShutdownLeavesNothing`: the shutdown drains the lists before it
  waits for producers already inside (`MessageQueue.c:665-706`).
* `MqCompletion!LookasideOutlivesCompletions`: a caller that registers after
  the cancellation, when nothing was outstanding at `MessageQueue.c:624`, waits
  without rundown protection while the lookaside list is deleted.
* `MqCompletion!Stranded`: a caller that registers after the cancellation and
  before line 624, and waits without a limit (`TimeoutMs` 0, line 1208;
  `MessageQueue.h:449` "0 = infinite"), is woken by nobody: the list is not
  looked at again, and the shutdown waits for it for ever (624-651).
  `ShutdownReturns` without its second disjunct is violated by this.
* A `MqDequeueBatch` whose wait timed out returns success with NULL as its first
  message (`MessageQueue.c:1353-1355`, `:1430`). Its only caller in the
  repository passes `TimeoutMs` 0 (`CommPort.c:784`) and never sees it, which is
  as well: it reads through the pointer.
* `FileScan!VerdictCurrent` without its condition on `back` and `overtaken`: an open builds its key,
  is scanned, and its verdict arrives after the file was changed and its write
  time set back (`PreSetInfo.c:918`); size and time name the new content, the
  invalidation came too early, and the verdict for the old content is served.
  An entry that stands is served likewise when the change reaches no
  invalidation.
* The key worker closes its copy of the port handle while the slot keeps it
  (`CommPort.c:1022`; `closes[p]` becomes 2).
* Every scan passes a half-open circuit, where a comment speaks of one
  (`ScanBridge.c:2419-2421`); a thread that measured the age of an earlier
  opening may half-open a circuit opened anew (`:2394-2403`).
  `SbpSendWithRetry` calls `FltSendMessage` directly, without CommPort's
  encryption.
* `MqEnqueueMessage` reads the id of a message it has handed over
  (`MessageQueue.c:982`); both callers pass NULL.
* `PostWrite` is never called (section 2), although `PreWrite.c` speaks of it as
  the owner of the invalidation after the write; if it were, the key it removes
  has write time 0 (`PostWrite.c:855-863`), which no entry has.
* `CancelRollback` (`RollbackManager.cpp:1895`) clears the flag while the
  rollback runs on, and the next one is let in beside it, against the comment
  at `:1616`; `RollbackRestores` therefore speaks of the time before a
  cancellation.
* A snapshot deleted while it is restored leaves a mixed installation, which is
  reported as a failure. A directory whose removal a crash interrupted keeps
  its manifest and is listed again. `Shutdown` followed by `Initialize` lists
  every snapshot twice (`:1186`). `CanRollback` answers yes without a last
  known good snapshot. A snapshot taken beside an update copies a mixture. A
  full snapshot walks the installation root, its own snapshots included.
  `UpdateManager::FinalizePendingUpdates`, `RollbackManager::RecordCrash` and
  `CancelRollback` have no callers in the repository. Nor have the public
  `ProgramUpdater::ApplyStagedUpdate` and, from outside the updater,
  `ApplyPackage` (`ProgramUpdater.cpp:1598`, `:1716`): a caller of these would
  update under `ProgramUpdater`'s `m_mutex` alone, without the lock of the
  update manager that keeps other updates and backups away.

## 4. Fairness

`CommPort!Fairness`: kernel threads and work items run, and every send has a
timeout, so a call that began goes on (weak fairness of each actor's steps).
Nobody has to call, connect or disconnect. Finalize has strong fairness: it
needs the push lock exclusive, later shared acquisitions queue behind a waiting
exclusive one, so readers that come and go do not starve it. The unload has the
same for its two sections under the lock. `ScanBridge!Fairness`: threads and
the shutdown go on, and time passes. `MqCompletion!Fairness`: callers,
completers, worker and shutdown go on. A wait with a timeout ends; a wait
without one ends only when the event is set (`WaitTimeout` is no step of
`"waitForever"`), so for such callers `ShutdownReturns` rests on the
cancellation, and it excuses the caller that registered too late for it
(`Stranded`, section 3). `MessageQueue`, `FileScan` and `Rollback` have safety
properties only. `CircuitRecovers` assumes in its statement that scans keep
coming; the code guarantees none.

## 5. Proofs

Every safety property of the passing runs, but for `CommPortUnload`'s, is a
theorem, for any number of threads, clients, messages, files and so on. The
assumptions are the named `ASSUME` of each module (finite sets, special values
that are no members of them, bounds that are numbers) and, where it says so
below, that one race is left out whose effect a run shows.
Each proof module has the same plan: `IInv`, defined in the model next to the
properties and checked there by TLC before it was proved, is a conjunction of
named parts; a lemma shows that every step keeps a part, one step of the proof
per action; `InductiveInvariant` (`Spec => []IInv`) puts them together, and the
theorems about the properties follow from it. Lemmas about cardinalities and
about lists come first. Each module also proves its type invariant
(`TypeCorrect`).

| Theorem | Property | Says |
|---|---|---|
| `CommPort_proofs!RefCounting` | `RefCountExact` | the reference count is the baseline and the actors counted in |
| `SendsUseOpenPorts` | `NoSendOnClosedPort` | no send on a closed port, without an unload |
| `MandatoryEncryption` | `PayloadOnlyAfterKex` | payloads only under the key of the present client |
| `NoSlotForgotten` | `DeadSlotHasReclaimer` | a slot whose client has gone has somebody to finalize it |
| `ClientsCounted` | `ConnectedClientsExact` | the client counter is the number of occupied slots |
| `RequestsCounted` | `PendingAccounting` | requests counted in are counted out; the limit holds |
| `Refinement` | `ImplementsLifetime` | every slot implements `PortLifetime` |
| `ScanBridge_proofs!ShutdownOutlivesCalls` | `ListsOutliveCalls` | the lists go when nobody is inside |
| `MessageQueue_proofs!DepthCounted` | `DepthExact` | `TotalMessageCount` is exact |
| `DepthBounded` | `NormalBounded` | the depth is kept below high priority |
| `HighestFirst` | `NoInversion` | a scan passes nothing over |
| `OneOwnerEach` | `OneOwner` | each message is in one place |
| `WakeupsKept` | `NoLostWakeup` | no wait beside a message nobody announces |
| `LookasideOutlivesUse` | `LookasideInUse` | the list goes when nobody uses it |
| `MqCompletion_proofs!ReferencesExact` * | `RefCountExact` | references of completions are exact |
| `CompletionsCounted` * | `CountersExact` | both counters are exact |
| `AnswersWhole` * | `ResponseComplete` | no half of an answer |
| `FileScan_proofs!ReferencesExact` | `RefsExact` | `ActiveReferences` is exact |
| `CachedVerdictCurrent` | `VerdictCurrent` | no verdict on content that has changed, where write times went forward or the invalidation came |
| `TeardownSafe` * | `NoUseAfterTeardown` | no operation in the buckets after the teardown |
| `EntriesCounted` * | `CountExact` | the entry counter is exact |
| `Rollback_proofs!RollbackIsComplete` | `RollbackRestores` | success means every file is back |
| `ListedSnapshotsComplete` | `ListedComplete` | what is listed is whole, after any crash |
| `FlagIsCleared` | `FlagHasOwner` | the flag belongs to a rollback |
| `LastKnownGoodKept` | `LkgKept` (action property) | the last known good snapshot is not deleted |

Those with * assume `DetachDuringExpiry = FALSE` (`MqCompletion`) or
`LateSignal = FALSE` (`FileScan`): without it they are false, which the runs
`mq_expiry` and `filescan_teardown` show. All other theorems about these
modules hold with the race.

Why the invariants have the parts they have:

* **CommPort**. `RefCountExact` alone is not inductive: that a finalizer may
  clear a slot needs that nobody is between the choice of the slot and its
  increment, which follows from the shared lock (`ReadersExact`, `Occupied`);
  that the baseline is dropped once needs that a slot and the callbacks of its
  connection know each other (`SlotOwner`, `OwnerSlot`). `DeadSlotHasReclaimer`
  needs `GoneNotRead`: once `DisconnectNotify` has been through its own
  finalize, under the exclusive lock, no acquire that could still be undone is
  on its slot, so the undo never drops a last reference that nobody finalizes.
  `NoSendOnClosedPort` needs `KexOutcome` and `ClosedPorts`: the port a failed
  key delivery closes has no established key, so no sender is on it. The
  counters need besides that only a send function of the right kind is in the
  code that counts (`RequestShape`). For the refinement each step is shown to
  be one step of `PortLifetime` for one port and to leave the phase and the
  users of the others alone: a user joins only a connected port, because the
  second look at `Disconnecting` comes after the increment, and a port is
  reclaimed when its slot is cleared, which happens at count zero.
* **ScanBridge**. Rundown protection is held exactly between the grant and the
  release, buffers only within it, and the lists go after the rundown.
* **MessageQueue**. `TotalMessageCount` counts places, and a place is a message
  in a list, a reservation, or the message just taken: adding or removing one
  changes one of three sets by one element, which needs that no message is
  twice in the lists or in the batch and the lists (`OneOwner`). `NormalBounded`
  then follows from the test before the exchange, since the low messages and
  reservations are a part of what `DepthExact` counts. `NoInversion` needs that
  a message has the priority of its list (`PriorityShape`) and that what was
  there when the scan began lies at or below `level` (`OlderShape`);
  `NoLostWakeup` that every message above `level` came since and its producer
  has set the event or is about to (`WakeShape`), and that only the wait
  resets the event.
* **MqCompletion**. Who is at work holds a completion (`WorkShape`, which holds
  with the race too), a completion belongs to one call (`OwnerShape`), the
  kinds of links are each taken off by one actor (`LinkShape`), and an
  event is set for a reason that stays (`AnswerShape`). The reference the
  shutdown has still to drop counts as its own between the wake-up and the
  decrement; an orphan is in nobody's hands and no longer valid, and stays
  outstanding until the shutdown has freed it and counted it off.
* **ScanCache, FileScan**. The count of references is the set of threads inside
  (`RefsExact`). After the shutdown began nobody new reaches the buckets, and
  whoever may set the event has seen the last one leave (`StopShape`). For the
  verdicts, the half that rests on the key: while write times of a file only
  went forward, keys name times of the past (`KeysPast`), and a definitive
  answer for a key is true as long as the file has that write time
  (`RepliesTrue`), from the moment it arrives until it is in the cache. The half
  that rests on the invalidation: an open no change overlapped has the key and
  the answer of the file as it is (`OpensFresh`), an entry no change went past is
  the file as it is (`EntriesFresh`), and a change that was announced finds no
  such entry but the one it is removing (`ChangesAnnounced`). That half needs a
  running cache: a shutdown refuses the removal.
* **Rollback**. A snapshot in the making is its maker's alone, unlisted, with no
  manifest before all its copies (`MakingShape`); so what has a manifest is
  whole unless it is being deleted (`DiskShape`), which is what a crash leaves
  and the next start lists. The flag keeps other rollbacks out, and a rollback
  holds one of the two locks an update needs both of, so what has been restored
  stays restored (`RollShape`, `JobShape`).

What three properties do not say: `ListedComplete` leaves out snapshots whose
deletion a crash interrupted, which the next start lists again, and takes a copy
that was made as durable; `FlagHasOwner` knows the error returns of a rollback
and no exception thrown in its restore loop; `CircuitRecovers` would not notice
a circuit that half-opens too soon (`ScanBridge.c:2509`). Messages that are a
header only carry no payload and pass CommPort's encryption gate;
`PayloadOnlyAfterKex` is about payloads.

Model-checked only:

* the liveness properties (`SlotReclaimed`, `SendsReturn`, `CloseReturns`,
  `ServedReclaimed`, `CallsReturn`, both `ShutdownReturns`, `CircuitRecovers`),
  since liveness under fairness and `ENABLED` are beyond this prover;
* the unload: `NoSendOnClosedPort` under `UnloadSpec`, which needs the
  invariant of `CommPort` extended by the three passes of the teardown;
* that deadlock is impossible.

Nothing needed induction over data or a recursive operator. In `Rollback` the
list a start reads from disk is any strictly descending sequence of the
snapshots found, and in `MessageQueue` `OneOwner` says by quantifiers what a
count of places would say, so that no cardinality of sequences enters a proof.

## 6. Plan

1. Done: `CommPort`, `PortLifetime`, `CommPortUnload`, `ScanBridge`.
2. Done: `MessageQueue`, `MqCompletion`, `ScanCache` with `FileScan`, `Rollback`.
3. Done: the inductive invariants and safety theorems of all of these, and the
   refinement of `PortLifetime`. Left to prove: the unload, with its own
   strengthening of `IInv`, and its refinement.
4. Left to model: `MessageNotify` and its command handlers; the message handler's table; `MessageQueue` in place of the counter
   `queued` of `CommPort`; work queues and timers of `Sync` against their stop;
   the user-mode end of the channel (`FilterConnection.cpp`).

## 7. Not modelled

Contents of messages, encryption, HMAC and compression (byte strings; a failing
encryption is modelled), statistics, the wording of logs; memory ordering below
interlocked operations (each plain read is a step of its own where another
actor can write in between); `MqConfigure`, `MqWaitForSpace` and the statistics
of the queue; the exclusions and heuristics of the file system callbacks before
and after their use of the cache; download, verification and staging of update
packages and the services they restart; the parts of section 1 that are data,
heuristics or operating system glue. `PROJECT.json` lists every part with the
reason.
