------------------------------- MODULE FileScan -------------------------------
(***************************************************************************)
(* The file system callbacks that consult, fill and invalidate the cache   *)
(* of scan verdicts, composed with it: PreCreate (an open is scanned),     *)
(* PreAcquireSection (a mapping is looked up), PreWrite, and PreSetInfo    *)
(* (rename, delete, truncate, set the times).  PostWrite is registered but *)
(* not called: PreWrite asks for no completion callback on any path.       *)
(*                                                                         *)
(* The file system, the scanner and the clock are the environment.  A file *)
(* has one content and one write time at a time.  A change may leave it    *)
(* any of both: FileBasicInformation sets LastWriteTime to what the caller *)
(* likes.  The scanner judges the content it finds when it looks.          *)
(*                                                                         *)
(* reply, back, late and overtaken are history: no step depends on them    *)
(* but for the bound.                                                      *)
(***************************************************************************)
EXTENDS ScanCache

CONSTANTS
    Files,
    MaxStamp,    \* bound: write times of a file run from 1 to MaxStamp
    MaxBack      \* bound: changes of a file that give it no later one

ASSUME FileAssumption ==
    /\ MaxStamp \in Nat \ {0} /\ MaxBack \in Nat
    /\ Keys = Files \X (1 .. MaxStamp)

VARIABLES
    content,     \* file -> "good" or "bad"
    stamp,       \* file -> LastWriteTime
    reply,       \* key -> the scanner's reply the entry was made from
    job,         \* thread -> the callback it is in
    stage,       \* thread -> where the callback is
    file,        \* thread -> the file it is about
    myKey,       \* thread -> CacheKey of PreCreate, if it was built
    heard,       \* thread -> the scanner's reply
    back,        \* file -> its changes that gave it no later write time
    late,        \* threads whose file changed after they built their key
    overtaken    \* keys whose entry a change of the file went past

fileVars == <<content, stamp>>
jobVars == <<job, stage, file, myKey, heard>>
histVars == <<reply, back, late, overtaken>>
vars == <<cacheVars, fileVars, histVars, jobVars>>

(* ShadowStrikeCacheBuildKey, where the queries succeed.                   *)
KeyOf(f) == <<f, stamp[f]>>

Init ==
    /\ CacheInit
    /\ content \in [Files -> {"good", "bad"}]
    /\ stamp = [f \in Files |-> 1]
    /\ reply = [k \in Keys |-> NULL]
    /\ job = [t \in Threads |-> "none"]
    /\ stage = [t \in Threads |-> "idle"]
    /\ file = [t \in Threads |-> NULL]
    /\ myKey = [t \in Threads |-> NULL]
    /\ heard = [t \in Threads |-> NULL]
    /\ back = [f \in Files |-> 0]
    /\ late = {}
    /\ overtaken = {}

Stage(t, s) == stage' = [stage EXCEPT ![t] = s]

Ready(t, s) == stage[t] = s /\ pc[t] = "out"

(* What the thread's callback no longer needs.                             *)
Done(t) ==
    /\ job' = [job EXCEPT ![t] = "none"]
    /\ file' = [file EXCEPT ![t] = NULL]
    /\ myKey' = [myKey EXCEPT ![t] = NULL]

(* The callback returns; what its thread held is forgotten.                *)
Leave(t) ==
    /\ Done(t)
    /\ Stage(t, "idle")
    /\ heard' = [heard EXCEPT ![t] = NULL]
    /\ Forget(t)
    /\ UNCHANGED reply

Return(t) ==
    /\ Leave(t)
    /\ late' = late \ {t}
    /\ UNCHANGED <<back, overtaken>>

(* A callback begins.  ShadowStrikeCacheBuildKey fails when one of its     *)
(* queries does; then there is no key.                                     *)
Begin(t, j, f) ==
    /\ Ready(t, "idle")
    /\ job' = [job EXCEPT ![t] = j]
    /\ file' = [file EXCEPT ![t] = f]
    /\ UNCHANGED <<fileVars, histVars, heard>>

-----------------------------------------------------------------------------
(* PreCreate.                                                              *)

(* With user mode connected; otherwise, and on the many early exits, the   *)
(* open is allowed without the cache or a scan.                            *)
PreCreate(t, f) ==
    /\ Begin(t, "create", f)
    /\ myKey' = [myKey EXCEPT ![t] = KeyOf(f)]
    /\ Call(t, "lookup", KeyOf(f), NULL)
    /\ Stage(t, "looked")

PreCreateWithoutKey(t, f) ==
    /\ Begin(t, "create", f)
    /\ Stage(t, "scan")
    /\ UNCHANGED <<cacheVars, myKey>>

(* A hit decides: Malicious is denied, anything else allowed.              *)
CacheHit(t) ==
    /\ Ready(t, "looked") /\ job[t] = "create"
    /\ verdict[t] # NULL
    /\ Return(t)
    /\ UNCHANGED fileVars

CacheMiss(t) ==
    /\ Ready(t, "looked") /\ job[t] = "create"
    /\ verdict[t] = NULL
    /\ Stage(t, "scan")
    /\ Forget(t)
    /\ UNCHANGED <<fileVars, histVars, job, file, myKey, heard>>

(* What the scanner says of a content.                                     *)
Judgement(c) == IF c = "bad" THEN "Malicious" ELSE "Clean"

(* SbSendScanRequest returns success: the scanner looked at the file, or   *)
(* could not decide, or did not answer in time (NT_SUCCESS(STATUS_TIMEOUT) *)
(* is true and the reply is still zero).                                   *)
ScanReply(t) ==
    /\ Ready(t, "scan")
    /\ \E v \in {Judgement(content[file[t]]), "Transient"} :
          heard' = [heard EXCEPT ![t] = v]
    /\ Stage(t, "heard")
    /\ UNCHANGED <<cacheVars, fileVars, histVars, job, file, myKey>>

(* The request was not built or not delivered: FailOpenOnError decides.    *)
ScanFailed(t) ==
    /\ Ready(t, "scan")
    /\ Return(t)
    /\ UNCHANGED fileVars

(* What PreCreate caches: every reply but Malicious as Clean.              *)
VerdictToCache(v) == IF v = "Malicious" THEN "Malicious" ELSE "Clean"

CacheVerdict(t) ==
    /\ Ready(t, "heard")
    /\ myKey[t] # NULL
    /\ Call(t, "insert", myKey[t], VerdictToCache(heard[t]))
    /\ Stage(t, "cached")
    /\ Done(t)
    /\ UNCHANGED <<fileVars, histVars, heard>>

NothingToCache(t) ==
    /\ Ready(t, "heard")
    /\ myKey[t] = NULL
    /\ Return(t)
    /\ UNCHANGED fileVars

-----------------------------------------------------------------------------
(* PreAcquireSection: Malicious is denied; a miss is not scanned.          *)

PreAcquireSection(t, f) ==
    /\ Begin(t, "section", f)
    /\ Call(t, "lookup", KeyOf(f), NULL)
    /\ Stage(t, "looked")
    /\ UNCHANGED myKey

SectionDecided(t) ==
    /\ Ready(t, "looked") /\ job[t] = "section"
    /\ Return(t)
    /\ UNCHANGED fileVars

-----------------------------------------------------------------------------
(* PreWrite and PreSetInfo.                                                *)

(* Seeded fault: the key is one an earlier look at the file gave.          *)
PreChangeOldKey(t, f) ==
    /\ Begin(t, "change", f)
    /\ \E n \in 1 .. MaxStamp : Call(t, "remove", <<f, n>>, NULL)
    /\ Stage(t, "change")
    /\ UNCHANGED myKey

(* A write that is not blocked, or a change of the file's information,     *)
(* first takes out the entry of the file as it is now.                     *)
PreChange(t, f) ==
    /\ Begin(t, "change", f)
    /\ Call(t, "remove", KeyOf(f), NULL)
    /\ Stage(t, "change")
    /\ UNCHANGED myKey

(* The change goes on without an invalidation: the key could not be built, *)
(* the request is the kernel's own or that of a trusted or excluded        *)
(* process, or the write is paging I/O.                                    *)
PreChangeWithoutKey(t, f) ==
    /\ Begin(t, "change", f)
    /\ Stage(t, "change")
    /\ UNCHANGED <<cacheVars, myKey>>

(* The opens of a file whose key is built and whose verdict is not yet in. *)
Opening(f) ==
    {t \in Threads : \/ myKey[t] # NULL /\ file[t] = f
                     \/ op[t] = "insert" /\ pc[t] \in Entering /\ key[t][1] = f}

(* The entries of a file that a definitive reply was the reason for.       *)
KeysOf(f) == {k \in Entries : k[1] = f /\ reply[k] \in Definitive}

(* The file system changes the file.  No entry is known to be overtaken by *)
(* a change that was announced to the cache: it was to be removed.         *)
Change(t) ==
    /\ Ready(t, "change")
    /\ \E c \in {"good", "bad"}, n \in 1 .. MaxStamp :
          /\ content' = [content EXCEPT ![file[t]] = c]
          /\ stamp' = [stamp EXCEPT ![file[t]] = n]
          /\ back' = IF n > stamp[file[t]] THEN back
                     ELSE [back EXCEPT ![file[t]] = @ + 1]
          /\ back'[file[t]] <= MaxBack
    /\ late' = late \cup Opening(file[t])
    /\ overtaken' = IF op[t] = "remove" THEN overtaken
                    ELSE overtaken \cup KeysOf(file[t])
    /\ Leave(t)

(* The request fails, or renames the file: it is what it was.              *)
NoChange(t) ==
    /\ Ready(t, "change")
    /\ Return(t)
    /\ UNCHANGED fileVars

Finish(t) ==
    /\ Ready(t, "cached")
    /\ Return(t)
    /\ UNCHANGED fileVars

-----------------------------------------------------------------------------
(* The cleanup timer's work item and the dismount of the volume.           *)

Maintain(t) ==
    /\ Ready(t, "idle")
    /\ \E o \in {"cleanup", "volume"} : Call(t, o, NULL, NULL)
    /\ Stage(t, "cached")
    /\ Done(t)
    /\ UNCHANGED <<fileVars, histVars, heard>>

(* The scan behind the insertion and a change of the file overlap.         *)
Overlap(t) ==
    /\ heard[t] \in Definitive
    /\ \/ t \in late
       \/ \E u \in Threads : stage[u] = "change" /\ file[u] = key[t][1]

(* A step of the cache in a callback; what an entry was made from is noted.*)
InCache(t) ==
    /\ CacheStep(t)
    /\ reply' = [k \in Keys |->
                    IF entry'[k] = NULL THEN NULL
                    ELSE IF CacheInsert(t) /\ k = key[t] THEN heard[t]
                    ELSE reply[k]]
    /\ overtaken' = {k \in Keys :
                        /\ entry'[k] # NULL
                        /\ IF CacheInsert(t) /\ k = key[t] THEN Overlap(t)
                           ELSE k \in overtaken}
    /\ UNCHANGED <<fileVars, back, late, jobVars>>

CallbackStep(t) ==
    \/ CacheHit(t) \/ CacheMiss(t) \/ ScanReply(t) \/ ScanFailed(t)
    \/ CacheVerdict(t) \/ NothingToCache(t) \/ SectionDecided(t) \/ Change(t)
    \/ NoChange(t) \/ Finish(t) \/ InCache(t)

CallbackBegin(t) ==
    \/ \E f \in Files :
          \/ PreCreate(t, f) \/ PreCreateWithoutKey(t, f)
          \/ PreAcquireSection(t, f)
          \/ PreChange(t, f) \/ PreChangeWithoutKey(t, f)
    \/ Maintain(t)

Environment ==
    \/ Expire /\ UNCHANGED <<fileVars, histVars, jobVars>>
    \/ ShutdownBegin /\ UNCHANGED <<fileVars, histVars, jobVars>>
    \/ ShutdownGiveUp /\ UNCHANGED <<fileVars, histVars, jobVars>>

Teardown ==
    /\ ShutdownStep
    /\ reply' = [k \in Keys |-> IF entry'[k] = NULL THEN NULL ELSE reply[k]]
    /\ overtaken' = {k \in overtaken : entry'[k] # NULL}
    /\ UNCHANGED <<fileVars, back, late, jobVars>>

Next ==
    \/ \E t \in Threads : CallbackBegin(t) \/ CallbackStep(t)
    \/ Environment
    \/ Teardown

Spec == Init /\ [][Next]_vars

-----------------------------------------------------------------------------
(* Properties.                                                             *)

TypeOK ==
    /\ CacheTypeOK
    /\ content \in [Files -> {"good", "bad"}]
    /\ stamp \in [Files -> 1 .. MaxStamp]
    /\ reply \in [Keys -> Verdicts \cup {NULL}]
    /\ job \in [Threads -> {"none", "create", "section", "change"}]
    /\ stage \in [Threads -> {"idle", "looked", "scan", "heard", "cached",
                              "change"}]
    /\ file \in [Threads -> Files \cup {NULL}]
    /\ myKey \in [Threads -> Keys \cup {NULL}]
    /\ heard \in [Threads -> Verdicts \cup {NULL}]
    /\ back \in [Files -> 0 .. MaxBack]
    /\ late \subseteq Threads
    /\ overtaken \subseteq Entries

(* "If a file is written to, its hash changes, so any previous verdict is  *)
(* invalid": whatever is cached for a file as it is now, and would answer  *)
(* the next open of it, was said of the content it has now.  The key alone *)
(* sees to that as long as the write times of the file only go forward.    *)
(* Where they may come back it is the invalidation in PreWrite and         *)
(* PreSetInfo that does, while the cache runs, except for an entry a       *)
(* change went past: one made by a scan the change overlapped, or one that *)
(* stood when a change came without an invalidation.                       *)
VerdictCurrent ==
    \A f \in Files :
        LET k == KeyOf(f) IN
        /\ entry[k] # NULL /\ reply[k] \in Definitive
        /\ back[f] = 0 \/ (~stopping /\ k \notin overtaken)
        => entry[k] = Judgement(content[f])

(* ScanCache.h: "Transient outcomes (Unknown / Error / Timeout) MUST NOT   *)
(* be cached".                                                             *)
TransientNotCached == \A k \in Keys : reply[k] # "Transient"

(* The inductive invariant.  What a stage of a callback says about its     *)
(* thread and the call of the cache it may be in.                          *)
StageShape ==
    \A t \in Threads :
        /\ stage[t] \in {"idle", "scan", "heard"} =>
              pc[t] = "out" /\ op[t] = "none"
        /\ stage[t] \in {"looked", "scan", "heard", "change"} =>
              file[t] \in Files
        /\ stage[t] = "heard" => heard[t] \in Verdicts
        /\ stage[t] \notin {"looked", "scan", "heard"} => myKey[t] = NULL
        /\ myKey[t] # NULL => myKey[t][1] = file[t]
        /\ op[t] = "insert" => stage[t] = "cached"
        /\ op[t] = "insert" /\ pc[t] \in Entering =>
              verdict[t] = VerdictToCache(heard[t]) /\ heard[t] \in Verdicts

(* While write times only go forward, no key in use names one its file has *)
(* not had yet.                                                            *)
KeyPast(k) == back[k[1]] = 0 => k[2] <= stamp[k[1]]

KeysPast ==
    /\ \A k \in Entries : KeyPast(k)
    /\ \A t \in Threads : myKey[t] # NULL => KeyPast(myKey[t])
    /\ \A t \in Threads : op[t] = "insert" => KeyPast(key[t])

(* Then a definitive reply kept under a key is true of its file for as     *)
(* long as the file has the key's write time.                              *)
TrueOf(k, v) ==
    back[k[1]] = 0 /\ v \in Definitive /\ k[2] = stamp[k[1]] =>
        v = Judgement(content[k[1]])

RepliesTrue ==
    /\ \A k \in Entries :
          TrueOf(k, reply[k]) /\ (reply[k] \in Definitive => entry[k] = reply[k])
    /\ \A t \in Threads :
          stage[t] = "heard" /\ myKey[t] # NULL => TrueOf(myKey[t], heard[t])
    /\ \A t \in Threads :
          op[t] = "insert" /\ pc[t] \in Entering => TrueOf(key[t], heard[t])

(* Wherever they go: what no change went past is the file as it is.        *)
Fresh(k, v) ==
    v \in Definitive => k = KeyOf(k[1]) /\ v = Judgement(content[k[1]])

OpensFresh ==
    \A t \in Threads \ late :
        /\ myKey[t] # NULL =>
              /\ myKey[t] = KeyOf(file[t])
              /\ stage[t] = "heard" => Fresh(myKey[t], heard[t])
        /\ op[t] = "insert" /\ pc[t] \in Entering => Fresh(key[t], heard[t])

EntriesFresh ==
    ~stopping => \A k \in Entries \ overtaken : Fresh(k, reply[k])

(* A change that was announced to the cache finds no entry to go past, or  *)
(* the one it is about to remove.                                          *)
ChangesAnnounced ==
    ~stopping =>
        \A t \in Threads :
            stage[t] = "change" /\ op[t] = "remove" =>
                \A k \in KeysOf(file[t]) \ overtaken :
                    pc[t] \in Entering /\ key[t] = k

IInv ==
    /\ TypeOK /\ CacheInv /\ StageShape
    /\ KeysPast /\ RepliesTrue
    /\ OpensFresh /\ EntriesFresh /\ ChangesAnnounced

=============================================================================
