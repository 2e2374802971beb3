--------------------------- MODULE FileScan_proofs ---------------------------
(***************************************************************************)
(* Theorems about FileScan: the callbacks on top of the cache, for any     *)
(* number of threads and files, any length of a file's history and any     *)
(* limit of the cache.                                                     *)
(*                                                                         *)
(* The argument for VerdictCurrent has two halves.  While the write times  *)
(* of a file only go forward, no key in use is ahead of its file and every *)
(* change leaves all of them behind: a verdict reaches an entry that still *)
(* answers for the file only if the file has not changed since the key was *)
(* built, whatever the other threads did to the cache.  Where write times  *)
(* may come back this is lost, and the invalidations carry the argument:   *)
(* a change that was announced to the cache finds, once its removal is     *)
(* over, no entry of the file but those whose scan it overlapped.          *)
(***************************************************************************)
EXTENDS FileScan, ScanCache_proofs

(* The keys the callbacks build are keys of the cache.                     *)
LEMMA KeyTypes ==
    ASSUME stamp \in [Files -> 1 .. MaxStamp], NEW f \in Files
    PROVE  /\ KeyOf(f) \in Keys
           /\ KeyOf(f)[1] = f /\ KeyOf(f)[2] = stamp[f]
           /\ KeyOf(f) # NULL /\ KeyPast(KeyOf(f))
<1>1. KeyOf(f) \in Keys
  BY FileAssumption DEF KeyOf
<1> QED BY <1>1, CacheAssumption DEF KeyOf, KeyPast

(* What a key of the cache is made of.                                     *)
LEMMA KeyParts ==
    ASSUME NEW k \in Keys
    PROVE  k[1] \in Files /\ k[2] \in Nat /\ k # NULL
BY FileAssumption, CacheAssumption

(* What the callbacks add to the invariant of the cache.                   *)
FilesOK ==
    /\ content \in [Files -> {"good", "bad"}]
    /\ stamp \in [Files -> 1 .. MaxStamp]
    /\ reply \in [Keys -> Verdicts \cup {NULL}]
    /\ job \in [Threads -> {"none", "create", "section", "change"}]
    /\ stage \in [Threads -> {"idle", "looked", "scan", "heard", "cached",
                              "change"}]
    /\ file \in [Threads -> Files \cup {NULL}]
    /\ myKey \in [Threads -> Keys \cup {NULL}]
    /\ heard \in [Threads -> Verdicts \cup {NULL}]
    /\ back \in [Files -> 0 .. MaxBack]
    /\ late \subseteq Threads
    /\ overtaken \subseteq Entries

(* What is said of opens, entries and announced changes.                   *)
AllFresh == OpensFresh /\ EntriesFresh /\ ChangesAnnounced

(* The inductive invariant is the cache's and what the callbacks add.      *)
LEMMA InvParts ==
    /\ IInv <=> /\ CacheInv /\ FilesOK /\ StageShape /\ KeysPast /\ RepliesTrue
                /\ AllFresh
    /\ IInv' <=> /\ CacheInv' /\ FilesOK' /\ StageShape' /\ KeysPast'
                 /\ RepliesTrue' /\ AllFresh'
BY DEF IInv, TypeOK, FilesOK, CacheInv, AllFresh

(* The part of AllFresh that is about one thread.                          *)
FreshIn(t) ==
    /\ t \notin late =>
          /\ myKey[t] # NULL =>
                /\ myKey[t] = KeyOf(file[t])
                /\ stage[t] = "heard" => Fresh(myKey[t], heard[t])
          /\ op[t] = "insert" /\ pc[t] \in Entering => Fresh(key[t], heard[t])
    /\ ~stopping /\ stage[t] = "change" /\ op[t] = "remove" =>
          \A k \in KeysOf(file[t]) \ overtaken :
              pc[t] \in Entering /\ key[t] = k

(* AllFresh is EntriesFresh and FreshIn for every thread.                  *)
LEMMA FreshParts ==
    /\ AllFresh <=> EntriesFresh /\ \A t \in Threads : FreshIn(t)
    /\ AllFresh' <=> EntriesFresh' /\ \A t \in Threads : FreshIn(t)'
BY DEF AllFresh, OpensFresh, ChangesAnnounced, FreshIn

(* A step of a thread that leaves the file system and the entries alone    *)
(* keeps what is said of the entries and of the other threads.             *)
LEMMA FreshElsewhere ==
    ASSUME AllFresh, NEW t \in Threads,
           UNCHANGED <<content, stamp, entry, reply, overtaken, stopping>>,
           \A u \in Threads \ {t} :
               /\ (u \in late' <=> u \in late)
               /\ stage'[u] = stage[u] /\ file'[u] = file[u]
               /\ myKey'[u] = myKey[u] /\ heard'[u] = heard[u]
               /\ op'[u] = op[u] /\ key'[u] = key[u] /\ pc'[u] = pc[u],
           FreshIn(t)'
    PROVE  AllFresh'
<1>1. EntriesFresh'
  BY FreshParts DEF EntriesFresh, Entries, Fresh, KeyOf
<1>2. ASSUME NEW u \in Threads \ {t} PROVE FreshIn(u)'
  <2>1. FreshIn(u) /\ (u \in late' <=> u \in late)
    BY FreshParts
  <2>2. KeysOf(file[u])' = KeysOf(file[u])
    BY DEF KeysOf, Entries
  <2>3. \A k, v : Fresh(k, v)' <=> Fresh(k, v)
    BY DEF Fresh, KeyOf
  <2>4. KeyOf(file[u])' = KeyOf(file[u])
    BY DEF KeyOf
  <2> QED BY <2>1, <2>2, <2>3, <2>4 DEF FreshIn
<1> QED BY <1>1, <1>2, FreshParts

-----------------------------------------------------------------------------
(* The steps of a callback outside the cache.                              *)

(* A callback that has nothing more to do returns.                         *)
LEMMA ReturnInv ==
    ASSUME IInv, NEW t \in Threads, pc[t] = "out", Return(t),
           UNCHANGED fileVars
    PROVE  IInv'
<1> USE InvParts DEF fileVars, Return, Leave, Done, Stage, Forget, tableVars
<1>1. CacheInv'
  BY ForgetInv
<1>2. FilesOK'
  BY DEF FilesOK, Entries
<1>3. pc \in [Threads -> Labels] /\ op \in [Threads -> Operations]
  BY DEF CacheInv, CacheTypeOK
<1>4. StageShape'
  BY <1>3 DEF FilesOK, StageShape, Entering
<1>5. KeysPast'
  BY <1>3 DEF FilesOK, KeysPast, KeyPast, Entries
<1>6. RepliesTrue'
  BY <1>3 DEF FilesOK, RepliesTrue, TrueOf, Entries
<1>7. AllFresh'
  <2>1. FreshIn(t)'
    BY <1>3 DEF FreshIn, FilesOK
  <2>2. \A u \in Threads \ {t} :
           /\ (u \in late' <=> u \in late)
           /\ stage'[u] = stage[u] /\ file'[u] = file[u]
           /\ myKey'[u] = myKey[u] /\ heard'[u] = heard[u]
           /\ op'[u] = op[u] /\ key'[u] = key[u] /\ pc'[u] = pc[u]
    BY DEF CacheInv, CacheTypeOK, FilesOK
  <2> QED BY <2>1, <2>2, FreshElsewhere DEF lifeVars
<1> QED BY <1>1, <1>2, <1>4, <1>5, <1>6, <1>7

(* A callback begins with a call of the cache, lookup or remove.           *)
LEMMA BeginCallInv ==
    ASSUME IInv, NEW t \in Threads, NEW f \in Files,
           NEW j \in {"create", "section", "change"}, Begin(t, j, f),
           NEW o \in {"lookup", "remove"}, Call(t, o, KeyOf(f), NULL),
           NEW s \in {"looked", "change"}, Stage(t, s),
           \/ UNCHANGED myKey
           \/ s = "looked" /\ myKey' = [myKey EXCEPT ![t] = KeyOf(f)]
    PROVE  IInv'
<1> USE InvParts DEF fileVars, histVars, Begin, Stage, Ready
<1>1. /\ pc[t] = "out" /\ op[t] = "none" /\ myKey[t] = NULL
      /\ pc \in [Threads -> Labels] /\ op \in [Threads -> Operations]
      /\ key \in [Threads -> Keys \cup {NULL}]
      /\ verdict \in [Threads -> Verdicts \cup {NULL}]
  BY DEF StageShape, CacheInv, CacheTypeOK
<1>2. /\ KeyOf(f) \in Keys /\ KeyOf(f)[1] = f /\ KeyPast(KeyOf(f))
      /\ KeyOf(f) # NULL
  BY KeyTypes DEF FilesOK
<1>3. CacheInv'
  <2>1. o \in Operations \ {"none"} /\ NULL \in Verdicts \cup {NULL}
    BY DEF Operations
  <2> QED BY <1>1, <1>2, <2>1, CallInv
<1>5. UNCHANGED <<entry, stamp, content, reply, heard, back, late, overtaken,
                  stopping>>
  BY DEF Call, tableVars, lifeVars
<1>4. FilesOK'
  BY <1>2, <1>5 DEF FilesOK, Entries
<1>6. \A u \in Threads : op'[u] = "insert" =>
          u # t /\ op[u] = "insert" /\ key'[u] = key[u] /\ pc'[u] = pc[u]
             /\ verdict'[u] = verdict[u]
  BY <1>1 DEF Call, callVars, Goto
<1>7. StageShape'
  BY <1>1, <1>2, <1>5, <1>6 DEF FilesOK, StageShape, Call, callVars, Goto
<1>8. KeysPast'
  BY <1>1, <1>2, <1>5, <1>6 DEF FilesOK, KeysPast, KeyPast, Entries
<1>9. RepliesTrue'
  BY <1>1, <1>5, <1>6, SMTT(30) DEF FilesOK, RepliesTrue, TrueOf, Entries
<1>10. AllFresh'
  <2>1. /\ file'[t] = f /\ stage'[t] = s /\ s # "heard" /\ op'[t] # "insert"
        /\ myKey'[t] \in {NULL, KeyOf(f)}
        /\ op'[t] = "remove" => pc'[t] \in Entering /\ key'[t] = KeyOf(f)
    BY <1>1, <1>2 DEF FilesOK, Call, callVars, Goto, Entering
  <2>2. KeyOf(f)' = KeyOf(f)
    BY <1>5 DEF KeyOf
  <2>3. ASSUME ~stopping, NEW k \in KeysOf(f)' \ overtaken' PROVE k = KeyOf(f)
    <3>1. k \in Entries \ overtaken /\ reply[k] \in Definitive /\ k[1] = f
      BY <1>5, <2>3 DEF KeysOf, Entries
    <3> QED BY <2>3, <3>1 DEF AllFresh, EntriesFresh, Fresh
  <2>4. FreshIn(t)'
    BY <1>5, <2>1, <2>2, <2>3 DEF FreshIn
  <2>5. \A u \in Threads \ {t} :
           /\ (u \in late' <=> u \in late)
           /\ stage'[u] = stage[u] /\ file'[u] = file[u]
           /\ myKey'[u] = myKey[u] /\ heard'[u] = heard[u]
           /\ op'[u] = op[u] /\ key'[u] = key[u] /\ pc'[u] = pc[u]
    BY <1>1, <1>5 DEF Call, callVars, Goto, FilesOK
  <2> QED BY <1>5, <2>4, <2>5, FreshElsewhere
<1> QED BY <1>3, <1>4, <1>7, <1>8, <1>9, <1>10

(* A callback begins and finds no key.                                     *)
LEMMA BeginPlainInv ==
    ASSUME IInv, NEW t \in Threads, NEW f \in Files,
           PreCreateWithoutKey(t, f) \/ PreChangeWithoutKey(t, f)
    PROVE  IInv'
<1> USE InvParts DEF fileVars, histVars, Begin, Stage, Ready,
                     PreCreateWithoutKey, PreChangeWithoutKey
<1>1. CacheInv'
  BY CacheIdle
<1>3. UNCHANGED <<entry, pc, op, key, verdict, stopping>>
  BY DEF cacheVars, tableVars, callVars, lifeVars
<1>2. FilesOK'
  BY <1>3 DEF FilesOK, Entries
<1>4. StageShape'
  BY <1>3 DEF FilesOK, StageShape, Entering
<1>5. KeysPast'
  BY <1>3 DEF FilesOK, KeysPast, KeyPast, Entries
<1>6. RepliesTrue'
  BY <1>3 DEF FilesOK, RepliesTrue, TrueOf, Entries
<1>7. AllFresh'
  <2>1. myKey[t] = NULL /\ op[t] = "none"
    BY DEF StageShape
  <2>2. FreshIn(t)'
    BY <1>3, <2>1 DEF FreshIn
  <2>3. \A u \in Threads \ {t} :
           /\ (u \in late' <=> u \in late)
           /\ stage'[u] = stage[u] /\ file'[u] = file[u]
           /\ myKey'[u] = myKey[u] /\ heard'[u] = heard[u]
           /\ op'[u] = op[u] /\ key'[u] = key[u] /\ pc'[u] = pc[u]
    BY <1>3 DEF FilesOK
  <2> QED BY <1>3, <2>2, <2>3, FreshElsewhere
<1> QED BY <1>1, <1>2, <1>4, <1>5, <1>6, <1>7

(* A miss sends the callback to the scanner.                               *)
LEMMA CacheMissInv ==
    ASSUME IInv, NEW t \in Threads, CacheMiss(t)
    PROVE  IInv'
<1> USE InvParts DEF fileVars, histVars, Stage, Ready, CacheMiss
<1>1. CacheInv'
  BY ForgetInv
<1>3. pc \in [Threads -> Labels] /\ op \in [Threads -> Operations]
  BY DEF CacheInv, CacheTypeOK
<1> USE DEF Forget, tableVars
<1>2. FilesOK'
  BY DEF FilesOK, Entries
<1>4. StageShape'
  BY <1>3 DEF FilesOK, StageShape
<1>5. KeysPast'
  BY <1>3 DEF FilesOK, KeysPast, KeyPast, Entries
<1>6. RepliesTrue'
  BY <1>3, SMTT(30) DEF FilesOK, RepliesTrue, TrueOf, Entries
<1>7. AllFresh'
  <2>1. FreshIn(t)'
    <3>1. FreshIn(t) /\ KeyOf(file[t])' = KeyOf(file[t])
      BY FreshParts DEF KeyOf
    <3>2. stage'[t] = "scan" /\ op'[t] = "none"
      BY <1>3 DEF FilesOK
    <3> QED BY <3>1, <3>2 DEF FreshIn
  <2>2. \A u \in Threads \ {t} :
           /\ (u \in late' <=> u \in late)
           /\ stage'[u] = stage[u] /\ file'[u] = file[u]
           /\ myKey'[u] = myKey[u] /\ heard'[u] = heard[u]
           /\ op'[u] = op[u] /\ key'[u] = key[u] /\ pc'[u] = pc[u]
    BY DEF CacheInv, CacheTypeOK, FilesOK
  <2> QED BY <2>1, <2>2, FreshElsewhere DEF lifeVars
<1> QED BY <1>1, <1>2, <1>4, <1>5, <1>6, <1>7

(* The scanner answers: a definitive answer is true of the file as it is.  *)
LEMMA ScanReplyInv ==
    ASSUME IInv, NEW t \in Threads, ScanReply(t)
    PROVE  IInv'
<1> USE InvParts DEF fileVars, histVars, Stage, Ready, ScanReply
<1>1. CacheInv'
  BY CacheIdle
<1>2. PICK v \in {Judgement(content[file[t]]), "Transient"} :
          heard' = [heard EXCEPT ![t] = v]
  OBVIOUS
<1>3. v \in Verdicts
  BY <1>2 DEF Judgement, Verdicts
<1>5. UNCHANGED <<entry, pc, op, key, verdict, stopping>>
  BY DEF cacheVars, tableVars, callVars, lifeVars
<1>4. FilesOK'
  BY <1>2, <1>3, <1>5 DEF FilesOK, Entries
<1>6. pc[t] = "out" /\ op[t] = "none"
  BY DEF StageShape
<1>7. StageShape'
  BY <1>2, <1>3, <1>5, <1>6 DEF FilesOK, StageShape
<1>8. KeysPast'
  BY <1>5 DEF FilesOK, KeysPast, KeyPast, Entries
<1>9. RepliesTrue'
  <2>1. myKey[t] # NULL => TrueOf(myKey[t], v)
    BY <1>2 DEF StageShape, TrueOf, Definitive
  <2> QED BY <1>2, <1>5, <1>6, <2>1 DEF FilesOK, RepliesTrue, TrueOf, Entries
<1>10. AllFresh'
  <2>1. FreshIn(t)'
    <3>1. FreshIn(t) /\ KeyOf(file[t])' = KeyOf(file[t])
      BY FreshParts DEF KeyOf
    <3>2. /\ stage'[t] = "heard" /\ op'[t] = "none" /\ heard'[t] = v
          /\ UNCHANGED <<late, myKey, file, content>>
      BY <1>2, <1>5, <1>6 DEF FilesOK
    <3>3. ASSUME myKey[t] # NULL, t \notin late PROVE Fresh(myKey[t], v)'
      <4>1. myKey[t] = KeyOf(file[t]) /\ myKey[t][1] = file[t]
        BY <3>1, <3>3 DEF FreshIn, StageShape
      <4>2. v \in Definitive => v = Judgement(content[file[t]])
        BY <1>2 DEF Definitive
      <4> QED BY <3>1, <3>2, <4>1, <4>2 DEF Fresh, KeyOf
    <3> QED BY <3>1, <3>2, <3>3 DEF FreshIn
  <2>2. \A u \in Threads \ {t} :
           /\ (u \in late' <=> u \in late)
           /\ stage'[u] = stage[u] /\ file'[u] = file[u]
           /\ myKey'[u] = myKey[u] /\ heard'[u] = heard[u]
           /\ op'[u] = op[u] /\ key'[u] = key[u] /\ pc'[u] = pc[u]
    BY <1>2, <1>5 DEF FilesOK
  <2> QED BY <1>5, <2>1, <2>2, FreshElsewhere
<1> QED BY <1>1, <1>4, <1>7, <1>8, <1>9, <1>10

(* PreCreate inserts what the scanner said, under the key it built first.  *)
LEMMA CacheVerdictInv ==
    ASSUME IInv, NEW t \in Threads, CacheVerdict(t)
    PROVE  IInv'
<1> USE InvParts DEF fileVars, histVars, Stage, Ready, CacheVerdict, Done
<1>1. /\ pc[t] = "out" /\ op[t] = "none" /\ heard[t] \in Verdicts
      /\ myKey[t] \in Keys /\ KeyPast(myKey[t]) /\ TrueOf(myKey[t], heard[t])
      /\ pc \in [Threads -> Labels] /\ op \in [Threads -> Operations]
      /\ key \in [Threads -> Keys \cup {NULL}]
      /\ verdict \in [Threads -> Verdicts \cup {NULL}]
  BY DEF StageShape, FilesOK, KeysPast, RepliesTrue, CacheInv, CacheTypeOK
<1>2. VerdictToCache(heard[t]) \in Verdicts
  BY DEF VerdictToCache, Verdicts
<1>3. CacheInv'
  BY <1>1, <1>2, CallInv DEF Operations
<1>5. UNCHANGED <<entry, stamp, content, reply, heard, back, late, overtaken,
                  stopping>>
  BY DEF Call, tableVars, lifeVars
<1>4. FilesOK'
  BY <1>5 DEF FilesOK, Entries
<1>6. /\ op'[t] = "none" /\ pc'[t] = "out"
      \/ /\ op'[t] = "insert" /\ pc'[t] = "enter" /\ key'[t] = myKey[t]
         /\ verdict'[t] = VerdictToCache(heard[t])
  BY <1>1 DEF Call, callVars, Goto
<1>7. \A u \in Threads \ {t} : /\ op'[u] = op[u] /\ key'[u] = key[u]
                               /\ pc'[u] = pc[u] /\ verdict'[u] = verdict[u]
  BY <1>1 DEF Call, callVars, Goto
<1> HIDE DEF CacheVerdict
<1>8. /\ stage' = [stage EXCEPT ![t] = "cached"]
      /\ myKey' = [myKey EXCEPT ![t] = NULL]
      /\ file' = [file EXCEPT ![t] = NULL]
  BY DEF CacheVerdict
<1>9. StageShape'
  BY <1>1, <1>5, <1>6, <1>7, <1>8 DEF FilesOK, StageShape, Entering
<1>12. KeysPast'
  BY <1>1, <1>5, <1>6, <1>7, <1>8, SMTT(30) DEF FilesOK, KeysPast, KeyPast, Entries
<1>11. RepliesTrue'
  BY <1>1, <1>5, <1>6, <1>7, <1>8 DEF FilesOK, RepliesTrue, TrueOf, Entries
<1>10. AllFresh'
  <2>1. FreshIn(t)'
    <3>1. FreshIn(t) /\ stage[t] = "heard" /\ myKey[t] # NULL
      BY FreshParts DEF CacheVerdict
    <3>2. t \notin late => Fresh(myKey[t], heard[t])
      BY <3>1 DEF FreshIn
    <3>4. stage'[t] = "cached" /\ myKey'[t] = NULL
      BY <1>8 DEF FilesOK
    <3>5. op'[t] = "insert" => t \in late \/ Fresh(key[t], heard[t])'
      BY <1>5, <1>6, <3>2 DEF Fresh, KeyOf
    <3> QED BY <1>5, <3>4, <3>5 DEF FreshIn, Fresh, KeyOf
  <2>2. \A u \in Threads \ {t} :
           /\ (u \in late' <=> u \in late)
           /\ stage'[u] = stage[u] /\ file'[u] = file[u]
           /\ myKey'[u] = myKey[u] /\ heard'[u] = heard[u]
           /\ op'[u] = op[u] /\ key'[u] = key[u] /\ pc'[u] = pc[u]
    BY <1>5, <1>7, <1>8 DEF FilesOK
  <2> QED BY <1>5, <2>1, <2>2, FreshElsewhere
<1> QED BY <1>3, <1>4, <1>9, <1>10, <1>11, <1>12

(* The timer and the dismount of the volume clean up.                      *)
LEMMA MaintainInv ==
    ASSUME IInv, NEW t \in Threads, Maintain(t)
    PROVE  IInv'
<1> USE InvParts DEF fileVars, histVars, Stage, Ready, Done
<1>1. /\ pc[t] = "out" /\ op[t] = "none"
      /\ stage' = [stage EXCEPT ![t] = "cached"]
      /\ myKey' = [myKey EXCEPT ![t] = NULL]
      /\ file' = [file EXCEPT ![t] = NULL]
      /\ job' = [job EXCEPT ![t] = "none"]
      /\ UNCHANGED <<content, stamp, reply, heard, back, late, overtaken>>
      /\ pc \in [Threads -> Labels] /\ op \in [Threads -> Operations]
      /\ key \in [Threads -> Keys \cup {NULL}]
      /\ verdict \in [Threads -> Verdicts \cup {NULL}]
  BY DEF StageShape, CacheInv, CacheTypeOK, Maintain
<1>2. PICK o \in {"cleanup", "volume"} : Call(t, o, NULL, NULL)
  BY DEF Maintain
<1>3. CacheInv'
  <2>1. /\ o \in Operations \ {"none"} /\ NULL \in Verdicts \cup {NULL}
        /\ o \notin {"lookup", "insert", "remove"}
    BY DEF Operations
  <2> QED BY <1>1, <1>2, <2>1, CallInv
<1>5. UNCHANGED <<entry, stopping>>
  BY <1>2 DEF Call, tableVars, lifeVars
<1>4. FilesOK'
  BY <1>1, <1>5 DEF FilesOK, Entries
<1>6. op'[t] \notin {"insert", "remove"}
  BY <1>1, <1>2 DEF Call, callVars, Goto
<1>7. \A u \in Threads \ {t} : /\ op'[u] = op[u] /\ key'[u] = key[u]
                               /\ pc'[u] = pc[u] /\ verdict'[u] = verdict[u]
  BY <1>1, <1>2 DEF Call, callVars, Goto
<1>8. StageShape'
  BY <1>1, <1>6, <1>7 DEF FilesOK, StageShape
<1>9. KeysPast'
  BY <1>1, <1>5, <1>6, <1>7 DEF FilesOK, KeysPast, KeyPast, Entries
<1>10. RepliesTrue'
  BY <1>1, <1>5, <1>6, <1>7 DEF FilesOK, RepliesTrue, TrueOf, Entries
<1>11. AllFresh'
  <2>1. FreshIn(t)'
    BY <1>1, <1>6 DEF FreshIn, FilesOK
  <2>2. \A u \in Threads \ {t} :
           /\ (u \in late' <=> u \in late)
           /\ stage'[u] = stage[u] /\ file'[u] = file[u]
           /\ myKey'[u] = myKey[u] /\ heard'[u] = heard[u]
           /\ op'[u] = op[u] /\ key'[u] = key[u] /\ pc'[u] = pc[u]
    BY <1>1, <1>7 DEF FilesOK
  <2> QED BY <1>1, <1>5, <2>1, <2>2, FreshElsewhere
<1> QED BY <1>3, <1>4, <1>8, <1>9, <1>10, <1>11

(* The file changes: to a later write time, and every key in use lies in   *)
(* its past; or to any other, and every entry is overtaken or was removed. *)
LEMMA ChangeInv ==
    ASSUME IInv, NEW t \in Threads, Change(t)
    PROVE  IInv'
<1> USE InvParts
<1> DEFINE f == file[t]
<1>1. /\ f \in Files /\ pc[t] = "out" /\ myKey[t] = NULL
      /\ pc \in [Threads -> Labels] /\ op \in [Threads -> Operations]
      /\ MaxStamp \in Nat /\ MaxBack \in Nat
      /\ stamp[f] \in Nat /\ back[f] \in Nat
  BY FileAssumption DEF Change, Ready, StageShape, CacheInv, CacheTypeOK, FilesOK
<1>2. PICK c \in {"good", "bad"}, n \in 1 .. MaxStamp :
         /\ content' = [content EXCEPT ![f] = c]
         /\ stamp' = [stamp EXCEPT ![f] = n]
         /\ back' = IF n > stamp[f] THEN back
                    ELSE [back EXCEPT ![f] = @ + 1]
         /\ back'[f] <= MaxBack
  BY DEF Change
<1>3. Forget(t) /\ Leave(t)
  BY DEF Change, Leave
<1>4. CacheInv'
  BY <1>1, <1>3, ForgetInv
<1>5. /\ stage' = [stage EXCEPT ![t] = "idle"]
      /\ job' = [job EXCEPT ![t] = "none"]
      /\ file' = [file EXCEPT ![t] = NULL]
      /\ myKey' = [myKey EXCEPT ![t] = NULL]
      /\ heard' = [heard EXCEPT ![t] = NULL] /\ UNCHANGED reply
  BY <1>3 DEF Leave, Done, Stage
<1>7. op'[t] = "none" /\ UNCHANGED <<pc, entry, stopping>>
  BY <1>1, <1>3 DEF Forget, tableVars, lifeVars
<1>8. \A u \in Threads \ {t} : /\ op'[u] = op[u] /\ key'[u] = key[u]
                               /\ verdict'[u] = verdict[u]
                               /\ stage'[u] = stage[u] /\ myKey'[u] = myKey[u]
                               /\ heard'[u] = heard[u] /\ file'[u] = file[u]
  BY <1>3, <1>5 DEF Forget, CacheInv, CacheTypeOK, FilesOK
<1>9. stage'[t] = "idle" /\ myKey'[t] = NULL
  BY <1>1, <1>5 DEF FilesOK
<1>14. /\ late' = late \cup Opening(f)
       /\ overtaken' = IF op[t] = "remove" THEN overtaken
                       ELSE overtaken \cup KeysOf(f)
  BY DEF Change
<1>6. FilesOK'
  <2>1. stamp' \in [Files -> 1 .. MaxStamp]
    BY <1>1, <1>2 DEF FilesOK
  <2>2. back' \in [Files -> 0 .. MaxBack]
    <3>1. CASE n > stamp[f]
      BY <1>2, <3>1 DEF FilesOK
    <3>2. CASE ~(n > stamp[f])
      <4>1. back' = [back EXCEPT ![f] = @ + 1] /\ back'[f] = back[f] + 1
        BY <1>1, <1>2, <3>2 DEF FilesOK
      <4>2. back[f] + 1 \in 0 .. MaxBack
        BY <1>1, <1>2, <4>1
      <4> QED BY <1>1, <4>1, <4>2 DEF FilesOK
    <3> QED BY <3>1, <3>2
  <2>3. late' \subseteq Threads /\ overtaken' \subseteq Entries'
    BY <1>7, <1>14 DEF FilesOK, Opening, KeysOf, Entries
  <2>4. content' \in [Files -> {"good", "bad"}]
    BY <1>2 DEF FilesOK
  <2> QED BY <1>5, <2>1, <2>2, <2>3, <2>4 DEF FilesOK
<1>10. StageShape'
  BY <1>1, <1>7, <1>8, <1>9 DEF StageShape
<1>15. \A g \in Files \ {f} : /\ content'[g] = content[g]
                              /\ stamp'[g] = stamp[g] /\ back'[g] = back[g]
  BY <1>2 DEF FilesOK
<1>11. ASSUME NEW k \in Keys, KeyPast(k)
       PROVE  /\ KeyPast(k)'
              /\ \A v : TrueOf(k, v) => TrueOf(k, v)'
  <2>1. k[1] \in Files /\ k[2] \in Nat
    BY KeyParts
  <2>2. CASE k[1] = f /\ n > stamp[f]
    <3>1. stamp'[f] = n /\ back'[f] = back[f] /\ n \in Nat
      BY <1>1, <1>2, <2>2 DEF FilesOK
    <3>2. back[f] = 0 => k[2] <= stamp[f]
      BY <1>11, <2>2 DEF KeyPast
    <3>3. back[f] = 0 => k[2] < n
      BY <1>1, <2>1, <2>2, <3>1, <3>2
    <3> QED BY <2>1, <2>2, <3>1, <3>3 DEF KeyPast, TrueOf
  <2>3. CASE k[1] = f /\ ~(n > stamp[f])
    <3>1. back'[f] = back[f] + 1
      BY <1>1, <1>2, <2>3 DEF FilesOK
    <3>2. back'[f] # 0
      BY <1>1, <3>1
    <3> QED BY <2>3, <3>2 DEF KeyPast, TrueOf
  <2>4. CASE k[1] # f
    BY <1>11, <1>15, <2>1, <2>4 DEF KeyPast, TrueOf
  <2> QED BY <2>2, <2>3, <2>4
<1>12. KeysPast'
  <2>1. \A k \in Entries' : KeyPast(k)'
    BY <1>7, <1>11 DEF KeysPast, Entries
  <2>2. \A u \in Threads : myKey'[u] # NULL => KeyPast(myKey[u])' /\ myKey'[u] = myKey[u]
    BY <1>8, <1>9, <1>11 DEF KeysPast, FilesOK
  <2>3. \A u \in Threads : op'[u] = "insert" => KeyPast(key[u])' /\ key'[u] = key[u]
    BY <1>7, <1>8, <1>11 DEF KeysPast, CacheInv, CallShape
  <2> QED BY <2>1, <2>2, <2>3 DEF KeysPast, KeyPast
<1>13. RepliesTrue'
  <2>1. \A k \in Entries' :
          TrueOf(k, reply[k])' /\ (reply'[k] \in Definitive => entry'[k] = reply'[k])
    <3> TAKE k \in Entries'
    <3>1. k \in Keys /\ k \in Entries /\ reply' = reply /\ entry' = entry
      BY <1>5, <1>7 DEF Entries
    <3>2. TrueOf(k, reply[k]) /\ KeyPast(k)
      BY <3>1 DEF RepliesTrue, KeysPast
    <3>3. back'[k[1]] = 0 /\ stamp'[k[1]] = k[2] =>
             (reply[k] \in Definitive => reply[k] = Judgement(content'[k[1]]))
      BY <1>11, <3>1, <3>2 DEF TrueOf
    <3> QED BY <3>1, <3>3 DEF TrueOf, RepliesTrue
  <2>2. \A u \in Threads :
          stage'[u] = "heard" /\ myKey'[u] # NULL => TrueOf(myKey[u], heard[u])'
    BY <1>8, <1>9, <1>11 DEF KeysPast, RepliesTrue, FilesOK, TrueOf
  <2>3. \A u \in Threads :
          op'[u] = "insert" /\ pc'[u] \in Entering => TrueOf(key[u], heard[u])'
    BY <1>7, <1>8, <1>11 DEF KeysPast, RepliesTrue, CacheInv, CallShape, TrueOf
  <2> QED BY <2>1, <2>2, <2>3 DEF RepliesTrue
<1>16. AllFresh'
  <2>1. ASSUME NEW k \in Keys, k[1] # f, NEW v, Fresh(k, v)
        PROVE  Fresh(k, v)'
    <3>1. k[1] \in Files
      BY KeyParts
    <3>2. stamp'[k[1]] = stamp[k[1]] /\ content'[k[1]] = content[k[1]]
      BY <1>15, <2>1, <3>1
    <3> QED BY <2>1, <3>2 DEF Fresh, KeyOf
  <2>2. Entries' = Entries /\ \A g : KeysOf(g)' = KeysOf(g)
    BY <1>5, <1>7 DEF Entries, KeysOf
  <2>3. overtaken \subseteq overtaken' /\ late \subseteq late'
    BY <1>14
  <2>4. ~stopping => KeysOf(f) \subseteq overtaken'
    <3>1. ~stopping /\ op[t] = "remove" => KeysOf(f) \subseteq overtaken
      <4>1. FreshIn(t) /\ stage[t] = "change" /\ pc[t] \notin Entering
        BY <1>1, FreshParts DEF Change, Ready, Entering
      <4> QED BY <4>1 DEF FreshIn
    <3> QED BY <1>14, <3>1
  <2>5. EntriesFresh'
    <3>1. ASSUME ~stopping', NEW k \in Entries', k \notin overtaken'
          PROVE  Fresh(k, reply[k])'
      <4>1. k \in Entries \ overtaken /\ k \in Keys /\ ~stopping
            /\ reply'[k] = reply[k]
        BY <1>5, <1>7, <2>2, <2>3, <3>1 DEF Entries
      <4>2. Fresh(k, reply[k])
        BY <4>1 DEF AllFresh, EntriesFresh
      <4>3. CASE reply[k] \notin Definitive
        BY <4>1, <4>3 DEF Fresh
      <4>4. CASE reply[k] \in Definitive
        <5>1. k[1] # f
          BY <2>4, <3>1, <4>1, <4>4 DEF KeysOf
        <5>2. /\ k = KeyOf(k[1])' /\ reply[k] = Judgement(content'[k[1]])
          BY <2>1, <4>1, <4>2, <4>4, <5>1 DEF Fresh
        <5> QED BY <4>1, <5>2 DEF Fresh
      <4> QED BY <4>3, <4>4
    <3> QED BY <3>1 DEF EntriesFresh
  <2>6. FreshIn(t)'
    BY <1>7, <1>9 DEF FreshIn
  <2>7. ASSUME NEW u \in Threads \ {t} PROVE FreshIn(u)'
    <3>1. FreshIn(u)
      BY FreshParts
    <3>2. ASSUME u \notin late', myKey[u] # NULL
          PROVE  /\ myKey[u] = KeyOf(file[u])'
                 /\ stage[u] = "heard" => Fresh(myKey[u], heard[u])'
      <4>1. u \notin late /\ file[u] # f
        BY <1>14, <3>2 DEF Opening
      <4>2. file[u] \in Files /\ myKey[u] \in Keys
        BY <3>2 DEF StageShape, FilesOK
      <4>3. myKey[u] = KeyOf(file[u]) /\ myKey[u][1] = file[u]
        BY <3>1, <3>2, <4>1 DEF FreshIn, StageShape
      <4>4. KeyOf(file[u])' = KeyOf(file[u])
        BY <1>8, <1>15, <4>1, <4>2 DEF KeyOf
      <4>5. stage[u] = "heard" => Fresh(myKey[u], heard[u])
        BY <3>1, <3>2, <4>1 DEF FreshIn
      <4>6. ASSUME stage[u] = "heard" PROVE Fresh(myKey[u], heard[u])'
        <5>1. stamp'[file[u]] = stamp[file[u]] /\ content'[file[u]] = content[file[u]]
          BY <1>15, <4>1, <4>2
        <5> QED BY <1>8, <4>3, <4>5, <4>6, <5>1 DEF Fresh, KeyOf
      <4> QED BY <4>3, <4>4, <4>6
    <3>3. ASSUME u \notin late', op[u] = "insert", pc[u] \in Entering
          PROVE  Fresh(key[u], heard[u])'
      <4>1. u \notin late /\ key[u][1] # f
        BY <1>14, <3>3 DEF Opening
      <4>2. key[u] \in Keys /\ key[u][1] \in Files
        BY <3>3, KeyParts DEF CacheInv, CallShape
      <4>3. Fresh(key[u], heard[u])
        BY <3>1, <3>3, <4>1 DEF FreshIn
      <4>4. stamp'[key[u][1]] = stamp[key[u][1]] /\ content'[key[u][1]] = content[key[u][1]]
        BY <1>15, <4>1, <4>2
      <4> QED BY <1>8, <4>3, <4>4 DEF Fresh, KeyOf
    <3>4. ASSUME ~stopping', stage[u] = "change", op[u] = "remove",
                 NEW k \in KeysOf(file[u]) \ overtaken'
          PROVE  pc[u] \in Entering /\ key[u] = k
      BY <1>7, <2>3, <3>1, <3>4 DEF FreshIn
    <3>5. KeysOf(file[u])' = KeysOf(file[u])
      BY <1>5, <1>7, <1>8 DEF KeysOf, Entries
    <3>6. u \notin late' =>
            /\ myKey'[u] # NULL =>
                  /\ myKey'[u] = KeyOf(file[u])'
                  /\ stage'[u] = "heard" => Fresh(myKey[u], heard[u])'
            /\ op'[u] = "insert" /\ pc'[u] \in Entering =>
                  Fresh(key[u], heard[u])'
      BY <1>7, <1>8, <3>2, <3>3
    <3>7. ~stopping' /\ stage'[u] = "change" /\ op'[u] = "remove" =>
            \A k \in KeysOf(file[u])' \ overtaken' :
                pc'[u] \in Entering /\ key'[u] = k
      BY <1>7, <1>8, <3>4, <3>5
    <3> QED BY <3>6, <3>7 DEF FreshIn
  <2> QED BY <2>5, <2>6, <2>7, FreshParts
<1> QED BY <1>4, <1>6, <1>10, <1>12, <1>13, <1>16

-----------------------------------------------------------------------------
(* The steps inside the cache, the shutdown and the clock.                 *)

(* What a step inside the cache leaves to be true of the entries: each is  *)
(* as it was, or is the one that is inserted.                              *)
LEMMA EntrySteps ==
    ASSUME IInv, NEW t \in Threads, CacheStep(t)
    PROVE  /\ entry' \in [Keys -> Definitive \cup {NULL}]
           /\ \/ CacheInsert(t)
              \/ \A k \in Keys : entry'[k] \in {entry[k], NULL}
<1>1. CacheTypeOK'
  BY CacheStepInv, InvParts DEF CacheInv
<1>2. CASE CacheInsert(t)
  BY <1>1, <1>2 DEF CacheTypeOK
<1>3. CASE CacheRemove(t)
  BY <1>1, <1>3 DEF CacheRemove, CacheTypeOK
<1>4. CASE ~CacheInsert(t) /\ ~CacheRemove(t)
  <2>1. UNCHANGED entry
    BY <1>4 DEF CacheStep, AcquireReference, AcquireRecheck, CacheFull,
       CacheLookup, CacheInsertFailed, CountEntries, ReleaseReference,
       SignalShutdown, tableVars
  <2> QED BY <1>1, <2>1 DEF CacheTypeOK
<1> QED BY <1>2, <1>3, <1>4

(* What it leaves of the call of the thread, and of those of the others.   *)
LEMMA CallSteps ==
    ASSUME CacheTypeOK, NEW t \in Threads, CacheStep(t)
    PROVE  /\ op' = op /\ key' = key /\ pc[t] # "out" /\ stopping' = stopping
           /\ \A u \in Threads \ {t} : pc'[u] = pc[u] /\ verdict'[u] = verdict[u]
           /\ op[t] = "insert" /\ pc'[t] \in Entering =>
                 pc[t] \in Entering /\ verdict'[t] = verdict[t]
BY DEF CacheTypeOK, CacheStep, AcquireReference, AcquireRecheck, CacheFull,
   CacheLookup, CacheInsert, CacheInsertFailed, CacheRemove, CountEntries,
   ReleaseReference, SignalShutdown, callVars, lifeVars, Goto, Refused, Entering

(* While the cache runs, a removal goes on until its entry is out.         *)
LEMMA RemoveSteps ==
    ASSUME CacheTypeOK, CallShape, NEW t \in Threads, CacheStep(t), ~stopping,
           op[t] = "remove", pc[t] \in Entering
    PROVE  pc'[t] \in Entering \/ entry'[key[t]] = NULL
<1>1. key[t] \in Keys /\ pc[t] # "limit"
  BY DEF CallShape
<1>2. CASE CacheRemove(t)
  BY <1>1, <1>2 DEF CacheRemove, Removed, Entries
<1>3. CASE AcquireReference(t) \/ AcquireRecheck(t)
  BY <1>3 DEF AcquireReference, AcquireRecheck, Goto, Entering, CacheTypeOK
<1> QED BY <1>1, <1>2, <1>3 DEF CacheStep, CacheFull, CacheLookup, CacheInsert,
           CacheInsertFailed, CountEntries, ReleaseReference, SignalShutdown,
           Entering

(* A step of the cache keeps what the callbacks rely on.                   *)
LEMMA InCacheInv ==
    ASSUME IInv, NEW t \in Threads, InCache(t)
    PROVE  IInv'
<1> USE InvParts
<1>1. CacheStep(t) /\ CacheInv' /\ CacheTypeOK
  BY CacheStepInv DEF InCache, CacheInv
<1>2. UNCHANGED <<content, stamp, job, stage, file, myKey, heard, back, late>>
  BY DEF InCache, fileVars, jobVars
<1>3. FilesOK'
  <2>1. reply' \in [Keys -> Verdicts \cup {NULL}]
    BY DEF InCache, FilesOK
  <2>2. overtaken' \subseteq Entries'
    BY DEF InCache, Entries
  <2> QED BY <1>2, <2>1, <2>2 DEF FilesOK
<1>4. /\ op' = op /\ key' = key /\ pc[t] # "out" /\ stopping' = stopping
      /\ \A u \in Threads \ {t} : pc'[u] = pc[u] /\ verdict'[u] = verdict[u]
      /\ op[t] = "insert" /\ pc'[t] \in Entering =>
            pc[t] \in Entering /\ verdict'[t] = verdict[t]
  BY <1>1, CallSteps
<1>5. StageShape'
  BY <1>2, <1>4 DEF StageShape
<1>6. ASSUME CacheInsert(t)
      PROVE  /\ key[t] \in Keys /\ KeyPast(key[t]) /\ TrueOf(key[t], heard[t])
             /\ heard[t] \in Definitive => verdict[t] = heard[t]
             /\ \A k \in Keys : entry'[k] = IF k = key[t] THEN verdict[t] ELSE entry[k]
  <2>1. op[t] = "insert" /\ pc[t] \in Entering
    BY <1>6 DEF CacheInsert, Entering
  <2>2. key[t] \in Keys /\ KeyPast(key[t]) /\ TrueOf(key[t], heard[t])
    BY <2>1 DEF CacheInv, CallShape, KeysPast, RepliesTrue
  <2>3. heard[t] \in Definitive => verdict[t] = heard[t]
    BY <2>1 DEF StageShape, VerdictToCache, Definitive
  <2> QED BY <1>6, <2>2, <2>3, <1>1 DEF CacheInsert, CacheTypeOK
<1>7. ASSUME NEW k \in Entries'
      PROVE  /\ KeyPast(k) /\ TrueOf(k, reply'[k])
             /\ reply'[k] \in Definitive => entry'[k] = reply'[k]
  <2>1. k \in Keys /\ entry'[k] # NULL
    BY DEF Entries
  <2>2. CASE CacheInsert(t) /\ k = key[t]
    <3>1. reply'[k] = heard[t]
      BY <2>1, <2>2 DEF InCache
    <3> QED BY <1>6, <2>1, <2>2, <3>1
  <2>3. CASE ~(CacheInsert(t) /\ k = key[t])
    <3>1. reply'[k] = reply[k]
      BY <2>1, <2>3 DEF InCache
    <3>2. entry'[k] = entry[k]
      BY <1>1, <1>6, <2>1, <2>3, EntrySteps
    <3>3. k \in Entries
      BY <2>1, <3>2 DEF Entries
    <3> QED BY <3>1, <3>2, <3>3 DEF KeysPast, RepliesTrue
  <2> QED BY <2>2, <2>3
<1>8. KeysPast'
  <2>1. \A k : KeyPast(k)' <=> KeyPast(k)
    BY <1>2 DEF KeyPast
  <2>2. \A u \in Threads : myKey'[u] # NULL => KeyPast(myKey'[u])
    BY <1>2 DEF KeysPast
  <2>3. \A u \in Threads : op'[u] = "insert" => KeyPast(key'[u])
    BY <1>4 DEF KeysPast
  <2> QED BY <1>2, <1>7, <2>2, <2>3 DEF KeysPast, KeyPast
<1>9. RepliesTrue'
  <2>1. \A u \in Threads :
          stage'[u] = "heard" /\ myKey'[u] # NULL => TrueOf(myKey'[u], heard'[u])
    BY <1>2 DEF RepliesTrue
  <2>2. \A u \in Threads :
          op'[u] = "insert" /\ pc'[u] \in Entering => TrueOf(key'[u], heard'[u])
    BY <1>2, <1>4 DEF RepliesTrue
  <2> QED BY <1>2, <1>7, <2>1, <2>2 DEF RepliesTrue, TrueOf
<1>10. ASSUME NEW k \in Entries' \ overtaken'
       PROVE  \/ /\ CacheInsert(t) /\ k = key[t] /\ ~Overlap(t)
                 /\ reply'[k] = heard[t]
              \/ k \in Entries \ overtaken /\ reply'[k] = reply[k]
  <2>1. k \in Keys /\ entry'[k] # NULL
    BY DEF Entries
  <2>2. CASE CacheInsert(t) /\ k = key[t]
    BY <2>1, <2>2 DEF InCache
  <2>3. CASE ~(CacheInsert(t) /\ k = key[t])
    <3>1. reply'[k] = reply[k] /\ k \notin overtaken
      BY <2>1, <2>3 DEF InCache
    <3>2. entry'[k] = entry[k]
      BY <1>1, <1>6, <2>1, <2>3, EntrySteps
    <3> QED BY <2>1, <3>1, <3>2 DEF Entries
  <2> QED BY <2>2, <2>3
<1>11. AllFresh'
  <2>2. EntriesFresh'
    <3>1. ASSUME ~stopping', NEW k \in Entries' \ overtaken'
          PROVE  Fresh(k, reply'[k])
      <4>1. CASE CacheInsert(t) /\ k = key[t] /\ ~Overlap(t) /\ reply'[k] = heard[t]
        <5>1. op[t] = "insert" /\ pc[t] \in Entering /\ FreshIn(t)
          BY <4>1, FreshParts DEF CacheInsert, Entering
        <5>2. heard[t] \in Definitive => t \notin late
          BY <4>1 DEF Overlap
        <5> QED BY <4>1, <5>1, <5>2 DEF FreshIn, Fresh
      <4>2. CASE k \in Entries \ overtaken /\ reply'[k] = reply[k]
        BY <1>4, <3>1, <4>2 DEF AllFresh, EntriesFresh
      <4> QED BY <1>10, <4>1, <4>2
    <3> QED BY <1>2, <3>1 DEF EntriesFresh, Fresh, KeyOf
  <2>3. ASSUME NEW u \in Threads PROVE FreshIn(u)'
    <3>1. FreshIn(u)
      BY FreshParts
    <3>2. op[u] = "insert" /\ pc'[u] \in Entering => pc[u] \in Entering
      BY <1>4
    <3>3. ASSUME ~stopping', stage[u] = "change", op[u] = "remove",
                 NEW k \in KeysOf(file[u])' \ overtaken'
          PROVE  pc'[u] \in Entering /\ key[u] = k
      <4>1. /\ k \in Entries' \ overtaken' /\ k[1] = file[u]
            /\ reply'[k] \in Definitive
        BY <1>2, <3>3 DEF KeysOf
      <4>2. k \in Entries \ overtaken /\ reply'[k] = reply[k]
        BY <1>10, <3>3, <4>1 DEF Overlap
      <4>3. k \in KeysOf(file[u]) \ overtaken
        BY <4>1, <4>2 DEF KeysOf
      <4>4. pc[u] \in Entering /\ key[u] = k /\ ~stopping
        BY <1>4, <3>1, <3>3, <4>3 DEF FreshIn
      <4>5. CASE u = t
        <5>1. entry'[k] # NULL
          BY <4>1 DEF Entries
        <5>2. CallShape
          BY DEF CacheInv
        <5> QED BY <1>1, <3>3, <4>4, <4>5, <5>1, <5>2, RemoveSteps
      <4>6. CASE u # t
        BY <1>4, <4>4, <4>6
      <4> QED BY <4>4, <4>5, <4>6
    <3>4. KeyOf(file[u])' = KeyOf(file[u])
      BY <1>2 DEF KeyOf
    <3>5. u \notin late' =>
            /\ myKey'[u] # NULL =>
                  /\ myKey'[u] = KeyOf(file[u])'
                  /\ stage'[u] = "heard" => Fresh(myKey[u], heard[u])
            /\ op'[u] = "insert" /\ pc'[u] \in Entering =>
                  Fresh(key[u], heard[u])
      BY <1>2, <1>4, <3>1, <3>2, <3>4 DEF FreshIn
    <3>6. Fresh(myKey[u], heard[u])' <=> Fresh(myKey[u], heard[u])
      BY <1>2 DEF Fresh, KeyOf
    <3>7. Fresh(key[u], heard[u])' <=> Fresh(key[u], heard[u])
      BY <1>2, <1>4 DEF Fresh, KeyOf
    <3>8. ~stopping' /\ stage'[u] = "change" /\ op'[u] = "remove" =>
            \A k \in KeysOf(file[u])' \ overtaken' :
                pc'[u] \in Entering /\ key'[u] = k
      BY <1>2, <1>4, <3>3
    <3> QED BY <3>5, <3>6, <3>7, <3>8 DEF FreshIn
  <2> QED BY <2>2, <2>3, FreshParts
<1> QED BY <1>1, <1>3, <1>5, <1>8, <1>9, <1>11

(* The shutdown and the clock touch neither the callbacks nor, but to take *)
(* them out, the entries.                                                  *)
LEMMA OutsideInv ==
    ASSUME IInv, Environment \/ Teardown
    PROVE  IInv'
<1> USE InvParts
<1>1. CacheInv'
  BY ExpireInv, ShutdownInv DEF Environment, Teardown
<1>2. /\ UNCHANGED <<content, stamp, job, stage, file, myKey, heard, back, late>>
      /\ UNCHANGED <<op, key, verdict, pc>> /\ (stopping => stopping')
  BY DEF Environment, Teardown, Expire, ShutdownBegin, ShutdownGiveUp,
     ShutdownStep, ShutdownWait, ShutdownClear, ShutdownDelete, fileVars,
     histVars, jobVars, callVars, lifeVars
<1>3. \A k \in Keys : entry'[k] \in {entry[k], NULL}
  BY DEF Environment, Teardown, Expire, ShutdownBegin, ShutdownGiveUp,
     ShutdownStep, ShutdownWait, ShutdownClear, ShutdownDelete, tableVars
<1>4. /\ reply' \in [Keys -> Verdicts \cup {NULL}]
      /\ \A k \in Keys : entry'[k] # NULL => reply'[k] = reply[k]
  BY DEF Environment, Teardown, FilesOK, histVars
<1>10. overtaken' = {k \in overtaken : entry'[k] # NULL}
  <2>1. CASE Teardown
    BY <2>1 DEF Teardown
  <2>2. CASE Environment
    <3>1. UNCHANGED <<overtaken, entry>>
      BY <2>2 DEF Environment, histVars, Expire, ShutdownBegin, ShutdownGiveUp,
         tableVars
    <3> QED BY <3>1 DEF FilesOK, Entries
  <2> QED BY <2>1, <2>2
<1>5. FilesOK'
  <2>1. overtaken' \subseteq Entries'
    BY <1>10 DEF FilesOK, Entries
  <2> QED BY <1>2, <1>4, <2>1 DEF FilesOK
<1>6. StageShape'
  BY <1>2 DEF StageShape
<1>7. \A k \in Entries' : /\ k \in Entries /\ entry'[k] = entry[k]
                          /\ reply'[k] = reply[k]
  BY <1>3, <1>4 DEF Entries
<1>8. KeysPast'
  BY <1>2, <1>7 DEF KeysPast, KeyPast
<1>9. RepliesTrue'
  BY <1>2, <1>7 DEF RepliesTrue, TrueOf
<1>11. AllFresh'
  <2>1. \A k \in Entries' \ overtaken' : k \in Entries \ overtaken
    BY <1>7, <1>10 DEF Entries
  <2>2. EntriesFresh'
    BY <1>2, <1>7, <2>1 DEF AllFresh, EntriesFresh, Fresh, KeyOf
  <2>3. ASSUME NEW u \in Threads PROVE FreshIn(u)'
    <3>1. FreshIn(u)
      BY FreshParts
    <3>2. \A k \in KeysOf(file[u])' \ overtaken' : k \in KeysOf(file[u]) \ overtaken
      BY <1>2, <1>7, <2>1 DEF KeysOf
    <3>3. KeyOf(file[u])' = KeyOf(file[u])
      BY <1>2 DEF KeyOf
    <3>4. Fresh(myKey[u], heard[u])' <=> Fresh(myKey[u], heard[u])
      BY <1>2 DEF Fresh, KeyOf
    <3>5. Fresh(key[u], heard[u])' <=> Fresh(key[u], heard[u])
      BY <1>2 DEF Fresh, KeyOf
    <3> QED BY <1>2, <3>1, <3>2, <3>3, <3>4, <3>5 DEF FreshIn
  <2> QED BY <2>2, <2>3, FreshParts
<1> QED BY <1>1, <1>5, <1>6, <1>8, <1>9, <1>11

-----------------------------------------------------------------------------
(* The theorems.                                                           *)

(* The inductive invariant holds at first.                                 *)
LEMMA InitInv == Init => IInv
<1> SUFFICES ASSUME Init PROVE IInv
  OBVIOUS
<1> USE DEF Init
<1>1. CacheInv
  BY CacheInitInv
<1>2. FilesOK
  <2>1. stamp \in [Files -> 1 .. MaxStamp] /\ back \in [Files -> 0 .. MaxBack]
    BY FileAssumption
  <2> QED BY <2>1 DEF FilesOK
<1>3. Entries = {}
  BY DEF CacheInit, Entries
<1>4. StageShape
  BY DEF StageShape, CacheInit
<1>5. KeysPast
  BY <1>3 DEF KeysPast, CacheInit
<1>6. RepliesTrue
  BY <1>3 DEF RepliesTrue, CacheInit
<1>7. AllFresh
  BY <1>3 DEF AllFresh, OpensFresh, EntriesFresh, ChangesAnnounced, CacheInit
<1> QED BY <1>1, <1>2, <1>4, <1>5, <1>6, <1>7, InvParts

(* Every step preserves the inductive invariant.                           *)
LEMMA NextInv == IInv /\ [Next]_vars => IInv'
<1> SUFFICES ASSUME IInv, [Next]_vars PROVE IInv'
  OBVIOUS
<1>1. ASSUME NEW t \in Threads, CallbackBegin(t) PROVE IInv'
  <2>1. CASE Maintain(t)
    BY <2>1, MaintainInv
  <2>2. ASSUME NEW f \in Files, PreCreate(t, f) PROVE IInv'
    BY <2>2, BeginCallInv DEF PreCreate
  <2>3. ASSUME NEW f \in Files,
               PreCreateWithoutKey(t, f) \/ PreChangeWithoutKey(t, f)
        PROVE  IInv'
    BY <2>3, BeginPlainInv
  <2>4. ASSUME NEW f \in Files, PreAcquireSection(t, f) PROVE IInv'
    BY <2>4, BeginCallInv DEF PreAcquireSection
  <2>5. ASSUME NEW f \in Files, PreChange(t, f) PROVE IInv'
    BY <2>5, BeginCallInv DEF PreChange
  <2> QED BY <1>1, <2>1, <2>2, <2>3, <2>4, <2>5 DEF CallbackBegin
<1>2. ASSUME NEW t \in Threads, CallbackStep(t) PROVE IInv'
  <2>1. CASE \/ CacheHit(t) \/ ScanFailed(t) \/ NothingToCache(t)
             \/ SectionDecided(t) \/ NoChange(t) \/ Finish(t)
    BY <2>1, ReturnInv DEF CacheHit, ScanFailed, NothingToCache,
       SectionDecided, NoChange, Finish, Ready
  <2> QED BY <1>2, <2>1, CacheMissInv, ScanReplyInv, CacheVerdictInv,
             ChangeInv, InCacheInv DEF CallbackStep
<1>3. CASE UNCHANGED vars
  <2>1. CacheInv'
    BY <1>3, CacheIdle, InvParts DEF vars
  <2>2. UNCHANGED <<content, stamp, reply, job, stage, file, myKey, heard,
                    back, late, overtaken, entry, op, key, verdict, pc, stopping>>
    BY <1>3 DEF vars, fileVars, histVars, jobVars, cacheVars, tableVars,
       callVars, lifeVars
  <2>3. FilesOK' /\ StageShape'
    BY <2>2, InvParts DEF FilesOK, StageShape, Entries
  <2>4. KeysPast' /\ RepliesTrue'
    BY <2>2, InvParts DEF KeysPast, KeyPast, RepliesTrue, TrueOf, Entries
  <2>5. AllFresh'
    BY <2>2, InvParts DEF AllFresh, OpensFresh, EntriesFresh, ChangesAnnounced,
       Fresh, KeyOf, KeysOf, Entries
  <2> QED BY <2>1, <2>3, <2>4, <2>5, InvParts
<1> QED BY <1>1, <1>2, <1>3, OutsideInv DEF Next

(* The callbacks and the cache keep the inductive invariant, whatever the  *)
(* interleaving.                                                           *)
THEOREM InductiveInvariant == Spec => []IInv
BY InitInv, NextInv, PTL DEF Spec

(* The state of the cache and of the callbacks keeps its types.            *)
THEOREM TypeCorrect == Spec => []TypeOK
<1>1. IInv => TypeOK
  BY DEF IInv
<1> QED BY <1>1, InductiveInvariant, PTL

(* ActiveReferences is the number of threads between AcquireReference and  *)
(* ReleaseReference, with a shutdown at any moment.                        *)
THEOREM ReferencesExact == Spec => []RefsExact
<1>1. IInv => RefsExact
  BY DEF IInv, CacheInv
<1> QED BY <1>1, InductiveInvariant, PTL

(* Whatever is cached for a file as it is now, from a definitive reply, is *)
(* the scanner's judgement of the content the file has now, if the write   *)
(* times of the file only went forward; and if they did not, still if the  *)
(* cache runs and no change of the file overlapped the scan or came        *)
(* without the invalidation of PreWrite and PreSetInfo.                    *)
THEOREM CachedVerdictCurrent == Spec => []VerdictCurrent
<1>1. IInv => VerdictCurrent
  <2> SUFFICES ASSUME IInv, NEW f \in Files,
                      entry[KeyOf(f)] # NULL, reply[KeyOf(f)] \in Definitive,
                      \/ back[f] = 0
                      \/ ~stopping /\ KeyOf(f) \notin overtaken
               PROVE  entry[KeyOf(f)] = Judgement(content[f])
    BY DEF VerdictCurrent
  <2>1. KeyOf(f) \in Keys /\ KeyOf(f)[1] = f /\ KeyOf(f)[2] = stamp[f]
    BY KeyTypes DEF IInv, TypeOK
  <2>2. KeyOf(f) \in Entries
    BY <2>1 DEF Entries
  <2>3. entry[KeyOf(f)] = reply[KeyOf(f)]
    BY <2>2 DEF IInv, RepliesTrue
  <2>4. CASE back[f] = 0
    BY <2>1, <2>2, <2>4 DEF IInv, RepliesTrue, TrueOf
  <2>5. CASE ~stopping /\ KeyOf(f) \notin overtaken
    <3>1. Fresh(KeyOf(f), reply[KeyOf(f)])
      BY <2>2, <2>5 DEF IInv, EntriesFresh
    <3> QED BY <2>1, <2>3, <3>1 DEF Fresh
  <2> QED BY <2>4, <2>5
<1> QED BY <1>1, InductiveInvariant, PTL

(* Where no shutdown begins between the last decrement of a thread and its *)
(* look at ShutdownInProgress (the gap the run of FileScan_teardown        *)
(* exposes), no operation reaches the buckets once                         *)
(* ShadowStrikeCacheShutdown takes them down.                              *)
THEOREM TeardownSafe ==
    ASSUME LateSignal = FALSE
    PROVE  Spec => []NoUseAfterTeardown
<1>1. IInv => NoUseAfterTeardown
  BY DEF IInv, CacheInv, StopShape
<1> QED BY <1>1, InductiveInvariant, PTL

(* Under the same assumption CurrentEntries, with what the threads still   *)
(* owe it, is the number of entries, through inserts, removals, expiry and *)
(* the shutdown.                                                           *)
THEOREM EntriesCounted ==
    ASSUME LateSignal = FALSE
    PROVE  Spec => []CountExact
<1>1. IInv => CountExact
  BY DEF IInv, CacheInv
<1> QED BY <1>1, InductiveInvariant, PTL

=============================================================================
