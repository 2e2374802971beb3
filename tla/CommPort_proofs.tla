--------------------------- MODULE CommPort_proofs ---------------------------
(***************************************************************************)
(* Proofs about CommPort, for any number of threads, connections and slots *)
(* and any limits.                                                         *)
(***************************************************************************)
EXTENDS CommPort, FiniteSetTheorems, TLAPS

-----------------------------------------------------------------------------
(* The actors.                                                             *)

(* Every actor is a thread, a connection or a delivery, and of one kind    *)
(* only.                                                                   *)
LEMMA ActorKinds ==
    /\ \A t \in Threads : /\ Send(t) \in Actors /\ Send(t) \in Senders
                          /\ Send(t) \notin Conns /\ Send(t) \notin Kexers
    /\ \A p \in Clients : /\ Conn(p) \in Actors /\ Conn(p) \in Conns
                          /\ Conn(p) \notin Senders /\ Conn(p) \notin Kexers
    /\ \A p \in Clients : /\ Kex(p) \in Actors /\ Kex(p) \in Kexers
                          /\ Kex(p) \notin Senders /\ Kex(p) \notin Conns
    /\ \A a \in Actors : \/ \E t \in Threads : a = Send(t)
                         \/ \E p \in Clients : a = Conn(p)
                         \/ \E p \in Clients : a = Kex(p)
  BY DEF Actors, Senders, Conns, Kexers, Send, Conn, Kex

(* Different actors have different names.                                  *)
LEMMA ActorNames ==
    /\ \A t, u : Send(t) = Send(u) => t = u
    /\ \A p, q : Conn(p) = Conn(q) => p = q
    /\ \A p, q : Kex(p) = Kex(q) => p = q
    /\ \A p, q : Conn(p) # Kex(q) /\ Send(p) # Conn(q) /\ Send(p) # Kex(q)
    /\ \A p : Kex(p)[2] = p
  BY DEF Send, Conn, Kex

(* There are finitely many actors, so the references of a slot can be      *)
(* counted.                                                                *)
LEMMA RefsFinite ==
    /\ IsFiniteSet(Actors)
    /\ \A s : IsFiniteSet(Refs(s)) /\ Cardinality(Refs(s)) \in Nat
<1>1. IsFiniteSet(Actors)
  <2>1. IsFiniteSet({"send"}) /\ IsFiniteSet({"conn"}) /\ IsFiniteSet({"kex"})
    BY FS_Singleton
  <2>2. IsFiniteSet(Senders) /\ IsFiniteSet(Conns) /\ IsFiniteSet(Kexers)
    BY <2>1, FS_Product, ConstantsAssumption DEF Senders, Conns, Kexers
  <2> QED BY <2>2, FS_Union DEF Actors
<1>2. \A s : Refs(s) \in SUBSET Actors
  BY DEF Refs
<1> QED BY <1>1, <1>2, FS_Subset, FS_CardinalityType

-----------------------------------------------------------------------------
(* Type correctness, given that the actors index existing slots.           *)

(* The labels that the steps name are labels.                              *)
LEMMA LabelsOfSteps ==
    /\ {"idle", "acquire", "increment", "recheck", "undo", "held", "limit",
        "over", "full", "send", "release", "finalize", "connected", "denied",
        "dropBase", "reclaim", "gone", "done"} \subseteq Labels
    /\ \A a \in Actors : AcquireFailed(a) \in Labels /\ Released(a) \in Labels
<1>1. {"idle", "acquire", "increment", "recheck", "undo", "held", "limit",
       "over", "full", "send", "release", "finalize", "connected", "denied",
       "dropBase", "reclaim", "gone", "done"} \subseteq Labels
  BY DEF Labels, RefLabels, UseLabels
<1>2. {"failed", "connected", "done", "released", "close"} \subseteq Labels
  BY DEF Labels
<1> QED BY <1>1, <1>2 DEF AcquireFailed, Released

(* ShadowStrikeCreateCommunicationPort leaves every variable within its    *)
(* type.                                                                   *)
LEMMA TypeInit == Init => TypeOK
  BY ConstantsAssumption
  DEF Init, TypeOK, Slots, Operations, Labels, Actors, Senders

(* Every step of every actor keeps every variable within its type.         *)
LEMMA TypeStep ==
    ASSUME TypeOK, OwnerSlot, Occupied, FinalizerSlot, [Next]_vars
    PROVE  TypeOK'
<1> USE ConstantsAssumption, ActorKinds, LabelsOfSteps
    DEF TypeOK, slotVars, kexVars, queueVars, Goto
<1>1. ASSUME NEW a \in Actors, ReferenceStep(a) PROVE TypeOK'
  <2>1. CASE AcquireSelect(a)
    <3>1. Candidates(a) \subseteq Slots
      BY DEF Candidates, Lowest, Preferred, Connected
    <3> QED BY <2>1, <3>1 DEF AcquireSelect
  <2>2. CASE AcquireIncrement(a)
    <3>1. at[a] \in Slots
      BY <2>2 DEF AcquireIncrement, Occupied
    <3> QED BY <2>2, <3>1 DEF AcquireIncrement
  <2>3. CASE AcquireRecheck(a)
    BY <2>3 DEF AcquireRecheck
  <2>4. CASE AcquireUndo(a)
    <3>1. at[a] \in Slots
      BY <2>4 DEF AcquireUndo, Occupied, RefLabels
    <3> QED BY <2>4, <3>1 DEF AcquireUndo
  <2>5. CASE ReleaseClientPort(a)
    <3>1. at[a] \in Slots
      BY <2>5 DEF ReleaseClientPort, Occupied, RefLabels, UseLabels
    <3> QED BY <2>5, <3>1 DEF ReleaseClientPort
  <2>6. CASE FinalizeClientDisconnect(a)
    <3>1. at[a] \in Slots
      BY <2>6 DEF FinalizeClientDisconnect, FinalizerSlot
    <3>2. pc' \in [Actors -> Labels]
      BY <2>6 DEF FinalizeClientDisconnect
    <3>3. CASE Finalizable(at[a])
      <4>1. port[at[a]] \in Clients
        BY <3>1, <3>3 DEF Finalizable
      <4>2. closes' \in [Clients -> Nat] /\ connectedClients' \in Int
        BY <2>6, <3>3, <4>1 DEF FinalizeClientDisconnect, FinalizeSlot
      <4>3. /\ port' \in [Slots -> Clients \cup {NULL}]
            /\ refCount' \in [Slots -> Int]
        BY <2>6, <3>1, <3>3 DEF FinalizeClientDisconnect, FinalizeSlot
      <4>4. /\ disconnecting' \in [Slots -> BOOLEAN]
            /\ primary' \in [Slots -> BOOLEAN]
            /\ encrypted' \in [Slots -> BOOLEAN]
        BY <2>6, <3>1, <3>3 DEF FinalizeClientDisconnect, FinalizeSlot
      <4> QED BY <2>6, <3>2, <4>2, <4>3, <4>4 DEF FinalizeClientDisconnect
    <3>4. CASE ~Finalizable(at[a])
      BY <2>6, <3>2, <3>4 DEF FinalizeClientDisconnect, FinalizeSlot
    <3> QED BY <3>3, <3>4
  <2> QED BY <1>1, <2>1, <2>2, <2>3, <2>4, <2>5, <2>6 DEF ReferenceStep
<1>2. ASSUME NEW t \in Threads, SendCall(t) \/ SendStep(t) PROVE TypeOK'
  <2> USE DEF Operations
  <2>1. CASE SendScanRequest(t)
    BY <2>1 DEF SendScanRequest
  <2>2. CASE SendNotification(t)
    BY <2>2 DEF SendNotification
  <2>3. CASE SendProcessNotification(t)
    BY <2>3 DEF SendProcessNotification
  <2>4. CASE SendEncrypt(t)
    BY <2>4 DEF SendEncrypt
  <2>5. CASE SendDrop(t)
    BY <2>5 DEF SendDrop
  <2>6. CASE ProcessLimit(t)
    BY <2>6 DEF ProcessLimit
  <2>7. CASE ScanOverLimit(t)
    BY <2>7 DEF ScanOverLimit, Return
  <2>8. CASE ProcessOverLimit(t)
    BY <2>8 DEF ProcessOverLimit
  <2>9. CASE SendReturns(t)
    BY <2>9 DEF SendReturns
  <2>10. CASE SendFailed(t)
    BY <2>10 DEF SendFailed, Return
  <2>11. CASE SendDone(t)
    BY <2>11 DEF SendDone, Return
  <2> QED
    BY <1>2, <2>1, <2>2, <2>3, <2>4, <2>5, <2>6, <2>7, <2>8, <2>9, <2>10,
       <2>11
    DEF SendCall, SendStep
<1>3. ASSUME NEW p \in Clients, ConnectCall(p) \/ ConnectStep(p) \/ KexStep(p)
      PROVE  TypeOK'
  <2>1. CASE ConnectNotify(p)
    <3>1. Lowest(FreeSlots) \subseteq Slots
      BY DEF Lowest, FreeSlots
    <3> QED BY <2>1, <3>1 DEF ConnectNotify
  <2>2. CASE ConnectDenied(p)
    BY <2>2 DEF ConnectDenied
  <2>3. CASE DisconnectMark(p)
    <3>1. at[Conn(p)] \in Slots
      BY <2>3 DEF DisconnectMark, OwnerSlot, AliveLabels
    <3> QED BY <2>3, <3>1 DEF DisconnectMark
  <2>4. CASE DrainMessageQueue(p)
    BY <2>4 DEF DrainMessageQueue, DrainCount
  <2>5. CASE DisconnectDrop(p)
    <3>1. at[Conn(p)] \in Slots
      BY <2>5 DEF DisconnectDrop, OwnerSlot, AliveLabels
    <3> QED BY <2>5, <3>1 DEF DisconnectDrop
  <2>6. CASE KexCheckPort(p)
    BY <2>6 DEF KexCheckPort
  <2>7. CASE KexDelivered(p) \/ KexTimedOut(p)
    <3>1. at[Kex(p)] \in Slots
      BY <2>7 DEF KexDelivered, KexTimedOut, KexEstablish, Occupied, RefLabels,
                  UseLabels
    <3>2. encrypted' = [encrypted EXCEPT ![at[Kex(p)]] = TRUE]
      BY <2>7 DEF KexDelivered, KexTimedOut, KexEstablish
    <3>3. encrypted' \in [Slots -> BOOLEAN]
      BY <3>1, <3>2
    <3>4. kexSent' \subseteq Clients /\ kexLost' \subseteq Clients
      BY <2>7 DEF KexDelivered, KexTimedOut, KexEstablish
    <3> QED
      BY <2>7, <3>3, <3>4 DEF KexDelivered, KexTimedOut, KexEstablish
  <2>8. CASE KexNotDelivered(p)
    BY <2>8 DEF KexNotDelivered
  <2>9. CASE KexClosePort(p)
    BY <2>9 DEF KexClosePort
  <2> QED
    BY <1>3, <2>1, <2>2, <2>3, <2>4, <2>5, <2>6, <2>7, <2>8, <2>9
    DEF ConnectCall, ConnectStep, KexStep
<1>4. CASE UNCHANGED vars
  BY <1>4 DEF vars
<1> QED BY <1>1, <1>2, <1>3, <1>4 DEF Next

-----------------------------------------------------------------------------
(* Quiet steps: one actor goes on without touching a slot or the lock, and *)
(* without gaining or losing a reference.                                  *)

QuietStep(a) ==
    /\ UNCHANGED <<port, refCount, disconnecting, readers>>
    /\ \A b \in Actors : b # a => pc'[b] = pc[b] /\ at'[b] = at[b]
    /\ pc[a] \notin ReadLabels \cup {"finalize", "reclaim"}
    /\ pc'[a] \notin ReadLabels \cup {"finalize", "reclaim"}
    /\ pc[a] \in UseLabels <=> pc'[a] \in UseLabels
    /\ pc[a] \in UseLabels => at'[a] = at[a]
    /\ a \in Senders => pc'[a] \in SenderLabels
    /\ a \in Kexers => pc'[a] \in KexLabels
    /\ a \in Conns => /\ at'[a] = at[a]
                      /\ \/ pc[a] = "held" /\ pc'[a] = "release"
                         \/ pc[a] = "off" /\ pc'[a] = "denied"

(* The steps of a send function between its calls of Acquire and Release   *)
(* are quiet.                                                              *)
LEMMA SendQuiet ==
    ASSUME TypeOK, NEW t \in Threads, SendCall(t) \/ SendStep(t)
    PROVE  QuietStep(Send(t))
<1> USE ActorKinds
    DEF TypeOK, slotVars, Goto, Return, QuietStep, ReadLabels, UseLabels,
        RefLabels, SenderLabels
<1>1. CASE SendScanRequest(t)
  BY <1>1 DEF SendScanRequest
<1>2. CASE SendNotification(t)
  BY <1>2 DEF SendNotification
<1>3. CASE SendProcessNotification(t)
  BY <1>3 DEF SendProcessNotification
<1>4. CASE SendEncrypt(t)
  BY <1>4 DEF SendEncrypt
<1>5. CASE SendDrop(t)
  BY <1>5 DEF SendDrop
<1>6. CASE ProcessLimit(t)
  BY <1>6 DEF ProcessLimit
<1>7. CASE ScanOverLimit(t)
  BY <1>7 DEF ScanOverLimit
<1>8. CASE ProcessOverLimit(t)
  BY <1>8 DEF ProcessOverLimit
<1>9. CASE SendReturns(t)
  BY <1>9 DEF SendReturns
<1>10. CASE SendFailed(t)
  BY <1>10 DEF SendFailed
<1>11. CASE SendDone(t)
  BY <1>11 DEF SendDone
<1> QED
  BY <1>1, <1>2, <1>3, <1>4, <1>5, <1>6, <1>7, <1>8, <1>9, <1>10, <1>11
  DEF SendCall, SendStep

(* So are a refused connection and the drain.                              *)
LEMMA ConnQuiet ==
    ASSUME TypeOK, NEW p \in Clients, ConnectDenied(p) \/ DrainMessageQueue(p)
    PROVE  QuietStep(Conn(p))
<1> USE ActorKinds
    DEF TypeOK, slotVars, Goto, QuietStep, ReadLabels, UseLabels
<1>1. CASE ConnectDenied(p)
  BY <1>1 DEF ConnectDenied
<1>2. CASE DrainMessageQueue(p)
  BY <1>2 DEF DrainMessageQueue, DrainCount
<1> QED BY <1>1, <1>2

(* And the key delivery once it has its reference, but for the flag.       *)
LEMMA KexQuiet ==
    ASSUME TypeOK, NEW p \in Clients, KexStep(p)
    PROVE  QuietStep(Kex(p))
<1> USE ActorKinds
    DEF TypeOK, slotVars, Goto, QuietStep, ReadLabels, UseLabels, KexLabels,
        KexEarlyLabels
<1>1. CASE KexCheckPort(p)
  BY <1>1 DEF KexCheckPort
<1>2. CASE KexDelivered(p) \/ KexTimedOut(p)
  BY <1>2 DEF KexDelivered, KexTimedOut, KexEstablish
<1>3. CASE KexNotDelivered(p)
  BY <1>3 DEF KexNotDelivered
<1>4. CASE KexClosePort(p)
  BY <1>4 DEF KexClosePort
<1> QED BY <1>1, <1>2, <1>3, <1>4 DEF KexStep

-----------------------------------------------------------------------------
(* The lock, the slots and their connections.                              *)

(* Before anything happens the lock is free and every slot empty.          *)
LEMMA LockInit == Init => LockInv
  BY ConstantsAssumption, ActorKinds
  DEF Init, LockInv, RoleLabels, ReadersExact, SlotOwner, OwnerSlot,
      FreeSlotClean, Occupied, FinalizerSlot, GoneNotRead, SenderLabels,
      ConnLabels, KexLabels, KexEarlyLabels, AliveLabels, ReadLabels,
      RefLabels, UseLabels

(* Quiet steps preserve what is known about the lock, the slots and their  *)
(* connections.                                                            *)
LEMMA QuietLock ==
    ASSUME TypeOK, TypeOK', LockInv, NEW a \in Actors, QuietStep(a)
    PROVE  LockInv'
<1> USE DEF QuietStep, LockInv
<1>1. RoleLabels'
  BY ActorKinds DEF RoleLabels, ConnLabels, AliveLabels
<1>2. ReadersExact'
  BY DEF ReadersExact, ReadLabels
<1>3. SlotOwner' /\ OwnerSlot' /\ FreeSlotClean'
  BY ActorKinds
  DEF TypeOK, SlotOwner, OwnerSlot, FreeSlotClean, AliveLabels, ReadLabels,
      LeavingLabels
<1>4. Occupied'
  BY DEF Occupied, RefLabels, ReadLabels
<1>5. FinalizerSlot'
  BY DEF FinalizerSlot
<1>6. GoneNotRead'
  BY ActorKinds DEF GoneNotRead, TypeOK
<1> QED BY <1>1, <1>2, <1>3, <1>4, <1>5, <1>6

-----------------------------------------------------------------------------
(* Acquire, Release, finalize, connect and disconnect, one by one.         *)

(* The choice of a slot under the shared lock, and finding none.           *)
LEMMA SelectLock ==
    ASSUME TypeOK, TypeOK', LockInv, NEW a \in Actors, AcquireSelect(a)
    PROVE  LockInv'
<1> USE DEF LockInv
<1>1. UNCHANGED <<port, refCount, disconnecting>>
  BY DEF AcquireSelect, slotVars
<1>2. CASE Candidates(a) = {}
  <2>1. /\ pc' = [pc EXCEPT ![a] = AcquireFailed(a)]
        /\ UNCHANGED <<at, readers>>
    BY <1>2 DEF AcquireSelect, Goto
  <2>2. pc[a] = "acquire"
    BY DEF AcquireSelect
  <2>3. RoleLabels'
    BY <2>1, ActorKinds
    DEF RoleLabels, AcquireFailed, SenderLabels, ConnLabels, AliveLabels,
        KexLabels, TypeOK
  <2>4. pc'[a] \in {"failed", "connected", "done"}
    BY <2>1 DEF AcquireFailed, TypeOK
  <2>5. ReadersExact'
    BY <2>1, <2>2, <2>4 DEF ReadersExact, ReadLabels, TypeOK
  <2>6. a \in Conns => pc'[a] = "connected"
    BY <2>1, ActorKinds DEF AcquireFailed, TypeOK
  <2>7. SlotOwner' /\ OwnerSlot' /\ FreeSlotClean'
    BY <1>1, <2>1, <2>2, <2>6, ActorKinds
    DEF TypeOK, SlotOwner, OwnerSlot, FreeSlotClean, AliveLabels, ReadLabels,
        LeavingLabels
  <2>8. Occupied' /\ FinalizerSlot'
    BY <1>1, <2>1, <2>4
    DEF Occupied, FinalizerSlot, RefLabels, UseLabels, TypeOK
  <2>9. GoneNotRead'
    BY <1>1, <2>1, <2>2, <2>4, <2>6, ActorKinds
    DEF GoneNotRead, ReadLabels, TypeOK
  <2> QED BY <2>3, <2>5, <2>7, <2>8, <2>9
<1>3. CASE Candidates(a) # {}
  <2>1. PICK s \in Candidates(a) :
            /\ at' = [at EXCEPT ![a] = s]
            /\ readers' = readers \cup {a}
            /\ pc' = [pc EXCEPT ![a] = "increment"]
    BY <1>3 DEF AcquireSelect, Goto
  <2>2. pc[a] = "acquire"
    BY DEF AcquireSelect
  <2>3. /\ s \in Slots /\ port[s] # NULL /\ ~disconnecting[s]
        /\ a \in Conns => s = at[a]
    BY ActorKinds DEF Candidates, Lowest, Preferred, Connected
  <2>4. RoleLabels'
    BY <2>1, ActorKinds
    DEF RoleLabels, SenderLabels, ConnLabels, AliveLabels, KexLabels,
        KexEarlyLabels, ReadLabels, TypeOK
  <2>5. ReadersExact'
    BY <2>1 DEF ReadersExact, ReadLabels, TypeOK
  <2>6. SlotOwner' /\ OwnerSlot' /\ FreeSlotClean'
    BY <1>1, <2>1, <2>2, <2>3, ActorKinds
    DEF TypeOK, SlotOwner, OwnerSlot, FreeSlotClean, AliveLabels, ReadLabels,
        LeavingLabels
  <2>7. Occupied' /\ FinalizerSlot'
    BY <1>1, <2>1, <2>3 DEF Occupied, FinalizerSlot, TypeOK
  <2>8. GoneNotRead'
    BY <1>1, <2>1, <2>2, <2>3, ActorKinds
    DEF GoneNotRead, SlotOwner, LeavingLabels, ReadLabels, TypeOK
  <2> QED BY <2>4, <2>5, <2>6, <2>7, <2>8
<1> QED BY <1>2, <1>3

(* The steps of Acquire after the choice of the slot.                      *)
LEMMA AcquireLock ==
    ASSUME TypeOK, TypeOK', LockInv, NEW a \in Actors,
           AcquireIncrement(a) \/ AcquireRecheck(a) \/ AcquireUndo(a)
    PROVE  LockInv'
<1> USE DEF LockInv
<1>1. UNCHANGED <<port, disconnecting, at>> /\ pc[a] \in ReadLabels
  BY DEF AcquireIncrement, AcquireRecheck, AcquireUndo, slotVars, ReadLabels
<1>2. /\ pc' = [pc EXCEPT ![a] = pc'[a]]
      /\ pc'[a] \in {"recheck", "undo", "held", "failed", "connected", "done"}
      /\ a \in Senders => pc'[a] \in {"recheck", "undo", "held", "failed"}
      /\ a \in Conns => pc'[a] \in {"recheck", "undo", "held", "connected"}
      /\ a \in Kexers => pc'[a] \in {"recheck", "undo", "held", "done"}
  <2>1. CASE AcquireIncrement(a)
    BY <2>1 DEF AcquireIncrement, Goto, TypeOK
  <2>2. CASE AcquireRecheck(a)
    BY <2>2 DEF AcquireRecheck, Goto, TypeOK
  <2>3. CASE AcquireUndo(a)
    BY <2>3, ActorKinds DEF AcquireUndo, AcquireFailed, Goto, TypeOK
  <2> QED BY <2>1, <2>2, <2>3
<1>3. readers' = IF pc'[a] \in ReadLabels THEN readers ELSE readers \ {a}
  BY <1>2 DEF AcquireIncrement, AcquireRecheck, AcquireUndo, AcquireFailed,
              Goto, TypeOK, ReadLabels
<1>4. RoleLabels'
  BY <1>2, ActorKinds
  DEF RoleLabels, SenderLabels, ConnLabels, AliveLabels, KexLabels,
      KexEarlyLabels, RefLabels, UseLabels, ReadLabels, TypeOK
<1>5. ReadersExact'
  BY <1>1, <1>2, <1>3 DEF ReadersExact, TypeOK
<1>6. SlotOwner' /\ OwnerSlot' /\ FreeSlotClean'
  BY <1>1, <1>2, ActorKinds
  DEF TypeOK, SlotOwner, OwnerSlot, FreeSlotClean, AliveLabels, ReadLabels,
      LeavingLabels
<1>7. Occupied' /\ FinalizerSlot'
  BY <1>1, <1>2
  DEF Occupied, FinalizerSlot, ReadLabels, RefLabels, UseLabels, TypeOK
<1>8. GoneNotRead'
  BY <1>1, <1>2, ActorKinds DEF GoneNotRead, TypeOK
<1> QED BY <1>4, <1>5, <1>6, <1>7, <1>8

(* A connection that still has its baseline never drops the last reference *)
(* at the end of its drain.                                                *)
LEMMA ConnKeepsBaseline ==
    ASSUME TypeOK, RefInv, NEW p \in Clients, pc[Conn(p)] = "release"
    PROVE  refCount[at[Conn(p)]] >= 2
<1> DEFINE s == at[Conn(p)]
<1>1. s \in Slots /\ port[s] = p
  BY DEF RefInv, LockInv, OwnerSlot, AliveLabels
<1>2. Baseline(s)
  BY <1>1, ConstantsAssumption DEF Baseline
<1>3. Conn(p) \in Refs(s)
  BY ActorKinds DEF Refs, RefLabels, UseLabels
<1>4. Cardinality(Refs(s)) \in Nat /\ Cardinality(Refs(s)) # 0
  BY <1>3, RefsFinite, FS_EmptySet
<1>5. refCount[s] = 1 + Cardinality(Refs(s))
  BY <1>1, <1>2 DEF RefInv, RefCountExact
<1> QED BY <1>4, <1>5

(* The decrement of Release.                                               *)
LEMMA ReleaseLock ==
    ASSUME TypeOK, TypeOK', RefInv, NEW a \in Actors, ReleaseClientPort(a)
    PROVE  LockInv'
<1> USE DEF RefInv, LockInv
<1>1. UNCHANGED <<port, disconnecting, at, readers>> /\ pc[a] = "release"
  BY DEF ReleaseClientPort
<1>2. /\ pc' = [pc EXCEPT ![a] = pc'[a]]
      /\ pc'[a] \in {"finalize", "released", "connected", "close", "done"}
      /\ a \in Senders => pc'[a] \in {"finalize", "released"}
      /\ a \in Kexers => pc'[a] \in {"finalize", "close", "done"}
      /\ a \in Conns => pc'[a] \in {"finalize", "connected"}
  BY ActorKinds DEF ReleaseClientPort, Released, Goto, TypeOK
<1>3. a \in Conns => pc'[a] = "connected"
  <2> SUFFICES ASSUME a \in Conns PROVE pc'[a] = "connected"
    OBVIOUS
  <2>1. PICK p \in Clients : a = Conn(p)
    BY ActorKinds
  <2>2. refCount[at[a]] >= 2 /\ refCount[at[a]] \in Int
    BY <1>1, <2>1, ConnKeepsBaseline DEF TypeOK, OwnerSlot, AliveLabels
  <2>3. refCount[at[a]] - 1 # 0
    BY <2>2
  <2> QED BY <2>3, ActorKinds DEF ReleaseClientPort, Released, Goto, TypeOK
<1>4. RoleLabels'
  BY <1>2, <1>3, ActorKinds
  DEF RoleLabels, SenderLabels, ConnLabels, AliveLabels, KexLabels, TypeOK
<1>5. ReadersExact'
  BY <1>1, <1>2 DEF ReadersExact, ReadLabels, TypeOK
<1>6. SlotOwner' /\ OwnerSlot' /\ FreeSlotClean'
  BY <1>1, <1>2, <1>3, ActorKinds
  DEF TypeOK, SlotOwner, OwnerSlot, FreeSlotClean, AliveLabels, LeavingLabels
<1>7. Occupied' /\ FinalizerSlot'
  BY <1>1, <1>2 DEF Occupied, FinalizerSlot, RefLabels, UseLabels, TypeOK
<1>8. GoneNotRead'
  BY <1>1, <1>2, <1>3, ActorKinds DEF GoneNotRead, ReadLabels, TypeOK
<1> QED BY <1>4, <1>5, <1>6, <1>7, <1>8

(* A slot that can be finalized has no references left, and its connection *)
(* has dropped the baseline.                                               *)
LEMMA FinalizableFree ==
    ASSUME TypeOK, RefInv, NEW s \in Slots, Finalizable(s)
    PROVE  /\ Refs(s) = {}
           /\ port[s] \in Clients
           /\ pc[Conn(port[s])] \in {"reclaim", "gone"}
<1>1. refCount[s] = 0 /\ port[s] # NULL
  BY DEF Finalizable
<1>2. Cardinality(Refs(s)) \in Nat /\ IsFiniteSet(Refs(s))
  BY RefsFinite
<1>3. 0 = (IF Baseline(s) THEN 1 ELSE 0) + Cardinality(Refs(s))
  BY <1>1 DEF RefInv, RefCountExact
<1>4. ~Baseline(s) /\ Cardinality(Refs(s)) = 0
  BY <1>2, <1>3
<1>5. Refs(s) = {}
  BY <1>2, <1>4, FS_EmptySet
<1> QED BY <1>1, <1>4, <1>5 DEF Baseline, TypeOK

(* A finalize, whether it closes the port or finds the slot in use or      *)
(* already given back.                                                     *)
LEMMA FinalizeLock ==
    ASSUME TypeOK, TypeOK', RefInv, NEW a \in Actors,
           FinalizeClientDisconnect(a)
    PROVE  LockInv'
<1> USE DEF RefInv, LockInv
<1>1. /\ UNCHANGED <<at, readers>>
      /\ pc[a] \in {"finalize", "reclaim"}
      /\ at[a] \in Slots
  BY DEF FinalizeClientDisconnect, FinalizerSlot
<1>2. \A b \in Actors : pc[b] \notin ReadLabels
  BY DEF FinalizeClientDisconnect, FinalizeSlot, ReadersExact
<1>3. /\ a \in Conns <=> pc[a] = "reclaim"
      /\ a \notin Conns <=> pc[a] = "finalize"
  BY <1>1, ActorKinds
  DEF RoleLabels, SenderLabels, ConnLabels, KexLabels, KexEarlyLabels,
      AliveLabels, ReadLabels, RefLabels, UseLabels
<1>4. /\ pc' = [pc EXCEPT ![a] = pc'[a]]
      /\ pc'[a] \in {"gone", "released", "close", "done"}
      /\ a \in Senders => pc'[a] = "released"
      /\ a \in Kexers => pc'[a] \in {"close", "done"}
      /\ a \in Conns => pc'[a] = "gone"
  BY <1>1, <1>3, ActorKinds
  DEF FinalizeClientDisconnect, Released, Goto, TypeOK
<1>5. RoleLabels'
  BY <1>4, ActorKinds, SMTT(30)
  DEF RoleLabels, SenderLabels, ConnLabels, KexLabels, TypeOK
<1>6. ReadersExact' /\ \A b \in Actors : pc'[b] \notin ReadLabels
  BY <1>1, <1>2, <1>4 DEF ReadersExact, ReadLabels, TypeOK
<1>7. FinalizerSlot' /\ GoneNotRead'
  BY <1>1, <1>4, <1>6 DEF FinalizerSlot, GoneNotRead, TypeOK
<1>8. CASE Finalizable(at[a])
  <2> DEFINE s == at[a]
  <2>1. /\ Refs(s) = {} /\ port[s] \in Clients
        /\ pc[Conn(port[s])] \in {"reclaim", "gone"}
    BY <1>1, <1>8, FinalizableFree
  <2>2. /\ port' = [port EXCEPT ![s] = NULL]
        /\ disconnecting' = [disconnecting EXCEPT ![s] = FALSE]
    BY <1>8 DEF FinalizeClientDisconnect, FinalizeSlot
  <2>3. SlotOwner'
    BY <1>1, <1>3, <1>4, <2>2, ActorKinds
    DEF SlotOwner, TypeOK, AliveLabels, LeavingLabels
  <2>4. OwnerSlot'
    BY <1>1, <1>4, <2>1, <2>2, ActorKinds
    DEF OwnerSlot, TypeOK, AliveLabels, ReadLabels
  <2>5. FreeSlotClean'
    BY <1>1, <2>2 DEF FreeSlotClean, TypeOK
  <2>6. Occupied'
    <3> SUFFICES ASSUME NEW b \in Actors, pc'[b] \in RefLabels \cup {"increment"}
                 PROVE  at'[b] \in Slots /\ port'[at'[b]] # NULL
      BY DEF Occupied
    <3>1. b # a
      BY <1>4 DEF RefLabels, UseLabels
    <3>2. pc[b] \in RefLabels \cup {"increment"} /\ at'[b] = at[b]
      BY <1>1, <1>4, <3>1 DEF TypeOK
    <3>3. at[b] # s
      BY <1>2, <2>1, <3>2 DEF Refs, ReadLabels
    <3> QED BY <1>1, <2>2, <3>2, <3>3 DEF Occupied, TypeOK
  <2> QED BY <1>5, <1>6, <1>7, <2>3, <2>4, <2>5, <2>6
<1>9. CASE ~Finalizable(at[a])
  <2>1. UNCHANGED <<port, disconnecting>>
    BY <1>9 DEF FinalizeClientDisconnect, FinalizeSlot, slotVars
  <2>2. SlotOwner' /\ OwnerSlot' /\ FreeSlotClean'
    BY <1>1, <1>3, <1>4, <2>1, ActorKinds
    DEF SlotOwner, OwnerSlot, FreeSlotClean, TypeOK, AliveLabels, ReadLabels,
        LeavingLabels
  <2>3. Occupied'
    BY <1>1, <1>4, <2>1 DEF Occupied, TypeOK, RefLabels, UseLabels
  <2> QED BY <1>5, <1>6, <1>7, <2>2, <2>3
<1> QED BY <1>8, <1>9

(* A new connection takes a free slot, which nobody refers to.             *)
LEMMA ConnectLock ==
    ASSUME TypeOK, TypeOK', LockInv, KexOutcome, NEW p \in Clients,
           ConnectNotify(p)
    PROVE  LockInv'
<1> USE DEF LockInv
<1>1. pc[Conn(p)] = "off" /\ pc[Kex(p)] = "off" /\ readers' = readers
  BY DEF ConnectNotify, KexOutcome
<1>2. PICK s \in Lowest(FreeSlots) :
        /\ port' = [port EXCEPT ![s] = p]
        /\ disconnecting' = [disconnecting EXCEPT ![s] = FALSE]
        /\ at' = [at EXCEPT ![Conn(p)] = s, ![Kex(p)] = s]
  BY DEF ConnectNotify
<1>3. pc' = [pc EXCEPT ![Conn(p)] = "acquire", ![Kex(p)] = "acquire"]
  BY DEF ConnectNotify
<1>4. s \in Slots /\ port[s] = NULL
  BY DEF Lowest, FreeSlots
<1>5. /\ pc'[Conn(p)] = "acquire" /\ pc'[Kex(p)] = "acquire"
      /\ at'[Conn(p)] = s /\ at'[Kex(p)] = s
      /\ \A b \in Actors : b # Conn(p) /\ b # Kex(p) =>
             pc'[b] = pc[b] /\ at'[b] = at[b]
  BY <1>2, <1>3, ActorKinds, ActorNames DEF TypeOK
<1>6. /\ port'[s] = p /\ ~disconnecting'[s]
      /\ \A r \in Slots : r # s => port'[r] = port[r]
                                    /\ disconnecting'[r] = disconnecting[r]
  BY <1>2, <1>4 DEF TypeOK
<1>7. \A q \in Clients : q # p => Conn(q) # Conn(p) /\ Conn(q) # Kex(p)
                                  /\ Kex(q) # Conn(p) /\ Kex(q) # Kex(p)
  BY ActorNames
<1>8. RoleLabels'
  BY <1>5, <1>7, ActorKinds, ActorNames
  DEF RoleLabels, ConnLabels, AliveLabels, KexLabels, KexEarlyLabels
<1>9. ReadersExact'
  BY <1>1, <1>5 DEF ReadersExact, ReadLabels
<1>10. \A r \in Slots : port[r] # p
  BY <1>1, ConstantsAssumption DEF SlotOwner, AliveLabels, ReadLabels
<1>11. SlotOwner'
  BY <1>4, <1>5, <1>6, <1>7, <1>10, ActorKinds
  DEF SlotOwner, TypeOK, AliveLabels, LeavingLabels
<1>12. OwnerSlot'
  <2> SUFFICES ASSUME NEW q \in Clients, pc'[Conn(q)] \in AliveLabels
               PROVE  at'[Conn(q)] \in Slots /\ port'[at'[Conn(q)]] = q
    BY DEF OwnerSlot
  <2>1. CASE q = p
    BY <2>1, <1>4, <1>5, <1>6
  <2>2. CASE q # p
    <3>1. at'[Conn(q)] = at[Conn(q)] /\ at[Conn(q)] \in Slots
          /\ port[at[Conn(q)]] = q
      BY <2>2, <1>5, <1>7, ActorKinds DEF OwnerSlot
    <3>2. at[Conn(q)] # s
      BY <3>1, <1>4, ConstantsAssumption
    <3> QED BY <3>1, <3>2, <1>6
  <2> QED BY <2>1, <2>2
<1>13. FreeSlotClean'
  BY <1>4, <1>6, ConstantsAssumption DEF FreeSlotClean
<1>14. Occupied'
  BY <1>4, <1>5, <1>6, ConstantsAssumption DEF Occupied, RefLabels, UseLabels
<1>15. FinalizerSlot'
  BY <1>5 DEF FinalizerSlot
<1>16. GoneNotRead'
  <2>1. readers = {}
    BY DEF ConnectNotify
  <2> QED BY <2>1, <1>1, <1>9 DEF GoneNotRead, ReadersExact
<1> QED BY <1>8, <1>9, <1>11, <1>12, <1>13, <1>14, <1>15, <1>16

(* The two interlocked steps of DisconnectNotify.                          *)
LEMMA DisconnectLock ==
    ASSUME TypeOK, TypeOK', LockInv, NEW p \in Clients,
           DisconnectMark(p) \/ DisconnectDrop(p)
    PROVE  LockInv'
<1> USE DEF LockInv
<1> DEFINE a == Conn(p)
           s == at[a]
<1>1. a \in Actors /\ a \in Conns /\ a \notin Senders /\ a \notin Kexers
  BY ActorKinds
<1>2. /\ pc[a] \in {"connected", "dropBase"}
      /\ pc' = [pc EXCEPT ![a] = pc'[a]]
      /\ pc'[a] \in {"dropBase", "reclaim"}
      /\ UNCHANGED <<port, at, readers>>
      /\ disconnecting' \in {disconnecting,
                             [disconnecting EXCEPT ![s] = TRUE]}
      /\ pc[a] = "dropBase" => disconnecting' = disconnecting
      /\ pc[a] = "connected" =>
            /\ disconnecting' = [disconnecting EXCEPT ![s] = TRUE]
      /\ pc[a] = "connected" => pc'[a] = "dropBase"
  BY <1>1 DEF DisconnectMark, DisconnectDrop, Goto, TypeOK
<1>3. s \in Slots /\ port[s] = p
  BY <1>2 DEF OwnerSlot, AliveLabels
<1>4. RoleLabels'
  BY <1>1, <1>2, ActorKinds DEF RoleLabels, ConnLabels, AliveLabels, TypeOK
<1>5. ReadersExact'
  BY <1>1, <1>2 DEF ReadersExact, ReadLabels, TypeOK
<1>6. OwnerSlot'
  BY <1>1, <1>2, <1>3, ActorKinds DEF OwnerSlot, AliveLabels, TypeOK
<1>7. SlotOwner'
  <2> SUFFICES ASSUME NEW r \in Slots, port[r] # NULL
               PROVE  /\ at[Conn(port[r])] = r
                      /\ pc'[Conn(port[r])] \in AliveLabels \cup {"reclaim", "gone"}
                      /\ disconnecting'[r] <=> pc'[Conn(port[r])] \in LeavingLabels
    BY <1>2 DEF SlotOwner
  <2>1. CASE r = s
    <3>1. disconnecting'[s]
      BY <1>2, <1>3, ConstantsAssumption DEF SlotOwner, LeavingLabels, TypeOK
    <3> QED BY <1>1, <1>2, <1>3, <2>1, <3>1, ConstantsAssumption
            DEF SlotOwner, AliveLabels, LeavingLabels, TypeOK
  <2>2. CASE r # s
    <3>1. Conn(port[r]) # a
      BY <2>2 DEF SlotOwner
    <3>2. port[r] \in Clients
      BY DEF TypeOK
    <3>3. pc'[Conn(port[r])] = pc[Conn(port[r])]
      BY <1>2, <3>1, <3>2, ActorKinds DEF TypeOK
    <3>4. disconnecting'[r] = disconnecting[r]
      BY <1>2, <2>2 DEF TypeOK
    <3> QED BY <3>3, <3>4 DEF SlotOwner
  <2> QED BY <2>1, <2>2
<1>8. FreeSlotClean'
  <2>1. \A r \in Slots : r # s => disconnecting'[r] = disconnecting[r]
    BY <1>2 DEF TypeOK
  <2> QED BY <1>2, <1>3, <2>1, ConstantsAssumption DEF FreeSlotClean
<1>9. Occupied' /\ FinalizerSlot'
  BY <1>1, <1>2, <1>3
  DEF Occupied, FinalizerSlot, RefLabels, UseLabels, TypeOK
<1>10. GoneNotRead'
  BY <1>1, <1>2, ActorKinds DEF GoneNotRead, ReadLabels, TypeOK
<1> QED BY <1>4, <1>5, <1>6, <1>7, <1>8, <1>9, <1>10

-----------------------------------------------------------------------------
(* The reference count.                                                    *)

(* Before anything happens no slot has a reference.                        *)
LEMMA CountInit == Init => RefCountExact
<1> SUFFICES ASSUME Init, NEW s \in Slots
             PROVE  refCount[s] = (IF Baseline(s) THEN 1 ELSE 0)
                                  + Cardinality(Refs(s))
  BY DEF RefCountExact
<1>1. Refs(s) = {}
  BY DEF Init, Refs, RefLabels, UseLabels
<1>2. Cardinality(Refs(s)) = 0
  BY <1>1, FS_EmptySet
<1>3. ~Baseline(s) /\ refCount[s] = 0
  BY DEF Init, Baseline
<1> QED BY <1>2, <1>3

(* The count stays exact when neither it nor the references change.        *)
LEMMA SameRefs ==
    ASSUME RefCountExact,
           \A s \in Slots : /\ refCount'[s] = refCount[s]
                            /\ Refs(s)' = Refs(s)
                            /\ Baseline(s)' = Baseline(s)
    PROVE  RefCountExact'
  BY DEF RefCountExact, Slots

(* Quiet steps do not change them.                                         *)
LEMMA QuietCount ==
    ASSUME TypeOK, TypeOK', RefInv, NEW a \in Actors, QuietStep(a)
    PROVE  RefCountExact'
<1> USE DEF QuietStep
<1>1. \A s \in Slots : Refs(s)' = Refs(s)
  BY DEF Refs, RefLabels, ReadLabels
<1>2. \A s \in Slots : Baseline(s)' = Baseline(s)
  BY ActorKinds DEF Baseline, TypeOK
<1> QED BY <1>1, <1>2, SameRefs DEF RefInv

(* The choice of a slot does not count anybody in.                         *)
LEMMA SelectCount ==
    ASSUME TypeOK, TypeOK', RefInv, NEW a \in Actors, AcquireSelect(a)
    PROVE  RefCountExact'
<1>1. /\ UNCHANGED <<port, refCount>>
      /\ pc[a] = "acquire"
      /\ pc'[a] \in {"increment", "failed", "connected", "done"}
      /\ \A b \in Actors : b # a => pc'[b] = pc[b] /\ at'[b] = at[b]
  BY DEF AcquireSelect, AcquireFailed, Goto, slotVars, TypeOK
<1>2. \A s \in Slots : Refs(s)' = Refs(s)
  BY <1>1 DEF Refs, RefLabels, UseLabels
<1>3. \A s \in Slots : Baseline(s)' = Baseline(s)
  BY <1>1, ActorKinds DEF Baseline, TypeOK
<1> QED BY <1>1, <1>2, <1>3, SameRefs DEF RefInv

(* One actor counts itself in, or out, on its slot.                        *)
LEMMA OneRefChanges ==
    ASSUME TypeOK, TypeOK', RefCountExact, NEW a \in Actors, NEW s \in Slots,
           at[a] = s, at' = at, port' = port,
           \A b \in Actors : b # a => pc'[b] = pc[b],
           pc[a] \notin {"reclaim", "gone"},
           pc'[a] \notin {"reclaim", "gone"},
           \A r \in Slots : r # s => refCount'[r] = refCount[r],
           \/ /\ refCount'[s] = refCount[s] + 1
              /\ pc[a] \notin RefLabels /\ pc'[a] \in RefLabels
           \/ /\ refCount'[s] = refCount[s] - 1
              /\ pc[a] \in RefLabels /\ pc'[a] \notin RefLabels
    PROVE  RefCountExact'
<1>1. \A r \in Slots : Baseline(r)' = Baseline(r)
  BY ActorKinds DEF Baseline, TypeOK
<1>2. \A r \in Slots : r # s => Refs(r)' = Refs(r)
  BY DEF Refs
<1>3. \A r \in Slots : r # s =>
        refCount'[r] = (IF Baseline(r)' THEN 1 ELSE 0) + Cardinality(Refs(r)')
  BY <1>1, <1>2 DEF RefCountExact
<1>4. refCount'[s] = (IF Baseline(s)' THEN 1 ELSE 0) + Cardinality(Refs(s)')
  <2>1. IsFiniteSet(Refs(s)) /\ Cardinality(Refs(s)) \in Nat
    BY RefsFinite
  <2>2. refCount[s] = (IF Baseline(s) THEN 1 ELSE 0) + Cardinality(Refs(s))
    BY DEF RefCountExact
  <2>3. CASE pc[a] \notin RefLabels /\ pc'[a] \in RefLabels
    <3>1. Refs(s)' = Refs(s) \cup {a} /\ a \notin Refs(s)
      BY <2>3 DEF Refs
    <3>2. Cardinality(Refs(s)') = Cardinality(Refs(s)) + 1
      <4>1. Cardinality(Refs(s) \cup {a}) = Cardinality(Refs(s)) + 1
        BY <2>1, <3>1, FS_AddElement
      <4> QED BY <3>1, <4>1
    <3>3. refCount'[s] = refCount[s] + 1
      BY <2>3
    <3> QED BY <1>1, <2>1, <2>2, <3>2, <3>3
  <2>4. CASE pc[a] \in RefLabels /\ pc'[a] \notin RefLabels
    <3>1. Refs(s)' = Refs(s) \ {a} /\ a \in Refs(s)
      BY <2>4 DEF Refs
    <3>2. Cardinality(Refs(s)') = Cardinality(Refs(s)) - 1
      BY <2>1, <3>1, FS_RemoveElement
    <3>3. refCount'[s] = refCount[s] - 1
      BY <2>4
    <3> QED BY <1>1, <2>1, <2>2, <3>2, <3>3
  <2> QED BY <2>3, <2>4
<1> QED BY <1>3, <1>4 DEF RefCountExact, Slots

(* Acquire and Release.                                                    *)
LEMMA AcquireReleaseCount ==
    ASSUME TypeOK, TypeOK', RefInv, NEW a \in Actors,
           \/ AcquireIncrement(a) \/ AcquireRecheck(a) \/ AcquireUndo(a)
           \/ ReleaseClientPort(a)
    PROVE  RefCountExact'
<1> USE DEF RefInv
<1>1. at[a] \in Slots
  BY DEF LockInv, Occupied, RefLabels, UseLabels, AcquireIncrement,
         AcquireRecheck, AcquireUndo, ReleaseClientPort
<1>2. CASE AcquireIncrement(a)
  <2>1. /\ UNCHANGED <<port, at>> /\ pc[a] = "increment"
        /\ pc'[a] \in {"recheck", "undo"}
        /\ \A b \in Actors : b # a => pc'[b] = pc[b]
    BY <1>2 DEF AcquireIncrement, Goto, TypeOK
  <2>2. /\ refCount'[at[a]] = refCount[at[a]] + 1
        /\ \A r \in Slots : r # at[a] => refCount'[r] = refCount[r]
    BY <1>1, <1>2 DEF AcquireIncrement, TypeOK
  <2>3. pc[a] \notin RefLabels /\ pc'[a] \in RefLabels
    BY <2>1 DEF RefLabels, UseLabels
  <2> QED BY <1>1, <2>1, <2>2, <2>3, OneRefChanges
<1>3. CASE AcquireRecheck(a)
  <2>1. /\ UNCHANGED <<port, at, refCount>> /\ pc[a] = "recheck"
        /\ pc'[a] \in {"undo", "held"}
        /\ \A b \in Actors : b # a => pc'[b] = pc[b]
    BY <1>3 DEF AcquireRecheck, Goto, TypeOK, slotVars
  <2>2. \A s \in Slots : Refs(s)' = Refs(s)
    BY <2>1 DEF Refs, RefLabels, UseLabels
  <2>3. \A s \in Slots : Baseline(s)' = Baseline(s)
    BY <2>1, ActorKinds DEF Baseline, TypeOK
  <2> QED BY <2>1, <2>2, <2>3, SameRefs
<1>4. CASE AcquireUndo(a)
  <2>1. /\ UNCHANGED <<port, at>> /\ pc[a] = "undo"
        /\ pc'[a] \in {"failed", "connected", "done"}
        /\ \A b \in Actors : b # a => pc'[b] = pc[b]
    BY <1>4 DEF AcquireUndo, AcquireFailed, Goto, TypeOK
  <2>2. /\ refCount'[at[a]] = refCount[at[a]] - 1
        /\ \A r \in Slots : r # at[a] => refCount'[r] = refCount[r]
    BY <1>1, <1>4 DEF AcquireUndo, TypeOK
  <2>3. pc[a] \in RefLabels /\ pc'[a] \notin RefLabels
    BY <2>1 DEF RefLabels, UseLabels
  <2> QED BY <1>1, <2>1, <2>2, <2>3, OneRefChanges
<1>5. CASE ReleaseClientPort(a)
  <2>1. /\ UNCHANGED <<port, at>> /\ pc[a] = "release"
        /\ pc'[a] \in {"finalize", "released", "connected", "close", "done"}
        /\ \A b \in Actors : b # a => pc'[b] = pc[b]
    BY <1>5 DEF ReleaseClientPort, Released, Goto, TypeOK
  <2>2. /\ refCount'[at[a]] = refCount[at[a]] - 1
        /\ \A r \in Slots : r # at[a] => refCount'[r] = refCount[r]
    BY <1>1, <1>5 DEF ReleaseClientPort, TypeOK
  <2>3. pc[a] \in RefLabels /\ pc'[a] \notin RefLabels
    BY <2>1 DEF RefLabels, UseLabels
  <2> QED BY <1>1, <2>1, <2>2, <2>3, OneRefChanges
<1> QED BY <1>2, <1>3, <1>4, <1>5

(* A finalize leaves the count of an emptied slot at zero.                 *)
LEMMA FinalizeCount ==
    ASSUME TypeOK, TypeOK', RefInv, NEW a \in Actors,
           FinalizeClientDisconnect(a)
    PROVE  RefCountExact'
<1> USE DEF RefInv
<1>1. /\ at' = at /\ at[a] \in Slots
      /\ pc[a] \in {"finalize", "reclaim"}
      /\ pc'[a] \in {"gone", "released", "connected", "close", "done"}
      /\ pc[a] = "reclaim" => pc'[a] = "gone"
      /\ pc[a] = "finalize" => pc'[a] # "gone"
      /\ \A b \in Actors : b # a => pc'[b] = pc[b]
  BY DEF FinalizeClientDisconnect, Released, Goto, TypeOK, LockInv,
         FinalizerSlot
<1>2. \A s \in Slots : Refs(s)' = Refs(s)
  BY <1>1 DEF Refs, RefLabels, UseLabels
<1>3. \A p \in Clients : pc'[Conn(p)] \in {"reclaim", "gone"}
                     <=> pc[Conn(p)] \in {"reclaim", "gone"}
  BY <1>1, ActorKinds
<1>4. CASE Finalizable(at[a])
  <2>0. PICK s \in Slots : s = at[a]
    BY <1>1
  <2>1. Refs(s) = {}
    BY <1>4, <2>0, FinalizableFree
  <2>2. /\ port'[s] = NULL /\ refCount'[s] = 0
        /\ \A r \in Slots : r # s => port'[r] = port[r]
                                     /\ refCount'[r] = refCount[r]
    BY <1>4, <2>0 DEF FinalizeClientDisconnect, FinalizeSlot, TypeOK
  <2>3. \A r \in Slots : r # s => Baseline(r)' = Baseline(r)
    BY <1>3, <2>2 DEF Baseline, TypeOK
  <2>4. ~Baseline(s)' /\ Cardinality(Refs(s)') = 0
    BY <1>1, <1>2, <2>1, <2>2, FS_EmptySet DEF Baseline
  <2>5. refCount'[s] = (IF Baseline(s)' THEN 1 ELSE 0) + Cardinality(Refs(s)')
    BY <2>2, <2>4
  <2>6. \A r \in Slots : r # s =>
          refCount'[r] = (IF Baseline(r)' THEN 1 ELSE 0) + Cardinality(Refs(r)')
    BY <1>2, <2>2, <2>3 DEF RefCountExact
  <2> QED BY <2>5, <2>6 DEF RefCountExact, Slots
<1>5. CASE ~Finalizable(at[a])
  <2>1. UNCHANGED <<port, refCount>>
    BY <1>5 DEF FinalizeClientDisconnect, FinalizeSlot, slotVars
  <2>2. \A s \in Slots : Baseline(s)' = Baseline(s)
    BY <1>3, <2>1 DEF Baseline, TypeOK
  <2> QED BY <1>2, <2>1, <2>2, SameRefs
<1> QED BY <1>4, <1>5

(* A new connection starts with the baseline reference alone.              *)
LEMMA ConnectCount ==
    ASSUME TypeOK, TypeOK', RefInv, KexOutcome, NEW p \in Clients,
           ConnectNotify(p)
    PROVE  RefCountExact'
<1> USE DEF RefInv
<1>1. pc[Conn(p)] = "off" /\ pc[Kex(p)] = "off"
  BY DEF ConnectNotify, KexOutcome
<1>2. PICK s \in Lowest(FreeSlots) :
        /\ port' = [port EXCEPT ![s] = p]
        /\ refCount' = [refCount EXCEPT ![s] = 1]
        /\ at' = [at EXCEPT ![Conn(p)] = s, ![Kex(p)] = s]
  BY DEF ConnectNotify
<1>3. pc' = [pc EXCEPT ![Conn(p)] = "acquire", ![Kex(p)] = "acquire"]
  BY DEF ConnectNotify
<1>4. s \in Slots /\ port[s] = NULL
  BY DEF Lowest, FreeSlots
<1>5. /\ pc'[Conn(p)] = "acquire" /\ pc'[Kex(p)] = "acquire"
      /\ \A b \in Actors : b # Conn(p) /\ b # Kex(p) =>
             pc'[b] = pc[b] /\ at'[b] = at[b]
  BY <1>2, <1>3, ActorKinds, ActorNames DEF TypeOK
<1>6. /\ port'[s] = p /\ refCount'[s] = 1
      /\ \A r \in Slots : r # s => port'[r] = port[r]
                                   /\ refCount'[r] = refCount[r]
  BY <1>2, <1>4 DEF TypeOK
<1>7. \A r \in Slots : Refs(r)' = Refs(r)
  BY <1>1, <1>5 DEF Refs, RefLabels, UseLabels
<1>8. Refs(s) = {}
  BY <1>4 DEF LockInv, Occupied, Refs
<1>9. \A q \in Clients : pc'[Conn(q)] \in {"reclaim", "gone"}
                     <=> pc[Conn(q)] \in {"reclaim", "gone"}
  BY <1>1, <1>5, ActorKinds, ActorNames
<1>10. \A r \in Slots : r # s => Baseline(r)' = Baseline(r)
  BY <1>6, <1>9 DEF Baseline, TypeOK
<1>11. Baseline(s)' /\ Cardinality(Refs(s)') = 0
  <2>1. Cardinality(Refs(s)') = 0
    BY <1>4, <1>7, <1>8, FS_EmptySet
  <2>2. p # NULL
    BY ConstantsAssumption
  <2> QED BY <2>1, <2>2, <1>5, <1>6 DEF Baseline
<1>12. refCount'[s] = (IF Baseline(s)' THEN 1 ELSE 0) + Cardinality(Refs(s)')
  BY <1>6, <1>11
<1>13. \A r \in Slots : r # s =>
         refCount'[r] = (IF Baseline(r)' THEN 1 ELSE 0) + Cardinality(Refs(r)')
  BY <1>6, <1>7, <1>10 DEF RefCountExact
<1> QED BY <1>12, <1>13 DEF RefCountExact, Slots

(* DisconnectNotify drops the baseline, once.                              *)
LEMMA DisconnectCount ==
    ASSUME TypeOK, TypeOK', RefInv, NEW p \in Clients,
           DisconnectMark(p) \/ DisconnectDrop(p)
    PROVE  RefCountExact'
<1> USE DEF RefInv
<1> DEFINE a == Conn(p)
<1>1. a \in Actors
  BY ActorKinds
<1>2. PICK s \in Slots : s = at[a] /\ port[s] = p /\ p # NULL
  BY ConstantsAssumption
  DEF DisconnectMark, DisconnectDrop, LockInv, OwnerSlot, AliveLabels
<1>3. /\ UNCHANGED <<port, at>>
      /\ pc[a] \in {"connected", "dropBase"}
      /\ pc'[a] \in {"dropBase", "reclaim"}
      /\ \A b \in Actors : b # a => pc'[b] = pc[b]
  BY <1>1 DEF DisconnectMark, DisconnectDrop, Goto, TypeOK
<1>4. \A r \in Slots : Refs(r)' = Refs(r)
  BY <1>3 DEF Refs, RefLabels, UseLabels
<1>5. \A r \in Slots : r # s => Baseline(r)' = Baseline(r)
  <2> SUFFICES ASSUME NEW r \in Slots, r # s PROVE Baseline(r)' = Baseline(r)
    OBVIOUS
  <2>1. CASE port[r] = NULL
    BY <1>3, <2>1 DEF Baseline
  <2>2. CASE port[r] # NULL
    <3>1. Conn(port[r]) # a /\ Conn(port[r]) \in Actors
      BY <1>2, <2>2, ActorKinds DEF LockInv, SlotOwner, TypeOK
    <3> QED BY <1>3, <3>1 DEF Baseline
  <2> QED BY <2>1, <2>2
<1>6. CASE DisconnectMark(p)
  <2>1. refCount' = refCount /\ pc[a] = "connected" /\ pc'[a] = "dropBase"
    BY <1>6, <1>1 DEF DisconnectMark, Goto, TypeOK
  <2>2. Baseline(s)' = Baseline(s)
    BY <1>2, <1>3, <2>1 DEF Baseline
  <2> QED BY <1>4, <1>5, <2>1, <2>2, SameRefs
<1>7. CASE DisconnectDrop(p)
  <2>1. /\ pc[a] = "dropBase" /\ pc'[a] = "reclaim"
        /\ refCount'[s] = refCount[s] - 1
        /\ \A r \in Slots : r # s => refCount'[r] = refCount[r]
    BY <1>7, <1>1, <1>2 DEF DisconnectDrop, Goto, TypeOK
  <2>2. Baseline(s) /\ ~Baseline(s)'
    BY <1>2, <1>3, <2>1 DEF Baseline
  <2>3. refCount[s] = 1 + Cardinality(Refs(s))
    BY <1>2, <2>2 DEF RefCountExact
  <2>4. Cardinality(Refs(s)') = Cardinality(Refs(s))
        /\ Cardinality(Refs(s)) \in Nat
    BY <1>2, <1>4, RefsFinite
  <2>5. refCount'[s] = 0 + Cardinality(Refs(s)')
    BY <2>1, <2>3, <2>4
  <2>6. refCount'[s] = (IF Baseline(s)' THEN 1 ELSE 0) + Cardinality(Refs(s)')
    BY <2>2, <2>5
  <2>7. \A r \in Slots : r # s =>
          refCount'[r] = (IF Baseline(r)' THEN 1 ELSE 0) + Cardinality(Refs(r)')
    BY <1>4, <1>5, <2>1 DEF RefCountExact
  <2> QED BY <1>3, <2>6, <2>7 DEF RefCountExact, Slots
<1> QED BY <1>6, <1>7

-----------------------------------------------------------------------------
(* The key delivery and the closing of ports.                              *)

(* Before anything happens no key is delivered and no port closed.         *)
LEMMA KexInit == Init => KexInv
  BY ActorKinds
  DEF Init, KexInv, KexOutcome, ClosedPorts, EncryptedSlots, KexEarlyLabels,
      ReadLabels

(* Steps of one actor that touch no port, key or flag.                     *)
KexNeutral(a) ==
    /\ UNCHANGED <<port, encrypted, closes, kexSent, kexFailed>>
    /\ \A b \in Actors : b # a => pc'[b] = pc[b] /\ at'[b] = at[b]
    /\ a \in Conns => pc'[a] # "off"
    /\ a \in Kexers =>
          /\ pc[a] # "off"
          /\ pc'[a] \in KexEarlyLabels => pc[a] \in KexEarlyLabels
          /\ pc'[a] = "close" => a[2] \in kexFailed
          /\ pc'[a] = "send" => port[at'[a]] = a[2]
    /\ a \in Senders /\ pc'[a] \in {"limit", "over", "send"} =>
          encrypted[at'[a]]

(* They preserve what is known about keys and closed ports.                *)
LEMMA NeutralKex ==
    ASSUME TypeOK, KexInv, NEW a \in Actors, KexNeutral(a)
    PROVE  KexInv'
<1> USE DEF KexNeutral, KexInv
<1>1. KexOutcome'
  <2> SUFFICES ASSUME NEW p \in Clients
        PROVE /\ pc'[Conn(p)] = "off" => pc'[Kex(p)] = "off" /\ closes[p] = 0
              /\ pc'[Kex(p)] \in KexEarlyLabels => p \notin kexSent \cup kexFailed
              /\ p \notin kexSent \cap kexFailed
              /\ pc'[Kex(p)] = "close" => p \in kexFailed
              /\ pc'[Kex(p)] = "send" => port[at'[Kex(p)]] = p
    BY DEF KexOutcome
  <2>1. CASE a = Kex(p)
    BY <2>1, ActorKinds, ActorNames DEF KexOutcome
  <2>2. CASE a # Kex(p)
    BY <2>2, ActorKinds DEF KexOutcome
  <2> QED BY <2>1, <2>2
<1>2. ClosedPorts'
  BY DEF ClosedPorts
<1>3. EncryptedSlots'
  <2>1. \A t \in Threads : pc'[Send(t)] \in {"limit", "over", "send"} =>
           encrypted[at'[Send(t)]]
    BY ActorKinds DEF EncryptedSlots
  <2> QED BY <2>1 DEF EncryptedSlots
<1> QED BY <1>1, <1>2, <1>3

(* The steps of a send function, a refused connection, the drain and a     *)
(* disconnect are such steps.                                              *)
LEMMA SendNeutral ==
    ASSUME TypeOK, KexInv, NEW t \in Threads, SendCall(t) \/ SendStep(t)
    PROVE  KexNeutral(Send(t))
<1> USE ActorKinds
    DEF TypeOK, slotVars, kexVars, Goto, Return, KexNeutral
<1>0. /\ Send(t) \in Actors /\ Send(t) \notin Conns /\ Send(t) \notin Kexers
      /\ pc[Send(t)] \in {"limit", "over", "send"} => encrypted[at[Send(t)]]
  BY DEF KexInv, EncryptedSlots
<1>1. CASE SendScanRequest(t)
  BY <1>0, <1>1 DEF SendScanRequest
<1>2. CASE SendNotification(t)
  BY <1>0, <1>2 DEF SendNotification
<1>3. CASE SendProcessNotification(t)
  BY <1>0, <1>3 DEF SendProcessNotification
<1>4. CASE SendEncrypt(t)
  BY <1>0, <1>4 DEF SendEncrypt
<1>5. CASE SendDrop(t)
  BY <1>0, <1>5 DEF SendDrop
<1>6. CASE ProcessLimit(t)
  BY <1>0, <1>6 DEF ProcessLimit
<1>7. CASE ScanOverLimit(t)
  BY <1>0, <1>7 DEF ScanOverLimit
<1>8. CASE ProcessOverLimit(t)
  BY <1>0, <1>8 DEF ProcessOverLimit
<1>9. CASE SendReturns(t)
  BY <1>0, <1>9 DEF SendReturns
<1>10. CASE SendFailed(t)
  BY <1>0, <1>10 DEF SendFailed
<1>11. CASE SendDone(t)
  BY <1>0, <1>11 DEF SendDone
<1> QED
  BY <1>1, <1>2, <1>3, <1>4, <1>5, <1>6, <1>7, <1>8, <1>9, <1>10, <1>11
  DEF SendCall, SendStep

(* So are the callbacks of a connection other than the registration.       *)
LEMMA ConnNeutral ==
    ASSUME TypeOK, NEW p \in Clients,
           \/ ConnectDenied(p) \/ DrainMessageQueue(p)
           \/ DisconnectMark(p) \/ DisconnectDrop(p)
    PROVE  KexNeutral(Conn(p))
  BY ActorKinds
  DEF TypeOK, slotVars, kexVars, Goto, KexNeutral, ConnectDenied,
      DrainMessageQueue, DisconnectMark, DisconnectDrop

(* And Acquire and Release.                                                *)
LEMMA ReferenceNeutral ==
    ASSUME TypeOK, NEW a \in Actors,
           \/ AcquireSelect(a) \/ AcquireIncrement(a) \/ AcquireRecheck(a)
           \/ AcquireUndo(a) \/ ReleaseClientPort(a)
    PROVE  KexNeutral(a)
<1> USE ActorKinds, ActorNames
    DEF TypeOK, slotVars, kexVars, Goto, KexNeutral, KexEarlyLabels,
        ReadLabels
<1>1. CASE AcquireSelect(a)
  BY <1>1 DEF AcquireSelect, AcquireFailed
<1>2. CASE AcquireIncrement(a)
  BY <1>2 DEF AcquireIncrement
<1>3. CASE AcquireRecheck(a)
  BY <1>3 DEF AcquireRecheck
<1>4. CASE AcquireUndo(a)
  BY <1>4 DEF AcquireUndo, AcquireFailed
<1>5. CASE ReleaseClientPort(a)
  BY <1>5 DEF ReleaseClientPort, Released
<1> QED BY <1>1, <1>2, <1>3, <1>4, <1>5

(* The key delivery itself.                                                *)
LEMMA DeliveryKex ==
    ASSUME TypeOK, TypeOK', LockInv, KexInv, NEW p \in Clients, KexStep(p)
    PROVE  KexInv'
<1> USE DEF KexInv
<1>1. CASE KexCheckPort(p)
  <2>1. KexNeutral(Kex(p))
    BY <1>1, ActorKinds, ActorNames
    DEF KexCheckPort, KexNeutral, TypeOK, slotVars, kexVars, Goto,
        KexEarlyLabels
  <2> QED BY <2>1, NeutralKex, ActorKinds
<1>2. CASE KexDelivered(p) \/ KexTimedOut(p) \/ KexNotDelivered(p)
  <2> USE DEF KexDelivered, KexTimedOut, KexEstablish, KexNotDelivered
  <2>1. /\ pc[Kex(p)] = "send" /\ pc' = [pc EXCEPT ![Kex(p)] = "release"]
        /\ UNCHANGED <<port, closes, at>>
    BY <1>2 DEF Goto, slotVars
  <2>2. /\ pc'[Kex(p)] = "release"
        /\ \A b \in Actors : b # Kex(p) => pc'[b] = pc[b]
    BY <2>1, ActorKinds DEF TypeOK
  <2>3. /\ p \notin kexSent \cup kexFailed /\ port[at[Kex(p)]] = p
        /\ at[Kex(p)] \in Slots /\ pc[Conn(p)] # "off"
    BY <2>1, ActorKinds
    DEF KexOutcome, KexEarlyLabels, LockInv, Occupied, RefLabels, UseLabels
  <2>4. \/ kexSent' = kexSent \cup {p} /\ kexFailed' = kexFailed
        \/ kexSent' = kexSent /\ kexFailed' = kexFailed \cup {p}
    BY <1>2
  <2>5. KexOutcome'
    BY <2>1, <2>2, <2>3, <2>4, ActorKinds, ActorNames
    DEF KexOutcome, KexEarlyLabels, ReadLabels
  <2>6. ClosedPorts'
    BY <2>1, <2>4 DEF ClosedPorts
  <2>7. \/ encrypted' = encrypted
        \/ /\ encrypted' = [encrypted EXCEPT ![at[Kex(p)]] = TRUE]
           /\ kexSent' = kexSent \cup {p}
    BY <1>2 DEF slotVars
  <2>8. \A s \in Slots : encrypted'[s] => port[s] \in kexSent'
    BY <2>3, <2>4, <2>7 DEF EncryptedSlots, TypeOK
  <2>9. \A s \in Slots : encrypted[s] => encrypted'[s]
    BY <2>3, <2>7 DEF TypeOK
  <2>10. \A t \in Threads : pc'[Send(t)] \in {"limit", "over", "send"} =>
            encrypted'[at'[Send(t)]]
    BY <2>1, <2>2, <2>9, ActorKinds
    DEF EncryptedSlots, LockInv, Occupied, RefLabels, UseLabels
  <2>11. EncryptedSlots'
    BY <2>1, <2>8, <2>10 DEF EncryptedSlots
  <2> QED BY <2>5, <2>6, <2>11
<1>3. CASE KexClosePort(p)
  <2>1. /\ pc[Kex(p)] = "close" /\ pc' = [pc EXCEPT ![Kex(p)] = "done"]
        /\ closes' = [closes EXCEPT ![p] = @ + 1]
        /\ UNCHANGED <<port, encrypted, kexSent, kexFailed, at>>
    BY <1>3 DEF KexClosePort, Goto, slotVars, kexVars
  <2>2. /\ pc'[Kex(p)] = "done"
        /\ \A b \in Actors : b # Kex(p) => pc'[b] = pc[b]
        /\ \A q \in Clients : q # p => closes'[q] = closes[q]
    BY <2>1, ActorKinds DEF TypeOK
  <2>3. p \in kexFailed /\ pc[Conn(p)] # "off"
    BY <2>1 DEF KexOutcome
  <2>4. KexOutcome'
    BY <2>1, <2>2, <2>3, ActorKinds, ActorNames
    DEF KexOutcome, KexEarlyLabels, ReadLabels
  <2>5. ClosedPorts'
    BY <2>1, <2>2, <2>3 DEF ClosedPorts
  <2>6. EncryptedSlots'
    BY <2>1, <2>2, ActorKinds DEF EncryptedSlots
  <2> QED BY <2>4, <2>5, <2>6
<1> QED BY <1>1, <1>2, <1>3 DEF KexStep

(* A finalize closes a port that nobody uses and that is in no slot any    *)
(* more.                                                                   *)
LEMMA FinalizeKex ==
    ASSUME TypeOK, TypeOK', RefInv, KexInv, NEW a \in Actors,
           FinalizeClientDisconnect(a)
    PROVE  KexInv'
<1> USE DEF RefInv
<1>1. /\ UNCHANGED <<at, kexSent, kexFailed>> /\ at[a] \in Slots
      /\ pc[a] \in {"finalize", "reclaim"}
      /\ pc'[a] = IF pc[a] = "reclaim" THEN "gone" ELSE Released(a)
      /\ \A b \in Actors : b # a => pc'[b] = pc[b]
  BY DEF FinalizeClientDisconnect, Goto, TypeOK, LockInv, FinalizerSlot,
         kexVars
<1>2. /\ a \in Senders => pc'[a] = "released"
      /\ a \in Conns => pc'[a] \in {"gone", "connected"}
      /\ a \in Kexers => pc'[a] \in {"gone", "close", "done"}
      /\ a \in Kexers /\ pc'[a] = "close" => a[2] \in kexFailed
  BY <1>1, ActorKinds
  DEF Released, LockInv, RoleLabels, SenderLabels, RefLabels, UseLabels
<1>3. CASE ~Finalizable(at[a])
  <2>1. UNCHANGED <<port, encrypted, closes>>
    BY <1>3 DEF FinalizeClientDisconnect, FinalizeSlot, slotVars
  <2>2. KexNeutral(a)
    BY <1>1, <1>2, <2>1, ActorKinds DEF KexNeutral, KexEarlyLabels, ReadLabels
  <2> QED BY <2>2, NeutralKex
<1>4. CASE Finalizable(at[a])
  <2>0. PICK s \in Slots : s = at[a]
    BY <1>1
  <2>1. PICK q \in Clients : q = port[s]
    BY <1>4, <2>0, FinalizableFree
  <2>2. Refs(s) = {} /\ pc[Conn(q)] \in {"reclaim", "gone"}
    BY <1>4, <2>0, <2>1, FinalizableFree
  <2>3. /\ port' = [port EXCEPT ![s] = NULL]
        /\ encrypted' = [encrypted EXCEPT ![s] = FALSE]
        /\ closes' = [closes EXCEPT ![q] = @ + 1]
    BY <1>4, <2>0, <2>1 DEF FinalizeClientDisconnect, FinalizeSlot
  <2>4. /\ port'[s] = NULL /\ ~encrypted'[s]
        /\ \A r \in Slots : r # s =>
               port'[r] = port[r] /\ encrypted'[r] = encrypted[r]
        /\ \A p \in Clients : p # q => closes'[p] = closes[p]
    BY <2>3 DEF TypeOK
  <2>5. \A r \in Slots : port[r] = q => r = s
    BY <2>0, <2>1, ConstantsAssumption DEF LockInv, SlotOwner
  <2>6. pc'[Conn(q)] # "off"
    BY <1>1, <1>2, <2>2, ActorKinds
  <2>7. KexOutcome'
    <3> SUFFICES ASSUME NEW p \in Clients
          PROVE /\ pc'[Conn(p)] = "off" => pc'[Kex(p)] = "off" /\ closes'[p] = 0
                /\ pc'[Kex(p)] \in KexEarlyLabels => p \notin kexSent \cup kexFailed
                /\ p \notin kexSent \cap kexFailed
                /\ pc'[Kex(p)] = "close" => p \in kexFailed
                /\ pc'[Kex(p)] = "send" => port'[at[Kex(p)]] = p
      BY <1>1 DEF KexOutcome
    <3>1. /\ pc[Conn(p)] = "off" => pc[Kex(p)] = "off" /\ closes[p] = 0
          /\ pc[Kex(p)] \in KexEarlyLabels => p \notin kexSent \cup kexFailed
          /\ p \notin kexSent \cap kexFailed
          /\ pc[Kex(p)] = "close" => p \in kexFailed
          /\ pc[Kex(p)] = "send" => port[at[Kex(p)]] = p
      BY DEF KexInv, KexOutcome
    <3>2. pc'[Conn(p)] = "off" => pc'[Kex(p)] = "off" /\ closes'[p] = 0
      <4> SUFFICES ASSUME pc'[Conn(p)] = "off"
                   PROVE  pc'[Kex(p)] = "off" /\ closes'[p] = 0
        OBVIOUS
      <4>1. p # q /\ Conn(p) # a
        BY <1>2, <2>6, ActorKinds
      <4>2. pc[Conn(p)] = "off"
        BY <1>1, <4>1, ActorKinds
      <4>3. Kex(p) # a
        BY <1>1, <3>1, <4>2
      <4> QED BY <1>1, <2>4, <3>1, <4>1, <4>2, <4>3, ActorKinds
    <3>3. CASE a = Kex(p)
      BY <1>2, <3>1, <3>2, <3>3, ActorKinds, ActorNames
      DEF KexEarlyLabels, ReadLabels
    <3>4. CASE a # Kex(p)
      <4>1. pc'[Kex(p)] = pc[Kex(p)] /\ Kex(p) \in Actors
        BY <1>1, <3>4, ActorKinds
      <4>2. pc[Kex(p)] = "send" => at[Kex(p)] # s /\ at[Kex(p)] \in Slots
        BY <2>2, <4>1
        DEF Refs, RefLabels, UseLabels, LockInv, Occupied
      <4> QED BY <2>4, <3>1, <3>2, <4>1, <4>2
    <3> QED BY <3>3, <3>4
  <2>8. ClosedPorts'
    <3>1. \A r \in Slots : port'[r] # q
      BY <2>4, <2>5, ConstantsAssumption
    <3>2. \A p \in Clients, r \in Slots : port'[r] = p => port[r] = p
      BY <2>4, ConstantsAssumption
    <3> QED BY <1>1, <2>4, <3>1, <3>2 DEF KexInv, ClosedPorts
  <2>9. \A r \in Slots : encrypted'[r] => port'[r] \in kexSent'
    BY <1>1, <2>4 DEF KexInv, EncryptedSlots
  <2>10. \A t \in Threads : pc'[Send(t)] \in {"limit", "over", "send"} =>
            encrypted'[at'[Send(t)]]
    <3> SUFFICES ASSUME NEW t \in Threads,
                        pc'[Send(t)] \in {"limit", "over", "send"}
                 PROVE  encrypted'[at[Send(t)]]
      BY <1>1
    <3>1. Send(t) # a /\ Send(t) \in Actors
      BY <1>2, ActorKinds
    <3>2. pc[Send(t)] \in {"limit", "over", "send"}
      BY <1>1, <3>1
    <3>3. at[Send(t)] # s /\ at[Send(t)] \in Slots
      BY <2>2, <3>1, <3>2 DEF Refs, RefLabels, UseLabels, LockInv, Occupied
    <3> QED BY <2>4, <3>2, <3>3 DEF KexInv, EncryptedSlots
  <2> QED BY <2>7, <2>8, <2>9, <2>10 DEF KexInv, EncryptedSlots
<1> QED BY <1>3, <1>4

(* A new connection has an open port and no key yet.                       *)
LEMMA ConnectKex ==
    ASSUME TypeOK, TypeOK', RefInv, KexInv, NEW p \in Clients,
           ConnectNotify(p)
    PROVE  KexInv'
<1> USE DEF RefInv
<1>1. /\ pc[Conn(p)] = "off" /\ pc[Kex(p)] = "off" /\ closes[p] = 0
      /\ p \notin kexSent \cup kexFailed
  BY DEF ConnectNotify, KexInv, KexOutcome, KexEarlyLabels
<1>2. PICK s \in Lowest(FreeSlots) :
        /\ port' = [port EXCEPT ![s] = p]
        /\ encrypted' = [encrypted EXCEPT ![s] = FALSE]
        /\ at' = [at EXCEPT ![Conn(p)] = s, ![Kex(p)] = s]
  BY DEF ConnectNotify
<1>3. /\ pc' = [pc EXCEPT ![Conn(p)] = "acquire", ![Kex(p)] = "acquire"]
      /\ UNCHANGED <<closes, kexSent, kexFailed>>
  BY DEF ConnectNotify, kexVars
<1>4. s \in Slots /\ port[s] = NULL
  BY DEF Lowest, FreeSlots
<1>5. /\ pc'[Conn(p)] = "acquire" /\ pc'[Kex(p)] = "acquire"
      /\ \A b \in Actors : b # Conn(p) /\ b # Kex(p) =>
             pc'[b] = pc[b] /\ at'[b] = at[b]
  BY <1>2, <1>3, ActorKinds, ActorNames DEF TypeOK
<1>6. /\ port'[s] = p /\ ~encrypted'[s]
      /\ \A r \in Slots : r # s =>
             port'[r] = port[r] /\ encrypted'[r] = encrypted[r]
  BY <1>2, <1>4 DEF TypeOK
<1>7. \A b \in Actors : pc[b] \in RefLabels =>
        at[b] \in Slots /\ at[b] # s /\ b # Conn(p) /\ b # Kex(p)
  BY <1>1, <1>4 DEF LockInv, Occupied, RefLabels, UseLabels
<1>8. KexOutcome'
  <2> SUFFICES ASSUME NEW q \in Clients
        PROVE /\ pc'[Conn(q)] = "off" => pc'[Kex(q)] = "off" /\ closes[q] = 0
              /\ pc'[Kex(q)] \in KexEarlyLabels => q \notin kexSent \cup kexFailed
              /\ q \notin kexSent \cap kexFailed
              /\ pc'[Kex(q)] = "close" => q \in kexFailed
              /\ pc'[Kex(q)] = "send" => port'[at'[Kex(q)]] = q
    BY <1>3 DEF KexOutcome
  <2>1. CASE q = p
    BY <1>1, <1>5, <2>1
  <2>2. CASE q # p
    <3>1. /\ pc'[Conn(q)] = pc[Conn(q)] /\ pc'[Kex(q)] = pc[Kex(q)]
          /\ at'[Kex(q)] = at[Kex(q)]
      BY <1>5, <2>2, ActorKinds, ActorNames
    <3>2. pc[Kex(q)] = "send" => at[Kex(q)] # s /\ at[Kex(q)] \in Slots
      BY <1>7, ActorKinds DEF RefLabels, UseLabels
    <3> QED BY <1>6, <3>1, <3>2 DEF KexInv, KexOutcome
  <2> QED BY <2>1, <2>2
<1>9. ClosedPorts'
  BY <1>1, <1>3, <1>6 DEF KexInv, ClosedPorts
<1>10. \A r \in Slots : encrypted'[r] => port'[r] \in kexSent'
  BY <1>3, <1>6 DEF KexInv, EncryptedSlots
<1>11. \A t \in Threads : pc'[Send(t)] \in {"limit", "over", "send"} =>
            encrypted'[at'[Send(t)]]
  <2> SUFFICES ASSUME NEW t \in Threads,
                      pc'[Send(t)] \in {"limit", "over", "send"}
               PROVE  encrypted'[at'[Send(t)]]
    OBVIOUS
  <2>1. pc'[Send(t)] = pc[Send(t)] /\ at'[Send(t)] = at[Send(t)]
    BY <1>5, ActorKinds, ActorNames
  <2>2. at[Send(t)] # s /\ at[Send(t)] \in Slots
    BY <1>7, <2>1, ActorKinds DEF RefLabels, UseLabels
  <2> QED BY <1>6, <2>1, <2>2 DEF KexInv, EncryptedSlots
<1> QED BY <1>8, <1>9, <1>10, <1>11 DEF KexInv, EncryptedSlots

-----------------------------------------------------------------------------
(* Slots whose client is gone.                                             *)

(* The actors that will still give slot s back.                            *)
Reclaimers(s) ==
    Users(s) \cup {a \in Actors : pc[a] \in {"finalize", "reclaim"}
                                  /\ at[a] = s}

(* A slot stays somebody's job while nobody leaves and no client goes.     *)
LEMMA SameReclaimers ==
    ASSUME TypeOK, TypeOK', DeadSlotHasReclaimer,
           \A s \in Slots :
               port'[s] # NULL /\ pc'[Conn(port'[s])] = "gone" =>
                   /\ port[s] # NULL /\ pc[Conn(port[s])] = "gone"
                   /\ Reclaimers(s) \subseteq Reclaimers(s)'
    PROVE  DeadSlotHasReclaimer'
<1>1. \A s \in Slots : port'[s] # NULL /\ pc'[Conn(port'[s])] = "gone"
                           => Reclaimers(s)' # {}
  BY DEF DeadSlotHasReclaimer, Reclaimers
<1> QED BY <1>1 DEF DeadSlotHasReclaimer, Reclaimers, Slots

(* On a slot that is being given back and that no reader looks at, a       *)
(* positive count means that somebody uses it.                             *)
LEMMA CountMeansUsers ==
    ASSUME TypeOK, RefInv, NEW s \in Slots, ~Baseline(s), refCount[s] # 0,
           \A b \in Actors : at[b] = s => pc[b] \notin ReadLabels
    PROVE  Users(s) # {}
<1>1. Cardinality(Refs(s)) # 0
  <2>1. refCount[s] = 0 + Cardinality(Refs(s)) /\ Cardinality(Refs(s)) \in Nat
    BY RefsFinite DEF RefInv, RefCountExact
  <2> QED BY <2>1
<1>2. Refs(s) # {}
  BY <1>1, FS_EmptySet
<1> QED BY <1>2 DEF Refs, Users, RefLabels, ReadLabels

(* Quiet steps do not lose a reclaimer.                                    *)
LEMMA QuietReclaim ==
    ASSUME TypeOK, TypeOK', RefInv, DeadSlotHasReclaimer, NEW a \in Actors,
           QuietStep(a)
    PROVE  DeadSlotHasReclaimer'
<1> USE DEF QuietStep
<1>1. \A s \in Slots : Reclaimers(s) \subseteq Reclaimers(s)'
  BY DEF Reclaimers, Users
<1>2. \A p \in Clients : pc'[Conn(p)] = "gone" => pc[Conn(p)] = "gone"
  BY ActorKinds
<1> QED BY <1>1, <1>2, SameReclaimers DEF TypeOK

(* Neither do the steps of Acquire, the undo included.                     *)
LEMMA AcquireReclaim ==
    ASSUME TypeOK, TypeOK', RefInv, DeadSlotHasReclaimer, NEW a \in Actors,
           \/ AcquireSelect(a) \/ AcquireIncrement(a) \/ AcquireRecheck(a)
           \/ AcquireUndo(a)
    PROVE  DeadSlotHasReclaimer'
<1>1. /\ port' = port
      /\ pc[a] \in {"acquire", "increment", "recheck", "undo"}
      /\ pc'[a] # "gone"
      /\ \A b \in Actors : b # a => pc'[b] = pc[b] /\ at'[b] = at[b]
  BY DEF AcquireSelect, AcquireIncrement, AcquireRecheck, AcquireUndo,
         AcquireFailed, Goto, slotVars, TypeOK
<1>2. \A s \in Slots : Reclaimers(s) \subseteq Reclaimers(s)'
  BY <1>1 DEF Reclaimers, Users, UseLabels
<1>3. \A p \in Clients : pc'[Conn(p)] = "gone" => pc[Conn(p)] = "gone"
  BY <1>1, ActorKinds
<1> QED BY <1>1, <1>2, <1>3, SameReclaimers DEF TypeOK

(* Connecting and disconnecting.                                           *)
LEMMA ConnReclaim ==
    ASSUME TypeOK, TypeOK', RefInv, KexInv, DeadSlotHasReclaimer,
           NEW p \in Clients,
           ConnectNotify(p) \/ DisconnectMark(p) \/ DisconnectDrop(p)
    PROVE  DeadSlotHasReclaimer'
<1>1. /\ pc[Conn(p)] \in {"off", "connected", "dropBase"}
      /\ pc'[Conn(p)] \in {"acquire", "dropBase", "reclaim"}
      /\ \A b \in Actors : b # Conn(p) /\ b # Kex(p) =>
             pc'[b] = pc[b] /\ at'[b] = at[b]
      /\ \/ pc[Kex(p)] = "off"
         \/ pc'[Kex(p)] = pc[Kex(p)] /\ at'[Kex(p)] = at[Kex(p)]
  <2>1. CASE ConnectNotify(p)
    <3>1. pc[Conn(p)] = "off" /\ pc[Kex(p)] = "off"
      BY <2>1 DEF ConnectNotify, KexInv, KexOutcome
    <3>2. /\ pc'[Conn(p)] = "acquire"
          /\ \A b \in Actors : b # Conn(p) /\ b # Kex(p) =>
                 pc'[b] = pc[b] /\ at'[b] = at[b]
      BY <2>1, ActorKinds, ActorNames DEF ConnectNotify, TypeOK
    <3> QED BY <3>1, <3>2
  <2>2. CASE DisconnectMark(p) \/ DisconnectDrop(p)
    BY <2>2, ActorKinds, ActorNames
    DEF DisconnectMark, DisconnectDrop, Goto, TypeOK
  <2> QED BY <2>1, <2>2
<1>2. \A s \in Slots : port'[s] = port[s] \/ port'[s] = p
  BY DEF ConnectNotify, DisconnectMark, DisconnectDrop, TypeOK
<1>3. \A s \in Slots : Reclaimers(s) \subseteq Reclaimers(s)'
  BY <1>1 DEF Reclaimers, Users, UseLabels
<1>4. \A q \in Clients : pc'[Conn(q)] = "gone" => pc[Conn(q)] = "gone" /\ q # p
  BY <1>1, ActorKinds, ActorNames
<1> QED BY <1>2, <1>3, <1>4, SameReclaimers DEF TypeOK

(* The user that releases a dead slot finalizes it or leaves another user  *)
(* behind.                                                                 *)
LEMMA ReleaseReclaim ==
    ASSUME TypeOK, TypeOK', RefInv, RefCountExact', DeadSlotHasReclaimer,
           NEW a \in Actors, ReleaseClientPort(a), LockInv'
    PROVE  DeadSlotHasReclaimer'
<1>1. /\ UNCHANGED <<port, at>> /\ pc[a] = "release" /\ at[a] \in Slots
      /\ pc'[a] # "gone"
      /\ \A b \in Actors : b # a => pc'[b] = pc[b]
      /\ \A r \in Slots : r # at[a] => refCount'[r] = refCount[r]
      /\ refCount'[at[a]] = refCount[at[a]] - 1
      /\ refCount'[at[a]] = 0 => pc'[a] = "finalize"
  <2>1. at[a] \in Slots
    BY DEF RefInv, LockInv, Occupied, RefLabels, UseLabels, ReleaseClientPort
  <2> QED BY <2>1 DEF ReleaseClientPort, Released, Goto, TypeOK
<1> SUFFICES ASSUME NEW s \in Slots, port'[s] # NULL,
                    pc'[Conn(port'[s])] = "gone"
             PROVE  \/ Users(s)' # {}
                    \/ \E b \in Actors : pc'[b] \in {"finalize", "reclaim"}
                                          /\ at'[b] = s
  BY DEF DeadSlotHasReclaimer
<1>2. port[s] # NULL /\ port[s] \in Clients /\ pc[Conn(port[s])] = "gone"
  BY <1>1, ActorKinds DEF TypeOK
<1>3. CASE at[a] # s
  <2>1. Reclaimers(s) \subseteq Reclaimers(s)' /\ Reclaimers(s) # {}
    BY <1>1, <1>2, <1>3 DEF Reclaimers, Users, DeadSlotHasReclaimer
  <2> QED BY <2>1 DEF Reclaimers
<1>4. CASE at[a] = s /\ refCount'[s] = 0
  BY <1>1, <1>4
<1>5. CASE at[a] = s /\ refCount'[s] # 0
  <2>1. ~Baseline(s)'
    BY DEF Baseline
  <2>2. \A b \in Actors : at'[b] = s => pc'[b] \notin ReadLabels
    BY DEF LockInv, GoneNotRead
  <2>3. Cardinality(Refs(s))' # 0
    <3>1. refCount'[s] = 0 + Cardinality(Refs(s))'
      BY <2>1 DEF RefCountExact
    <3>2. Cardinality(Refs(s))' \in Nat
      <4>1. Refs(s)' \in SUBSET Actors
        BY DEF Refs
      <4> QED BY <4>1, RefsFinite, FS_Subset, FS_CardinalityType
    <3> QED BY <1>5, <3>1, <3>2
  <2>4. Refs(s)' # {}
    BY <2>3, FS_EmptySet
  <2> QED BY <2>2, <2>4 DEF Refs, Users, RefLabels, ReadLabels
<1> QED BY <1>3, <1>4, <1>5

(* A finalize that does not give the slot back found a user.               *)
LEMMA FinalizeReclaim ==
    ASSUME TypeOK, TypeOK', RefInv, DeadSlotHasReclaimer, NEW a \in Actors,
           FinalizeClientDisconnect(a)
    PROVE  DeadSlotHasReclaimer'
<1>1. /\ at' = at /\ at[a] \in Slots
      /\ pc[a] \in {"finalize", "reclaim"}
      /\ pc'[a] \notin {"finalize", "reclaim"}
      /\ pc[a] = "finalize" => pc'[a] # "gone"
      /\ \A b \in Actors : b # a => pc'[b] = pc[b]
      /\ \A b \in Actors : pc[b] \notin ReadLabels
  BY DEF FinalizeClientDisconnect, FinalizeSlot, Released, Goto, TypeOK,
         RefInv, LockInv, FinalizerSlot, ReadersExact
<1> SUFFICES ASSUME NEW s \in Slots, port'[s] # NULL,
                    pc'[Conn(port'[s])] = "gone"
             PROVE  \/ Users(s)' # {}
                    \/ \E b \in Actors : pc'[b] \in {"finalize", "reclaim"}
                                          /\ at'[b] = s
  BY DEF DeadSlotHasReclaimer
<1>2. /\ port'[s] = port[s]
      /\ s = at[a] => ~Finalizable(s) /\ refCount'[s] = refCount[s]
  BY <1>1 DEF FinalizeClientDisconnect, FinalizeSlot, slotVars, TypeOK
<1>3. port[s] \in Clients /\ pc[Conn(port[s])] \in {"gone", "reclaim"}
  BY <1>1, <1>2, ActorKinds DEF TypeOK
<1>4. disconnecting[s] /\ at[Conn(port[s])] = s
  BY <1>2, <1>3 DEF RefInv, LockInv, SlotOwner, LeavingLabels
<1>5. CASE at[a] = s
  <2>1. refCount[s] # 0 /\ ~Baseline(s)
    BY <1>2, <1>3, <1>4, <1>5 DEF Finalizable, Baseline
  <2>2. Users(s) # {}
    BY <1>1, <2>1, CountMeansUsers
  <2>3. Users(s) \subseteq Users(s)'
    BY <1>1 DEF Users, UseLabels
  <2> QED BY <2>2, <2>3
<1>6. CASE at[a] # s
  <2>1. pc[Conn(port[s])] = "gone"
    BY <1>1, <1>2, <1>3, <1>4, <1>6, ActorKinds
  <2>2. Reclaimers(s) # {}
    BY <1>2, <2>1 DEF DeadSlotHasReclaimer, Reclaimers
  <2>3. Reclaimers(s) \subseteq Reclaimers(s)'
    BY <1>1, <1>6 DEF Reclaimers, Users, UseLabels
  <2> QED BY <2>2, <2>3 DEF Reclaimers
<1> QED BY <1>5, <1>6

-----------------------------------------------------------------------------
(* The inductive invariant and what follows from it.                       *)

(* It holds at the start.                                                  *)
LEMMA InvInit == Init => IInv
<1> SUFFICES ASSUME Init PROVE IInv
  OBVIOUS
<1>1. DeadSlotHasReclaimer
  BY DEF Init, DeadSlotHasReclaimer
<1> QED BY <1>1, TypeInit, LockInit, CountInit, KexInit DEF IInv, RefInv

(* Every step preserves it.                                                *)
LEMMA InvStep == IInv /\ [Next]_vars => IInv'
<1> SUFFICES ASSUME IInv, [Next]_vars PROVE IInv'
  OBVIOUS
<1>0. TypeOK /\ RefInv /\ LockInv /\ RefCountExact /\ KexInv /\ KexOutcome
      /\ DeadSlotHasReclaimer
  BY DEF IInv, RefInv, KexInv
<1>1. TypeOK'
  BY <1>0, TypeStep DEF LockInv
<1>2. ASSUME NEW a \in Actors, ReferenceStep(a) PROVE IInv'
  <2>1. CASE AcquireSelect(a)
    BY <1>0, <1>1, <2>1, SelectLock, SelectCount, ReferenceNeutral,
       NeutralKex, AcquireReclaim DEF IInv, RefInv
  <2>2. CASE AcquireIncrement(a) \/ AcquireRecheck(a) \/ AcquireUndo(a)
    BY <1>0, <1>1, <2>2, AcquireLock, AcquireReleaseCount, ReferenceNeutral,
       NeutralKex, AcquireReclaim DEF IInv, RefInv
  <2>3. CASE ReleaseClientPort(a)
    BY <1>0, <1>1, <2>3, ReleaseLock, AcquireReleaseCount, ReferenceNeutral,
       NeutralKex, ReleaseReclaim DEF IInv, RefInv
  <2>4. CASE FinalizeClientDisconnect(a)
    BY <1>0, <1>1, <2>4, FinalizeLock, FinalizeCount, FinalizeKex,
       FinalizeReclaim DEF IInv, RefInv
  <2> QED BY <1>2, <2>1, <2>2, <2>3, <2>4 DEF ReferenceStep
<1>3. ASSUME NEW t \in Threads, SendCall(t) \/ SendStep(t) PROVE IInv'
  <2>1. QuietStep(Send(t)) /\ KexNeutral(Send(t)) /\ Send(t) \in Actors
    BY <1>0, <1>3, SendQuiet, SendNeutral, ActorKinds
  <2> QED BY <1>0, <1>1, <2>1, QuietLock, QuietCount, NeutralKex,
             QuietReclaim DEF IInv, RefInv
<1>4. ASSUME NEW p \in Clients, KexStep(p) PROVE IInv'
  <2>1. QuietStep(Kex(p)) /\ Kex(p) \in Actors
    BY <1>0, <1>4, KexQuiet, ActorKinds
  <2> QED BY <1>0, <1>1, <1>4, <2>1, QuietLock, QuietCount, DeliveryKex,
             QuietReclaim DEF IInv, RefInv
<1>5. ASSUME NEW p \in Clients, ConnectCall(p) \/ ConnectStep(p) PROVE IInv'
  <2>1. CASE ConnectDenied(p) \/ DrainMessageQueue(p)
    <3>1. QuietStep(Conn(p)) /\ KexNeutral(Conn(p)) /\ Conn(p) \in Actors
      BY <1>0, <2>1, ConnQuiet, ConnNeutral, ActorKinds
    <3> QED BY <1>0, <1>1, <3>1, QuietLock, QuietCount, NeutralKex,
               QuietReclaim DEF IInv, RefInv
  <2>2. CASE ConnectNotify(p)
    BY <1>0, <1>1, <2>2, ConnectLock, ConnectCount, ConnectKex, ConnReclaim
    DEF IInv, RefInv
  <2>3. CASE DisconnectMark(p) \/ DisconnectDrop(p)
    <3>1. KexNeutral(Conn(p)) /\ Conn(p) \in Actors
      BY <1>0, <2>3, ConnNeutral, ActorKinds
    <3> QED BY <1>0, <1>1, <2>3, <3>1, DisconnectLock, DisconnectCount,
               NeutralKex, ConnReclaim DEF IInv, RefInv
  <2> QED BY <1>5, <2>1, <2>2, <2>3 DEF ConnectCall, ConnectStep
<1>6. CASE UNCHANGED vars
  BY <1>0, <1>6
  DEF vars, slotVars, kexVars, queueVars, IInv, TypeOK, RefInv, LockInv,
      RoleLabels, ReadersExact, SlotOwner, OwnerSlot, FreeSlotClean, Occupied,
      FinalizerSlot, GoneNotRead, RefCountExact, Refs, Baseline, KexInv,
      KexOutcome, ClosedPorts, EncryptedSlots, DeadSlotHasReclaimer, Users
<1> QED BY <1>2, <1>3, <1>4, <1>5, <1>6 DEF Next

(* The invariant holds in every reachable state.                           *)
THEOREM InductiveInvariant == Spec => []IInv
  BY InvInit, InvStep, PTL DEF Spec

(* Type correctness of the slots, the counters and the actors.             *)
THEOREM TypeCorrect == Spec => []TypeOK
<1>1. IInv => TypeOK
  BY DEF IInv
<1> QED BY <1>1, InductiveInvariant, PTL

(* For any number of sending threads, connections and slots, a slot's      *)
(* ReferenceCount is the number of references that exist.                  *)
THEOREM RefCounting == Spec => []RefCountExact
<1>1. IInv => RefCountExact
  BY DEF IInv, RefInv
<1> QED BY <1>1, InductiveInvariant, PTL

(* No send ever uses a port that its slot has lost or that was closed.     *)
THEOREM SendsUseOpenPorts == Spec => []NoSendOnClosedPort
<1>1. IInv => NoSendOnClosedPort
  <2> SUFFICES ASSUME IInv, NEW a \in Actors, pc[a] = "send"
               PROVE  port[at[a]] # NULL /\ closes[port[at[a]]] = 0
    BY DEF NoSendOnClosedPort
  <2>1. at[a] \in Slots /\ port[at[a]] # NULL /\ port[at[a]] \in Clients
    BY DEF IInv, RefInv, LockInv, Occupied, RefLabels, UseLabels, TypeOK
  <2>2. port[at[a]] \notin kexFailed
    <3>1. CASE a \in Senders
      <4>1. encrypted[at[a]]
        BY <3>1, ActorKinds DEF IInv, KexInv, EncryptedSlots
      <4> QED BY <2>1, <4>1 DEF IInv, KexInv, EncryptedSlots, KexOutcome
    <3>2. CASE a \in Conns
      BY <3>2, ActorKinds
      DEF IInv, RefInv, LockInv, RoleLabels, ConnLabels, AliveLabels,
          ReadLabels
    <3>3. CASE a \in Kexers
      BY <3>3, ActorKinds DEF IInv, KexInv, KexOutcome, KexEarlyLabels
    <3> QED BY <3>1, <3>2, <3>3, ActorKinds
  <2> QED BY <2>1, <2>2 DEF IInv, KexInv, ClosedPorts
<1> QED BY <1>1, InductiveInvariant, PTL

(* A payload is only ever sent to a client that has its session key.       *)
THEOREM MandatoryEncryption == Spec => []PayloadOnlyAfterKex
<1>1. IInv => PayloadOnlyAfterKex
  BY DEF IInv, KexInv, EncryptedSlots, PayloadOnlyAfterKex
<1> QED BY <1>1, InductiveInvariant, PTL

(* A slot whose client is gone is never forgotten.                         *)
THEOREM NoSlotForgotten == Spec => []DeadSlotHasReclaimer
<1>1. IInv => DeadSlotHasReclaimer
  BY DEF IInv
<1> QED BY <1>1, InductiveInvariant, PTL

-----------------------------------------------------------------------------
(* The counters: connected clients and pending requests.                   *)

(* There are finitely many slots and threads, so that clients and requests *)
(* can be counted.                                                         *)
LEMMA SlotsFinite ==
    /\ \A S \in SUBSET Slots : IsFiniteSet(S) /\ Cardinality(S) \in Nat
    /\ \A S \in SUBSET Threads : IsFiniteSet(S) /\ Cardinality(S) \in Nat
<1>1. 0 \in Int /\ MaxConnections - 1 \in Int
  BY ConstantsAssumption
<1>2. IsFiniteSet(Slots)
  BY <1>1, FS_Interval DEF Slots
<1> QED BY <1>2, ConstantsAssumption, FS_Subset, FS_CardinalityType

(* A step other than a connect or a finalize neither fills nor empties a   *)
(* slot.                                                                   *)
LEMMA SameClients ==
    ASSUME [Next]_vars,
           ~ \E p \in Clients : ConnectNotify(p),
           ~ \E a \in Actors : FinalizeClientDisconnect(a)
    PROVE  UNCHANGED <<port, connectedClients>>
<1> USE DEF slotVars
<1>1. ASSUME NEW a \in Actors, ReferenceStep(a)
      PROVE  UNCHANGED <<port, connectedClients>>
  BY <1>1
  DEF ReferenceStep, AcquireSelect, AcquireIncrement, AcquireRecheck,
      AcquireUndo, ReleaseClientPort
<1>2. ASSUME NEW t \in Threads, SendCall(t) \/ SendStep(t)
      PROVE  UNCHANGED <<port, connectedClients>>
  BY <1>2
  DEF SendCall, SendStep, SendScanRequest, SendNotification,
      SendProcessNotification, SendEncrypt, SendDrop, ProcessLimit,
      ScanOverLimit, ProcessOverLimit, SendReturns, SendFailed, SendDone
<1>3. ASSUME NEW p \in Clients, ConnectCall(p) \/ ConnectStep(p) \/ KexStep(p)
      PROVE  UNCHANGED <<port, connectedClients>>
  BY <1>3
  DEF ConnectCall, ConnectStep, KexStep, ConnectDenied, DisconnectMark,
      DrainMessageQueue, DisconnectDrop, KexCheckPort, KexDelivered,
      KexTimedOut, KexEstablish, KexNotDelivered, KexClosePort
<1>4. CASE UNCHANGED vars
  BY <1>4 DEF vars
<1> QED BY <1>1, <1>2, <1>3, <1>4 DEF Next

(* A connect fills one free slot and counts it, a finalize empties an      *)
(* occupied one and counts it out.                                         *)
LEMMA ClientsStep ==
    IInv /\ ConnectedClientsExact /\ [Next]_vars => ConnectedClientsExact'
<1> SUFFICES ASSUME IInv, ConnectedClientsExact, [Next]_vars
             PROVE  ConnectedClientsExact'
  OBVIOUS
<1>1. /\ TypeOK /\ RefInv
      /\ connectedClients = Cardinality(OccupiedSlots)
      /\ OccupiedSlots \in SUBSET Slots
      /\ IsFiniteSet(OccupiedSlots) /\ Cardinality(OccupiedSlots) \in Nat
  BY SlotsFinite DEF IInv, ConnectedClientsExact, OccupiedSlots
<1>2. ASSUME NEW p \in Clients, ConnectNotify(p) PROVE ConnectedClientsExact'
  <2>1. PICK s \in Lowest(FreeSlots) : port' = [port EXCEPT ![s] = p]
    BY <1>2 DEF ConnectNotify
  <2>2. s \in Slots /\ port[s] = NULL
    BY DEF Lowest, FreeSlots
  <2>3. OccupiedSlots' = OccupiedSlots \cup {s} /\ s \notin OccupiedSlots
    BY <1>1, <2>1, <2>2, ConstantsAssumption DEF OccupiedSlots, TypeOK
  <2>4. connectedClients' = connectedClients + 1
    BY <1>2 DEF ConnectNotify
  <2> QED BY <1>1, <2>3, <2>4, FS_AddElement DEF ConnectedClientsExact
<1>3. ASSUME NEW a \in Actors, FinalizeClientDisconnect(a)
      PROVE  ConnectedClientsExact'
  <2> DEFINE s == at[a]
  <2>1. s \in Slots /\ FinalizeSlot(s)
    BY <1>1, <1>3
    DEF FinalizeClientDisconnect, RefInv, LockInv, FinalizerSlot
  <2>2. CASE Finalizable(s)
    <3>1. port' = [port EXCEPT ![s] = NULL] /\ port[s] # NULL
      BY <2>1, <2>2 DEF FinalizeSlot, Finalizable
    <3>2. OccupiedSlots' = OccupiedSlots \ {s} /\ s \in OccupiedSlots
      BY <1>1, <2>1, <3>1 DEF OccupiedSlots, TypeOK
    <3>3. Cardinality(OccupiedSlots \ {s}) = Cardinality(OccupiedSlots) - 1
      BY <1>1, <3>2, FS_RemoveElement
    <3>4. Cardinality(OccupiedSlots) # 0
      BY <1>1, <3>2, FS_EmptySet
    <3>5. connectedClients' = connectedClients - 1
      BY <1>1, <2>1, <2>2, <3>4 DEF FinalizeSlot
    <3> QED BY <1>1, <3>2, <3>3, <3>5 DEF ConnectedClientsExact
  <2>3. CASE ~Finalizable(s)
    <3>1. UNCHANGED <<port, connectedClients>>
      BY <2>1, <2>3 DEF FinalizeSlot, slotVars
    <3> QED BY <1>1, <3>1 DEF ConnectedClientsExact, OccupiedSlots
  <2> QED BY <2>2, <2>3
<1>4. CASE /\ ~ \E p \in Clients : ConnectNotify(p)
           /\ ~ \E a \in Actors : FinalizeClientDisconnect(a)
  <2>1. UNCHANGED <<port, connectedClients>>
    BY <1>4, SameClients
  <2> QED BY <1>1, <2>1 DEF ConnectedClientsExact, OccupiedSlots
<1> QED BY <1>2, <1>3, <1>4

(* The step of a thread that changes the label of its send function and,   *)
(* perhaps, the function it runs.                                          *)
ThreadMoves(t, label, function) ==
    /\ \A u \in Threads : pc'[Send(u)] = IF u = t THEN label ELSE pc[Send(u)]
    /\ \A u \in Threads : op'[u] = IF u = t THEN function ELSE op[u]

(* Where a send function counts requests, or has just to decide about one. *)
RequestLabels == {"idle", "full", "limit", "over", "send"}

(* The steps inside Acquire and Release, of the callbacks and of the key   *)
(* delivery leave the requests alone.                                      *)
LEMMA NoRequest ==
    ASSUME TypeOK, RoleLabels, NEW a \in Actors,
           \/ ReferenceStep(a)
           \/ \E p \in Clients :
                 ConnectCall(p) \/ ConnectStep(p) \/ KexStep(p)
    PROVE  /\ UNCHANGED <<op, pending>>
           /\ \A t \in Threads :
                 \/ pc'[Send(t)] = pc[Send(t)]
                 \/ /\ pc[Send(t)] \notin RequestLabels
                    /\ pc'[Send(t)] \notin RequestLabels
<1> USE ActorKinds, ActorNames DEF TypeOK, slotVars, Goto, RequestLabels
<1>1. CASE AcquireSelect(a)
  BY <1>1 DEF AcquireSelect, AcquireFailed
<1>2. CASE AcquireIncrement(a)
  BY <1>2 DEF AcquireIncrement
<1>3. CASE AcquireRecheck(a)
  BY <1>3 DEF AcquireRecheck
<1>4. CASE AcquireUndo(a)
  BY <1>4 DEF AcquireUndo, AcquireFailed
<1>5. CASE ReleaseClientPort(a)
  BY <1>5 DEF ReleaseClientPort, Released
<1>6. CASE FinalizeClientDisconnect(a)
  BY <1>6 DEF FinalizeClientDisconnect, Released
<1>7. ASSUME NEW p \in Clients, ConnectCall(p) \/ ConnectStep(p) \/ KexStep(p)
      PROVE  /\ UNCHANGED <<op, pending>>
             /\ \A t \in Threads : pc'[Send(t)] = pc[Send(t)]
  BY <1>7
  DEF ConnectCall, ConnectStep, KexStep, ConnectNotify, ConnectDenied,
      DisconnectMark, DrainMessageQueue, DisconnectDrop, KexCheckPort,
      KexDelivered, KexTimedOut, KexEstablish, KexNotDelivered, KexClosePort
<1> QED
  BY <1>1, <1>2, <1>3, <1>4, <1>5, <1>6, <1>7 DEF ReferenceStep

(* RequestShape and PendingAccounting are kept by a thread that counts its *)
(* request in, that counts it out, and that does neither.                  *)
RequestInv == RequestShape /\ PendingAccounting

(* Counting a request in: it is not yet compared with the limit, or below. *)
LEMMA CountedIn ==
    ASSUME TypeOK, PendingAccounting, NEW t \in Threads,
           t \notin Counted, Counted' = Counted \cup {t},
           pending' = pending + 1,
           \/ PastLimit' = PastLimit
           \/ pending + 1 <= MaxPendingRequests
    PROVE  PendingAccounting'
<1>1. /\ Counted \in SUBSET Threads /\ Counted' \in SUBSET Threads
      /\ PastLimit' \in SUBSET Counted'
  BY DEF Counted, PastLimit
<1>2. /\ IsFiniteSet(Counted) /\ Cardinality(Counted) \in Nat
      /\ IsFiniteSet(Counted') /\ Cardinality(Counted') \in Nat
  BY <1>1, SlotsFinite
<1>3. Cardinality(Counted') = Cardinality(Counted) + 1
  BY <1>2, FS_AddElement
<1>4. Cardinality(PastLimit') <= Cardinality(Counted')
      /\ Cardinality(PastLimit') \in Nat
  BY <1>1, <1>2, FS_Subset, FS_CardinalityType
<1> QED
  BY <1>2, <1>3, <1>4, ConstantsAssumption DEF PendingAccounting, TypeOK

(* Giving the count back.                                                  *)
LEMMA CountedOut ==
    ASSUME TypeOK, PendingAccounting, NEW t \in Threads,
           t \in Counted, Counted' = Counted \ {t}, pending' = pending - 1,
           PastLimit' \subseteq PastLimit
    PROVE  PendingAccounting'
<1>1. Counted \in SUBSET Threads /\ PastLimit \in SUBSET Threads
  BY DEF Counted, PastLimit
<1>2. /\ IsFiniteSet(Counted) /\ Cardinality(Counted) \in Nat
      /\ IsFiniteSet(PastLimit) /\ Cardinality(PastLimit) \in Nat
  BY <1>1, SlotsFinite
<1>3. Cardinality(Counted') = Cardinality(Counted) - 1
  BY <1>2, FS_RemoveElement
<1>4. Cardinality(PastLimit') <= Cardinality(PastLimit)
      /\ Cardinality(PastLimit') \in Nat
  BY <1>2, FS_Subset, FS_CardinalityType
<1> QED
  BY <1>2, <1>3, <1>4, ConstantsAssumption DEF PendingAccounting, TypeOK

(* Neither.                                                                *)
LEMMA CountedSame ==
    ASSUME PendingAccounting, Counted' = Counted, PastLimit' = PastLimit,
           pending' = pending
    PROVE  PendingAccounting'
BY DEF PendingAccounting

(* The steps of a send function itself.                                    *)
LEMMA SendRequests ==
    ASSUME TypeOK, RequestInv, NEW t \in Threads, SendCall(t) \/ SendStep(t)
    PROVE  RequestInv'
<1> USE ActorKinds, ActorNames DEF TypeOK, Goto, Return, RequestInv
<1>1. CASE SendScanRequest(t)
  <2>1. PICK l \in {"full", "acquire"} :
            /\ ThreadMoves(t, l, "scan")
            /\ l = "acquire" => pending + 1 <= MaxPendingRequests
    BY <1>1, ConstantsAssumption DEF SendScanRequest, ThreadMoves
  <2>2. pc[Send(t)] = "idle" /\ pending' = pending + 1
    BY <1>1 DEF SendScanRequest
  <2>3. RequestShape'
    BY <2>1, <2>2 DEF RequestShape, ThreadMoves
  <2>4. t \notin Counted /\ Counted' = Counted \cup {t}
    BY <2>1, <2>2 DEF Counted, RequestShape, ThreadMoves
  <2>5. l = "full" => PastLimit' = PastLimit
    BY <2>1, <2>2, <2>4 DEF PastLimit, Counted, ThreadMoves
  <2> QED BY <2>1, <2>2, <2>3, <2>4, <2>5, CountedIn
<1>2. CASE SendNotification(t) \/ SendProcessNotification(t)
  <2>1. PICK f \in {"notify", "process"} : ThreadMoves(t, "acquire", f)
    BY <1>2 DEF SendNotification, SendProcessNotification, ThreadMoves
  <2>2. pc[Send(t)] = "idle" /\ pending' = pending
    BY <1>2 DEF SendNotification, SendProcessNotification
  <2>3. RequestShape'
    BY <2>1, <2>2 DEF RequestShape, ThreadMoves
  <2>4. Counted' = Counted /\ PastLimit' = PastLimit
    BY <2>1, <2>2 DEF Counted, PastLimit, RequestShape, ThreadMoves
  <2> QED BY <2>2, <2>3, <2>4, CountedSame
<1>3. CASE SendEncrypt(t) \/ SendDrop(t)
  <2>1. PICK l \in {"limit", "send", "release"} :
            /\ ThreadMoves(t, l, op[t])
            /\ l = "limit" => op[t] = "process"
            /\ l = "send" => op[t] # "process"
    BY <1>3 DEF SendEncrypt, SendDrop, ThreadMoves
  <2>2. pc[Send(t)] = "held" /\ pending' = pending
    BY <1>3 DEF SendEncrypt, SendDrop
  <2>3. RequestShape'
    BY <2>1, <2>2 DEF RequestShape, ThreadMoves
  <2>4. Counted' = Counted /\ PastLimit' = PastLimit
    BY <2>1, <2>2 DEF Counted, PastLimit, RequestShape, ThreadMoves
  <2> QED BY <2>2, <2>3, <2>4, CountedSame
<1>4. CASE ProcessLimit(t)
  <2>1. PICK l \in {"over", "send"} :
            /\ ThreadMoves(t, l, op[t])
            /\ l = "send" => pending + 1 <= MaxPendingRequests
    BY <1>4, ConstantsAssumption DEF ProcessLimit, ThreadMoves
  <2>2. /\ pc[Send(t)] = "limit" /\ pending' = pending + 1
        /\ op[t] = "process"
    BY <1>4 DEF ProcessLimit, RequestShape
  <2>3. RequestShape'
    BY <2>1, <2>2 DEF RequestShape, ThreadMoves
  <2>4. t \notin Counted /\ Counted' = Counted \cup {t}
    BY <2>1, <2>2 DEF Counted, ThreadMoves
  <2>5. l = "over" => PastLimit' = PastLimit
    BY <2>1, <2>2, <2>4 DEF PastLimit, Counted, ThreadMoves
  <2> QED BY <2>1, <2>2, <2>3, <2>4, <2>5, CountedIn
<1>5. CASE ScanOverLimit(t)
  <2>1. /\ ThreadMoves(t, "idle", "none")
        /\ pc[Send(t)] = "full" /\ pending' = pending - 1
    BY <1>5 DEF ScanOverLimit, ThreadMoves
  <2>2. RequestShape'
    BY <2>1 DEF RequestShape, ThreadMoves
  <2>3. t \in Counted /\ Counted' = Counted \ {t}
    BY <2>1 DEF Counted, RequestShape, ThreadMoves
  <2>4. PastLimit' \subseteq PastLimit
    BY <2>1, <2>3 DEF PastLimit, Counted, ThreadMoves
  <2> QED BY <2>1, <2>2, <2>3, <2>4, CountedOut
<1>6. CASE ProcessOverLimit(t)
  <2>1. /\ ThreadMoves(t, "release", op[t])
        /\ pc[Send(t)] = "over" /\ pending' = pending - 1
    BY <1>6 DEF ProcessOverLimit, ThreadMoves
  <2>2. RequestShape'
    BY <2>1 DEF RequestShape, ThreadMoves
  <2>3. t \in Counted /\ Counted' = Counted \ {t}
    BY <2>1 DEF Counted, RequestShape, ThreadMoves
  <2>4. PastLimit' \subseteq PastLimit
    BY <2>1, <2>3 DEF PastLimit, Counted, ThreadMoves
  <2> QED BY <2>1, <2>2, <2>3, <2>4, CountedOut
<1>7. CASE SendReturns(t)
  <2>1. /\ ThreadMoves(t, "release", op[t]) /\ pc[Send(t)] = "send"
        /\ pending' = IF op[t] = "process" THEN pending - 1 ELSE pending
    BY <1>7 DEF SendReturns, ThreadMoves
  <2>2. RequestShape'
    BY <2>1 DEF RequestShape, ThreadMoves
  <2>3. CASE op[t] = "process"
    <3>1. t \in Counted /\ Counted' = Counted \ {t}
      BY <2>1, <2>3 DEF Counted, ThreadMoves
    <3>2. PastLimit' \subseteq PastLimit
      BY <2>1, <3>1 DEF PastLimit, Counted, ThreadMoves
    <3> QED BY <2>1, <2>2, <2>3, <3>1, <3>2, CountedOut
  <2>4. CASE op[t] # "process"
    <3>1. Counted' = Counted /\ PastLimit' = PastLimit
      BY <2>1, <2>4 DEF Counted, PastLimit, ThreadMoves
    <3> QED BY <2>1, <2>2, <2>4, <3>1, CountedSame
  <2> QED BY <2>3, <2>4
<1>8. CASE SendFailed(t) \/ SendDone(t)
  <2>1. /\ ThreadMoves(t, "idle", "none")
        /\ pc[Send(t)] \in {"failed", "released"}
        /\ pending' = IF op[t] = "scan" THEN pending - 1 ELSE pending
    BY <1>8 DEF SendFailed, SendDone, ThreadMoves
  <2>2. RequestShape'
    BY <2>1 DEF RequestShape, ThreadMoves
  <2>3. CASE op[t] = "scan"
    <3>1. t \in Counted /\ Counted' = Counted \ {t}
      BY <2>1, <2>3 DEF Counted, ThreadMoves
    <3>2. PastLimit' \subseteq PastLimit
      BY <2>1, <3>1 DEF PastLimit, Counted, ThreadMoves
    <3> QED BY <2>1, <2>2, <2>3, <3>1, <3>2, CountedOut
  <2>4. CASE op[t] # "scan"
    <3>1. Counted' = Counted /\ PastLimit' = PastLimit
      BY <2>1, <2>4 DEF Counted, PastLimit, ThreadMoves
    <3> QED BY <2>1, <2>2, <2>4, <3>1, CountedSame
  <2> QED BY <2>3, <2>4
<1> QED
  BY <1>1, <1>2, <1>3, <1>4, <1>5, <1>6, <1>7, <1>8 DEF SendCall, SendStep

(* Every step keeps the accounting.                                        *)
LEMMA RequestStep == IInv /\ RequestInv /\ [Next]_vars => RequestInv'
<1> SUFFICES ASSUME IInv, RequestInv, [Next]_vars PROVE RequestInv'
  OBVIOUS
<1>1. TypeOK /\ RoleLabels
  BY DEF IInv, RefInv, LockInv
<1>2. ASSUME UNCHANGED <<op, pending>>,
             \A t \in Threads :
                 \/ pc'[Send(t)] = pc[Send(t)]
                 \/ /\ pc[Send(t)] \notin RequestLabels
                    /\ pc'[Send(t)] \notin RequestLabels
      PROVE  RequestInv'
  <2>1. Counted' = Counted
    BY <1>2 DEF Counted, RequestLabels
  <2>2. PastLimit' = PastLimit
    BY <1>2, <2>1 DEF PastLimit, Counted, RequestLabels
  <2>3. RequestShape'
    BY <1>2 DEF RequestInv, RequestShape, RequestLabels
  <2> QED BY <1>2, <2>1, <2>2, <2>3, CountedSame DEF RequestInv
<1>3. ASSUME NEW t \in Threads, SendCall(t) \/ SendStep(t) PROVE RequestInv'
  BY <1>1, <1>3, SendRequests
<1>4. ASSUME NEW a \in Actors, ReferenceStep(a) PROVE RequestInv'
  BY <1>1, <1>2, <1>4, NoRequest
<1>5. ASSUME NEW p \in Clients, ConnectCall(p) \/ ConnectStep(p) \/ KexStep(p)
      PROVE  RequestInv'
  BY <1>1, <1>2, <1>5, NoRequest, ActorKinds
<1>6. CASE UNCHANGED vars
  BY <1>2, <1>6 DEF vars
<1> QED BY <1>3, <1>4, <1>5, <1>6 DEF Next

(* Nobody is connected and no request is under way at first.               *)
LEMMA CountersInit == Init => ConnectedClientsExact /\ RequestInv
<1> SUFFICES ASSUME Init PROVE ConnectedClientsExact /\ RequestInv
  OBVIOUS
<1>1. OccupiedSlots = {}
  BY DEF Init, OccupiedSlots
<1>2. RequestShape /\ Counted = {}
  BY ActorKinds DEF Init, RequestShape, Counted
<1>3. PastLimit = {}
  BY <1>2 DEF PastLimit
<1>4. connectedClients = 0 /\ pending = 0
  BY DEF Init
<1> QED
  BY <1>1, <1>2, <1>3, <1>4, FS_EmptySet, ConstantsAssumption
  DEF ConnectedClientsExact, RequestInv, PendingAccounting

(* ConnectedClients, which the fast paths of the driver read without the   *)
(* lock, is the number of occupied slots, for any number of slots and      *)
(* clients.                                                                *)
THEOREM ClientsCounted == Spec => []ConnectedClientsExact
BY CountersInit, ClientsStep, InductiveInvariant, PTL DEF Spec

(* Every path of every send function gives its pending count back, and the *)
(* limit bounds the requests that are under way.                           *)
THEOREM RequestsCounted == Spec => []PendingAccounting
<1>1. RequestInv => PendingAccounting
  BY DEF RequestInv
<1> QED BY <1>1, CountersInit, RequestStep, InductiveInvariant, PTL DEF Spec

-----------------------------------------------------------------------------
(* The slots implement PortLifetime.                                       *)

(* The refinement mapping, port by port.                                   *)
UsersOf(p) == UNION {Users(s) : s \in SlotsOf(p)}

(* The users of a port are the actors that use the slot it is in.          *)
LEMMA PortUsers ==
    \A p : UsersOf(p) = {a \in Actors : /\ pc[a] \in UseLabels
                                        /\ at[a] \in Slots
                                        /\ port[at[a]] = p}
BY DEF UsersOf, Users, SlotsOf

(* Where the callbacks of a connection are tells the phase of its port,    *)
(* but for the moment of its reclamation.                                  *)
LEMMA PhaseOfLabel ==
    ASSUME TypeOK, RefInv, NEW p \in Clients
    PROVE  PortPhase(p) =
             IF pc[Conn(p)] \in {"off", "denied"} THEN "absent"
             ELSE IF pc[Conn(p)] \notin LeavingLabels THEN "live"
             ELSE IF \E s \in Slots : port[s] = p THEN "draining"
             ELSE "closed"
<1> USE DEF RefInv, LockInv
<1>1. pc[Conn(p)] \in ConnLabels
  BY DEF RoleLabels
<1>2. \A s \in Slots : port[s] = p =>
         disconnecting[s] <=> pc[Conn(p)] \in LeavingLabels
  BY ConstantsAssumption DEF SlotOwner
<1>3. pc[Conn(p)] \in AliveLabels => \E s \in Slots : port[s] = p
  BY DEF OwnerSlot
<1>4. pc[Conn(p)] \in AliveLabels <=>
        pc[Conn(p)] \notin {"off", "denied", "reclaim", "gone"}
  BY <1>1 DEF ConnLabels, AliveLabels, ReadLabels
<1>5. SlotsOf(p) = {s \in Slots : port[s] = p}
  BY DEF SlotsOf
<1> HIDE DEF RefInv, LockInv
<1> QED BY <1>2, <1>3, <1>4, <1>5 DEF PortPhase, LeavingLabels

(* A step that changes neither map.                                        *)
LifeSame == \A p \in Clients : /\ PortPhase(p)' = PortPhase(p)
                               /\ UsersOf(p)' = UsersOf(p)

(* One that changes the phase of one port, and one that changes its users. *)
PhaseMoves(p, before, after) ==
    /\ PortPhase(p) = before /\ PortPhase(p)' = after
    /\ \A q \in Clients : q # p => PortPhase(q)' = PortPhase(q)
    /\ \A q \in Clients : UsersOf(q)' = UsersOf(q)

UsersMove(p, after) ==
    /\ UsersOf(p)' = after
    /\ \A q \in Clients : q # p => UsersOf(q)' = UsersOf(q)
    /\ \A q \in Clients : PortPhase(q)' = PortPhase(q)

LifeStep == Lifetime!LifeNext \/ UNCHANGED Lifetime!lifeVars

(* The steps of PortLifetime under the mapping.                            *)
LEMMA LifeSteps ==
    /\ LifeSame => LifeStep
    /\ \A p \in Clients :
          /\ PhaseMoves(p, "absent", "live") => LifeStep
          /\ PhaseMoves(p, "live", "draining") => LifeStep
          /\ PhaseMoves(p, "draining", "closed") /\ UsersOf(p) = {} => LifeStep
          /\ \A a \in Actors :
                /\ /\ PortPhase(p) = "live" /\ a \notin UsersOf(p)
                   /\ UsersMove(p, UsersOf(p) \cup {a})
                   => LifeStep
                /\ a \in UsersOf(p) /\ UsersMove(p, UsersOf(p) \ {a})
                   => LifeStep
<1> DEFINE phase == [p \in Clients |-> PortPhase(p)]
           users == [p \in Clients |-> UsersOf(p)]
<1>1. ASSUME LifeSame PROVE LifeStep
  <2>1. phase' = phase /\ users' = users
    BY <1>1 DEF LifeSame
  <2> QED BY <2>1 DEF LifeStep, Lifetime!lifeVars, UsersOf
<1>2. ASSUME NEW p \in Clients, PhaseMoves(p, "absent", "live") PROVE LifeStep
  <2>1. /\ phase' = [phase EXCEPT ![p] = "live"] /\ users' = users
        /\ phase[p] = "absent"
    BY <1>2 DEF PhaseMoves
  <2>2. Lifetime!Open(p)
    BY <2>1 DEF Lifetime!Open, UsersOf
  <2> QED BY <2>2 DEF LifeStep, Lifetime!LifeNext
<1>3. ASSUME NEW p \in Clients, PhaseMoves(p, "live", "draining")
      PROVE  LifeStep
  <2>1. /\ phase' = [phase EXCEPT ![p] = "draining"] /\ users' = users
        /\ phase[p] = "live"
    BY <1>3 DEF PhaseMoves
  <2>2. Lifetime!Disconnect(p)
    BY <2>1 DEF Lifetime!Disconnect, UsersOf
  <2> QED BY <2>2 DEF LifeStep, Lifetime!LifeNext
<1>4. ASSUME NEW p \in Clients, PhaseMoves(p, "draining", "closed"),
             UsersOf(p) = {}
      PROVE  LifeStep
  <2>1. /\ phase' = [phase EXCEPT ![p] = "closed"] /\ users' = users
        /\ phase[p] = "draining" /\ users[p] = {}
    BY <1>4 DEF PhaseMoves
  <2>2. Lifetime!Reclaim(p)
    BY <2>1 DEF Lifetime!Reclaim, UsersOf
  <2> QED BY <2>2 DEF LifeStep, Lifetime!LifeNext
<1>5. ASSUME NEW p \in Clients, NEW a \in Actors, PortPhase(p) = "live",
             a \notin UsersOf(p), UsersMove(p, UsersOf(p) \cup {a})
      PROVE  LifeStep
  <2>1. /\ users' = [users EXCEPT ![p] = @ \cup {a}] /\ phase' = phase
        /\ phase[p] = "live" /\ a \notin users[p]
    BY <1>5 DEF UsersMove
  <2>2. Lifetime!Enter(p, a)
    BY <2>1 DEF Lifetime!Enter, UsersOf
  <2> QED BY <2>2 DEF LifeStep, Lifetime!LifeNext
<1>6. ASSUME NEW p \in Clients, NEW a \in Actors, a \in UsersOf(p),
             UsersMove(p, UsersOf(p) \ {a})
      PROVE  LifeStep
  <2>1. /\ users' = [users EXCEPT ![p] = @ \ {a}] /\ phase' = phase
        /\ a \in users[p]
    BY <1>6 DEF UsersMove
  <2>2. Lifetime!Leave(p, a)
    BY <2>1 DEF Lifetime!Leave, UsersOf
  <2> QED BY <2>2 DEF LifeStep, Lifetime!LifeNext
<1> QED BY <1>1, <1>2, <1>3, <1>4, <1>5, <1>6

(* The phase of every port by the label of its connection.                 *)
PhaseAt(p) ==
    IF pc[Conn(p)] \in {"off", "denied"} THEN "absent"
    ELSE IF pc[Conn(p)] \notin LeavingLabels THEN "live"
    ELSE IF \E s \in Slots : port[s] = p THEN "draining"
    ELSE "closed"

PhasesKnown == \A p \in Clients : PortPhase(p) = PhaseAt(p)

(* It is that in every state, so also after a step.                        *)
LEMMA PhasesBefore == TypeOK /\ RefInv => PhasesKnown
BY PhaseOfLabel DEF PhasesKnown, PhaseAt

(* The same of the next state.                                             *)
LEMMA PhasesAfter == (TypeOK /\ RefInv => PhasesKnown)'
BY PhasesBefore, PTL

(* A step that leaves the ports in their slots, and every user and every   *)
(* connection where it was, changes nothing.                               *)
SameUsers ==
    \A b \in Actors : /\ pc'[b] \in UseLabels <=> pc[b] \in UseLabels
                      /\ pc[b] \in UseLabels => at'[b] = at[b]

SameConnections ==
    \A q \in Clients :
        /\ pc'[Conn(q)] \in {"off", "denied"} <=>
              pc[Conn(q)] \in {"off", "denied"}
        /\ pc'[Conn(q)] \in LeavingLabels <=> pc[Conn(q)] \in LeavingLabels

(* Then no port changes its phase.                                         *)
LEMMA SamePhases ==
    ASSUME PhasesKnown, PhasesKnown', port' = port, SameConnections
    PROVE  \A p \in Clients : PortPhase(p)' = PortPhase(p)
BY DEF PhasesKnown, SameConnections, PhaseAt

(* And no port its users.                                                  *)
LEMMA SameUserSets ==
    ASSUME port' = port, SameUsers
    PROVE  \A p \in Clients : UsersOf(p)' = UsersOf(p)
<1> SUFFICES ASSUME NEW p \in Clients PROVE UsersOf(p)' = UsersOf(p)
  OBVIOUS
<1>1. UsersOf(p)' = {a \in Actors : /\ pc'[a] \in UseLabels
                                    /\ at'[a] \in Slots /\ port'[at'[a]] = p}
  BY DEF UsersOf, Users, SlotsOf
<1> QED BY <1>1, PortUsers DEF SameUsers

(* Steps of an actor that is not about to change hands.                    *)
LEMMA QuietLife ==
    ASSUME PhasesKnown, PhasesKnown', TypeOK, NEW a \in Actors, QuietStep(a)
    PROVE  LifeStep
<1>1. SameUsers
  BY DEF SameUsers, QuietStep
<1>2. SameConnections
  BY ActorKinds, ActorNames
  DEF SameConnections, QuietStep, LeavingLabels
<1>3. port' = port
  BY DEF QuietStep
<1> QED BY <1>1, <1>2, <1>3, SamePhases, SameUserSets, LifeSteps DEF LifeSame

(* The steps of Acquire before its outcome is known, and its undo.         *)
LEMMA SelectLife ==
    ASSUME PhasesKnown, PhasesKnown', TypeOK, NEW a \in Actors,
           \/ AcquireSelect(a) \/ AcquireIncrement(a) \/ AcquireUndo(a)
           \/ AcquireRecheck(a) /\ disconnecting[at[a]]
    PROVE  LifeStep
<1>1. /\ port' = port
      /\ pc[a] \in {"acquire", "increment", "undo", "recheck"}
      /\ pc'[a] \in {"increment", "recheck", "undo", "failed", "connected",
                     "done"}
      /\ \A b \in Actors : b # a => pc'[b] = pc[b] /\ at'[b] = at[b]
  BY DEF AcquireSelect, AcquireIncrement, AcquireUndo, AcquireRecheck,
         AcquireFailed, TypeOK, slotVars, Goto
<1>2. SameUsers
  BY <1>1 DEF SameUsers, UseLabels
<1>3. SameConnections
  BY <1>1, ActorKinds, ActorNames DEF SameConnections, LeavingLabels
<1> QED BY <1>1, <1>2, <1>3, SamePhases, SameUserSets, LifeSteps DEF LifeSame

(* The recheck that succeeds admits a user while its port is live.         *)
LEMMA EnterLife ==
    ASSUME PhasesKnown, PhasesKnown', TypeOK, RefInv, NEW a \in Actors,
           AcquireRecheck(a), ~disconnecting[at[a]]
    PROVE  LifeStep
<1> DEFINE p == port[at[a]]
<1>1. /\ port' = port /\ at' = at /\ pc[a] = "recheck" /\ pc'[a] = "held"
      /\ \A b \in Actors : b # a => pc'[b] = pc[b]
  BY DEF AcquireRecheck, TypeOK, slotVars, Goto
<1>2. at[a] \in Slots /\ p \in Clients
  BY <1>1 DEF RefInv, LockInv, Occupied, RefLabels, TypeOK
<1>3. PortPhase(p) = "live"
  <2>1. /\ pc[Conn(p)] \in AliveLabels \cup {"reclaim", "gone"}
        /\ pc[Conn(p)] \notin LeavingLabels
    BY <1>2, ConstantsAssumption DEF RefInv, LockInv, SlotOwner
  <2> QED BY <1>2, <2>1 DEF PhasesKnown, PhaseAt, AliveLabels, ReadLabels,
                            LeavingLabels
<1>4. SameConnections
  BY <1>1, ActorKinds, ActorNames DEF SameConnections, LeavingLabels
<1>5. a \notin UsersOf(p)
  BY <1>1, PortUsers DEF UseLabels
<1>6. ASSUME NEW q \in Clients
      PROVE  UsersOf(q)' = IF q = p THEN UsersOf(p) \cup {a} ELSE UsersOf(q)
  <2>1. UsersOf(q)' = {b \in Actors : /\ pc'[b] \in UseLabels
                                      /\ at'[b] \in Slots /\ port'[at'[b]] = q}
    BY DEF UsersOf, Users, SlotsOf
  <2> QED BY <1>1, <1>2, <2>1, PortUsers DEF UseLabels
<1>7. UsersMove(p, UsersOf(p) \cup {a})
  BY <1>1, <1>2, <1>4, <1>6, SamePhases DEF UsersMove
<1> QED BY <1>2, <1>3, <1>5, <1>7, LifeSteps

(* A release lets a user out.                                              *)
LEMMA LeaveLife ==
    ASSUME PhasesKnown, PhasesKnown', TypeOK, RefInv, NEW a \in Actors,
           ReleaseClientPort(a)
    PROVE  LifeStep
<1> DEFINE p == port[at[a]]
<1>1. /\ port' = port /\ at' = at /\ pc[a] = "release"
      /\ pc'[a] \in {"finalize", "released", "connected", "close", "done"}
      /\ \A b \in Actors : b # a => pc'[b] = pc[b]
  BY DEF ReleaseClientPort, Released, TypeOK, Goto
<1>2. at[a] \in Slots /\ p \in Clients
  BY <1>1 DEF RefInv, LockInv, Occupied, RefLabels, UseLabels, TypeOK
<1>3. SameConnections
  BY <1>1, ActorKinds, ActorNames DEF SameConnections, LeavingLabels
<1>4. a \in UsersOf(p)
  BY <1>1, <1>2, PortUsers DEF UseLabels
<1>5. ASSUME NEW q \in Clients
      PROVE  UsersOf(q)' = IF q = p THEN UsersOf(p) \ {a} ELSE UsersOf(q)
  <2>1. UsersOf(q)' = {b \in Actors : /\ pc'[b] \in UseLabels
                                      /\ at'[b] \in Slots /\ port'[at'[b]] = q}
    BY DEF UsersOf, Users, SlotsOf
  <2> QED BY <1>1, <1>2, <2>1, PortUsers DEF UseLabels
<1>6. UsersMove(p, UsersOf(p) \ {a})
  BY <1>1, <1>2, <1>3, <1>5, SamePhases DEF UsersMove
<1> QED BY <1>2, <1>4, <1>6, LifeSteps

(* The finalization of a slot reclaims its port when the last user has     *)
(* left, and is nothing otherwise.                                         *)
LEMMA FinalizeLife ==
    ASSUME PhasesKnown, PhasesKnown', TypeOK, RefInv, NEW a \in Actors,
           FinalizeClientDisconnect(a)
    PROVE  LifeStep
<1>0. PICK s \in Slots : s = at[a]
  BY DEF FinalizeClientDisconnect, RefInv, LockInv, FinalizerSlot
<1>1. /\ at' = at /\ pc[a] \in {"finalize", "reclaim"}
      /\ pc'[a] \in {"gone", "released", "connected", "close", "done"}
      /\ pc[a] = "reclaim" => pc'[a] = "gone"
      /\ \A b \in Actors : b # a => pc'[b] = pc[b]
  BY DEF FinalizeClientDisconnect, Released, TypeOK, Goto
<1>2. SameUsers
  BY <1>1 DEF SameUsers, UseLabels
<1>3. SameConnections
  <2>1. a \in Conns => pc[a] = "reclaim"
    BY <1>1, ActorKinds
    DEF RefInv, LockInv, RoleLabels, ConnLabels, AliveLabels, ReadLabels
  <2> QED BY <1>1, <2>1, ActorKinds, ActorNames
          DEF SameConnections, LeavingLabels
<1>4. CASE Finalizable(s)
  <2>0. PICK p \in Clients : p = port[s]
    BY <1>4, FinalizableFree
  <2>1. Refs(s) = {} /\ pc[Conn(p)] \in {"reclaim", "gone"}
    BY <1>4, <2>0, FinalizableFree
  <2>2. port' = [port EXCEPT ![s] = NULL]
    BY <1>0, <1>4 DEF FinalizeClientDisconnect, FinalizeSlot
  <2>3. \A r \in Slots : port'[r] = IF r = s THEN NULL ELSE port[r]
    BY <2>2 DEF TypeOK
  <2>4. \A r \in Slots : port[r] = p => r = s
    BY <2>0, ConstantsAssumption DEF RefInv, LockInv, SlotOwner
  <2>5. PortPhase(p) = "draining"
    BY <2>0, <2>1 DEF PhasesKnown, PhaseAt, LeavingLabels
  <2>6. PortPhase(p)' = "closed"
    <3>1. ~ \E r \in Slots : port'[r] = p
      BY <2>3, <2>4, ConstantsAssumption
    <3>2. /\ pc'[Conn(p)] \in LeavingLabels
          /\ pc'[Conn(p)] \notin {"off", "denied"}
      BY <1>3, <2>1 DEF SameConnections, LeavingLabels
    <3>3. PortPhase(p)' = PhaseAt(p)'
      BY DEF PhasesKnown
    <3> QED BY <3>1, <3>2, <3>3 DEF PhaseAt
  <2>7. ASSUME NEW q \in Clients, q # p PROVE PortPhase(q)' = PortPhase(q)
    <3>1. (\E r \in Slots : port'[r] = q) <=> \E r \in Slots : port[r] = q
      BY <2>0, <2>3, <2>7, ConstantsAssumption
    <3> QED BY <1>3, <3>1 DEF PhasesKnown, PhaseAt, SameConnections
  <2>8. \A b \in Actors : pc[b] \in UseLabels => at[b] # s
    BY <2>1 DEF Refs, RefLabels
  <2>9. UsersOf(p) = {}
    BY <2>4, <2>8, PortUsers
  <2>10. ASSUME NEW q \in Clients PROVE UsersOf(q)' = UsersOf(q)
    <3>1. UsersOf(q)' = {b \in Actors : /\ pc'[b] \in UseLabels
                                        /\ at'[b] \in Slots
                                        /\ port'[at'[b]] = q}
      BY DEF UsersOf, Users, SlotsOf
    <3> QED BY <1>1, <1>2, <2>3, <2>8, <3>1, PortUsers,
               ConstantsAssumption DEF SameUsers
  <2>11. PhaseMoves(p, "draining", "closed")
    BY <2>5, <2>6, <2>7, <2>10 DEF PhaseMoves
  <2> QED BY <2>9, <2>11, LifeSteps
<1>5. CASE ~Finalizable(s)
  <2>1. port' = port
    BY <1>0, <1>5 DEF FinalizeClientDisconnect, FinalizeSlot, slotVars
  <2> QED BY <1>2, <1>3, <2>1, SamePhases, SameUserSets, LifeSteps DEF LifeSame
<1> QED BY <1>4, <1>5

(* A connect opens its port: nobody uses the slot it takes.                *)
LEMMA ConnectLife ==
    ASSUME PhasesKnown, PhasesKnown', TypeOK, RefInv, KexOutcome,
           NEW p \in Clients, ConnectNotify(p)
    PROVE  LifeStep
<1>1. pc[Conn(p)] = "off" /\ pc[Kex(p)] = "off"
  BY DEF ConnectNotify, KexOutcome
<1>2. PICK s \in Lowest(FreeSlots) :
        /\ port' = [port EXCEPT ![s] = p]
        /\ at' = [at EXCEPT ![Conn(p)] = s, ![Kex(p)] = s]
  BY DEF ConnectNotify
<1>3. pc' = [pc EXCEPT ![Conn(p)] = "acquire", ![Kex(p)] = "acquire"]
  BY DEF ConnectNotify
<1>4. s \in Slots /\ port[s] = NULL
  BY DEF Lowest, FreeSlots
<1>5. /\ pc'[Conn(p)] = "acquire" /\ pc'[Kex(p)] = "acquire"
      /\ \A b \in Actors : b # Conn(p) /\ b # Kex(p) =>
             pc'[b] = pc[b] /\ at'[b] = at[b]
  BY <1>2, <1>3, ActorKinds, ActorNames DEF TypeOK
<1>6. \A r \in Slots : port'[r] = IF r = s THEN p ELSE port[r]
  BY <1>2, <1>4 DEF TypeOK
<1>7. PortPhase(p) = "absent" /\ PortPhase(p)' = "live"
  BY <1>1, <1>5 DEF PhasesKnown, PhaseAt, LeavingLabels
<1>8. ASSUME NEW q \in Clients, q # p PROVE PortPhase(q)' = PortPhase(q)
  <2>1. pc'[Conn(q)] = pc[Conn(q)]
    BY <1>5, <1>8, ActorKinds, ActorNames
  <2>2. (\E r \in Slots : port'[r] = q) <=> \E r \in Slots : port[r] = q
    BY <1>4, <1>6, <1>8, ConstantsAssumption
  <2> QED BY <2>1, <2>2 DEF PhasesKnown, PhaseAt
<1>9. SameUsers
  BY <1>1, <1>5 DEF SameUsers, UseLabels
<1>10. \A b \in Actors : pc[b] \in UseLabels => at[b] # s
  BY <1>4 DEF RefInv, LockInv, Occupied, RefLabels
<1>11. ASSUME NEW q \in Clients PROVE UsersOf(q)' = UsersOf(q)
  <2>1. UsersOf(q)' = {b \in Actors : /\ pc'[b] \in UseLabels
                                      /\ at'[b] \in Slots
                                      /\ port'[at'[b]] = q}
    BY DEF UsersOf, Users, SlotsOf
  <2> QED BY <1>6, <1>9, <1>10, <2>1, PortUsers DEF SameUsers
<1>12. PhaseMoves(p, "absent", "live")
  BY <1>7, <1>8, <1>11 DEF PhaseMoves
<1> QED BY <1>12, LifeSteps

(* The first step of DisconnectNotify ends the life of the port, and its   *)
(* second one changes nothing that PortLifetime sees.                      *)
LEMMA DisconnectLife ==
    ASSUME PhasesKnown, PhasesKnown', TypeOK, RefInv, NEW p \in Clients,
           DisconnectMark(p) \/ DisconnectDrop(p)
    PROVE  LifeStep
<1>1. /\ port' = port /\ at' = at
      /\ \A b \in Actors : b # Conn(p) => pc'[b] = pc[b]
      /\ \/ pc[Conn(p)] = "connected" /\ pc'[Conn(p)] = "dropBase"
         \/ pc[Conn(p)] = "dropBase" /\ pc'[Conn(p)] = "reclaim"
  BY ActorKinds DEF DisconnectMark, DisconnectDrop, TypeOK, Goto
<1>2. SameUsers
  BY <1>1 DEF SameUsers, UseLabels
<1>3. \A q \in Clients : q # p => pc'[Conn(q)] = pc[Conn(q)]
  BY <1>1, ActorKinds, ActorNames
<1>4. \A q \in Clients : UsersOf(q)' = UsersOf(q)
  BY <1>1, <1>2, SameUserSets
<1>5. \A q \in Clients : q # p => PortPhase(q)' = PortPhase(q)
  BY <1>1, <1>3 DEF PhasesKnown, PhaseAt
<1>6. \E r \in Slots : port[r] = p
  BY <1>1 DEF RefInv, LockInv, OwnerSlot, AliveLabels
<1>7. CASE pc[Conn(p)] = "connected"
  <2>1. PortPhase(p) = "live" /\ PortPhase(p)' = "draining"
    BY <1>1, <1>6, <1>7 DEF PhasesKnown, PhaseAt, LeavingLabels
  <2>2. PhaseMoves(p, "live", "draining")
    BY <1>4, <1>5, <2>1 DEF PhaseMoves
  <2> QED BY <2>2, LifeSteps
<1>8. CASE pc[Conn(p)] = "dropBase"
  <2>1. PortPhase(p)' = PortPhase(p)
    BY <1>1, <1>6, <1>8 DEF PhasesKnown, PhaseAt, LeavingLabels
  <2> QED BY <1>4, <1>5, <2>1, LifeSteps DEF LifeSame
<1> QED BY <1>1, <1>7, <1>8

(* Every step of the slots is a step of PortLifetime or changes nothing    *)
(* there.                                                                  *)
LEMMA LifeNextStep == IInv /\ IInv' /\ [Next]_vars => LifeStep
<1> SUFFICES ASSUME IInv, IInv', [Next]_vars PROVE LifeStep
  OBVIOUS
<1>0. /\ TypeOK /\ RefInv /\ KexOutcome
      /\ PhasesKnown /\ PhasesKnown'
  BY PhasesBefore, PhasesAfter DEF IInv, KexInv
<1>1. ASSUME NEW a \in Actors, ReferenceStep(a) PROVE LifeStep
  BY <1>0, <1>1, SelectLife, EnterLife, LeaveLife, FinalizeLife
  DEF ReferenceStep
<1>2. ASSUME NEW t \in Threads, SendCall(t) \/ SendStep(t) PROVE LifeStep
  BY <1>0, <1>2, SendQuiet, QuietLife, ActorKinds
<1>3. ASSUME NEW p \in Clients, KexStep(p) PROVE LifeStep
  BY <1>0, <1>3, KexQuiet, QuietLife, ActorKinds
<1>4. ASSUME NEW p \in Clients, ConnectCall(p) \/ ConnectStep(p) PROVE LifeStep
  <2>1. CASE ConnectDenied(p) \/ DrainMessageQueue(p)
    BY <1>0, <2>1, ConnQuiet, QuietLife, ActorKinds
  <2>2. CASE ConnectNotify(p)
    BY <1>0, <2>2, ConnectLife
  <2>3. CASE DisconnectMark(p) \/ DisconnectDrop(p)
    BY <1>0, <2>3, DisconnectLife
  <2> QED BY <1>4, <2>1, <2>2, <2>3 DEF ConnectCall, ConnectStep
<1>5. CASE UNCHANGED vars
  <2>1. SameUsers /\ SameConnections /\ port' = port
    BY <1>5 DEF vars, slotVars, SameUsers, SameConnections
  <2> QED BY <1>0, <2>1, SamePhases, SameUserSets, LifeSteps DEF LifeSame
<1> QED BY <1>1, <1>2, <1>3, <1>4, <1>5 DEF Next

(* Before anybody connects no port is there.                               *)
LEMMA LifeInitial == Init => Lifetime!LifeInit
<1> SUFFICES ASSUME Init PROVE Lifetime!LifeInit
  OBVIOUS
<1>1. \A p \in Clients : PortPhase(p) = "absent"
  BY ActorKinds DEF Init, PortPhase
<1>2. \A p \in Clients : UNION {Users(s) : s \in SlotsOf(p)} = {}
  BY ConstantsAssumption DEF Init, SlotsOf
<1> QED BY <1>1, <1>2 DEF Lifetime!LifeInit

(* The slots implement the life time of a port, for any number of threads, *)
(* connections and slots: references are gained while the client is        *)
(* connected, and its port is reclaimed once, when the last user has left. *)
THEOREM Refinement == Spec => ImplementsLifetime
<1>1. IInv /\ IInv' /\ [Next]_vars => [Lifetime!LifeNext]_Lifetime!lifeVars
  BY LifeNextStep DEF LifeStep
<1> QED
  BY <1>1, LifeInitial, InductiveInvariant, PTL
  DEF Spec, ImplementsLifetime, Lifetime!LifeSpec

=============================================================================
