------------------------------ MODULE CommPort ------------------------------
(***************************************************************************)
(* The client slots of the kernel driver's communication port              *)
(* (PhantomSensor/Communication/CommPort.c).                               *)
(*                                                                         *)
(* Every connected user-mode client occupies a slot of g_ClientPortRefs.   *)
(* Kernel threads that send to the client take a reference on the slot     *)
(* under ClientPortLock held shared, use the port without any lock, and    *)
(* drop the reference with an interlocked decrement.  A disconnect marks   *)
(* the slot, drops the reference the connection itself holds (the          *)
(* baseline) and asks for the slot to be finalized; whoever drops the last *)
(* reference finalizes it under the lock held exclusive.                   *)
(*                                                                         *)
(* Three kinds of actors run concurrently:                                 *)
(*   Send(t)  a kernel thread in SendScanRequest, SendNotification or      *)
(*            SendProcessNotification;                                     *)
(*   Conn(p)  the Filter Manager callbacks of client connection p:         *)
(*            ConnectNotify (with the queue drain), then DisconnectNotify; *)
(*   Kex(p)   the work item that delivers the session key to p.            *)
(* A connection is identified with its port handle, so a client that       *)
(* reconnects is another member of Clients.                                *)
(*                                                                         *)
(* Steps between two interlocked operations are atomic.  A section under   *)
(* the exclusive lock is one step, taken when no actor is inside a shared  *)
(* section (readers = {}).                                                 *)
(***************************************************************************)
EXTENDS Integers, FiniteSets

CONSTANTS
    Threads,             \* kernel threads that send
    Clients,             \* client connections, each used once
    NULL,                \* the null port handle
    MaxConnections,      \* SHADOWSTRIKE_MAX_CONNECTIONS
    MaxPendingRequests,  \* Config.MaxPendingRequests
    QueueCapacity,       \* messages the MessageQueue accepts
    DrainLimit           \* messages one drain handles (512 in the code)

ASSUME ConstantsAssumption ==
    /\ IsFiniteSet(Threads) /\ IsFiniteSet(Clients)
    /\ NULL \notin Clients
    /\ MaxConnections \in Nat
    /\ MaxPendingRequests \in Nat
    /\ QueueCapacity \in Nat
    /\ DrainLimit \in Nat

Slots == 0 .. MaxConnections - 1

Send(t) == <<"send", t>>
Conn(p) == <<"conn", p>>
Kex(p)  == <<"kex", p>>

Senders  == {"send"} \X Threads
Conns    == {"conn"} \X Clients
Kexers   == {"kex"} \X Clients
Actors   == Senders \cup Conns \cup Kexers

Operations == {"none", "scan", "notify", "process"}

(* Where an actor can be.  At the UseLabels it holds a client reference;   *)
(* at the RefLabels it is counted in ReferenceCount.                       *)
UseLabels == {"held", "limit", "over", "send", "release"}
RefLabels == UseLabels \cup {"recheck", "undo"}
Labels == RefLabels \cup
    {"off", "denied", "idle", "acquire", "increment", "failed", "full",
     "finalize", "released", "connected", "dropBase", "reclaim", "gone", "close", "done"}

VARIABLES
    port,              \* slot -> ClientPort, or NULL
    refCount,          \* slot -> ReferenceCount
    disconnecting,     \* slot -> Disconnecting
    primary,           \* slot -> IsPrimaryScanner
    encrypted,         \* slot -> EncryptionEstablished
    connectedClients,  \* g_DriverData.ConnectedClients
    readers,           \* actors that hold ClientPortLock shared
    pending,           \* Stats.PendingRequests
    queued,            \* messages waiting in the MessageQueue
    drained,           \* what the drains did with them: [sent, dropped]
    closes,            \* port -> number of FltCloseClientPort calls on it
    kexSent,           \* clients whose key delivery reported success
    kexLost,           \* those of them it timed out on
    kexFailed,         \* clients whose key delivery failed
    op,                \* thread -> the send function it runs
    at,                \* actor -> slot index it works on
    pc                 \* actor -> where it is

slotVars == <<port, refCount, disconnecting, primary, encrypted>>
kexVars  == <<kexSent, kexLost, kexFailed>>
queueVars == <<queued, drained>>
vars == <<slotVars, connectedClients, readers, pending, queueVars, closes,
          kexVars, op, at, pc>>

Goto(a, label) == pc' = [pc EXCEPT ![a] = label]

(* A send function returns to its caller; its locals are gone.             *)
Return(t) ==
    /\ pc' = [pc EXCEPT ![Send(t)] = "idle"]
    /\ op' = [op EXCEPT ![t] = "none"]
    /\ at' = [at EXCEPT ![Send(t)] = 0]

-----------------------------------------------------------------------------
(* ShadowStrikeCreateCommunicationPort: every slot is zero.                *)
Init ==
    /\ port = [s \in Slots |-> NULL]
    /\ refCount = [s \in Slots |-> 0]
    /\ disconnecting = [s \in Slots |-> FALSE]
    /\ primary = [s \in Slots |-> FALSE]
    /\ encrypted = [s \in Slots |-> FALSE]
    /\ connectedClients = 0
    /\ readers = {}
    /\ pending = 0
    /\ queued = 0
    /\ drained = [sent |-> 0, dropped |-> 0]
    /\ closes = [p \in Clients |-> 0]
    /\ kexSent = {}
    /\ kexLost = {}
    /\ kexFailed = {}
    /\ op = [t \in Threads |-> "none"]
    /\ at = [a \in Actors |-> 0]
    /\ pc = [a \in Actors |-> IF a \in Senders THEN "idle" ELSE "off"]

-----------------------------------------------------------------------------
(* Taking a reference: AcquirePrimaryScannerPort (senders: the primary     *)
(* scanner if one is connected, else any client, lowest slot first) and    *)
(* AcquireClientPortBySlot (the drain and the key delivery).               *)

Connected == {s \in Slots : port[s] # NULL /\ ~disconnecting[s]}

Preferred ==
    IF \E s \in Connected : primary[s]
    THEN {s \in Connected : primary[s]}
    ELSE Connected

Lowest(S) == {s \in S : \A r \in S : s <= r}

Candidates(a) == IF a \in Senders THEN Lowest(Preferred)
                                  ELSE Connected \cap {at[a]}

(* Seeded fault: without a client a sender looks for one again.            *)
AcquireFailedRetries(a) == IF a \in Senders THEN "acquire"
                           ELSE IF a \in Conns THEN "connected"
                           ELSE "done"

AcquireFailed(a) == IF a \in Senders THEN "failed"
                    ELSE IF a \in Conns THEN "connected"
                    ELSE "done"

(* Lock shared, choose the slot.  The choice reads flags that a disconnect *)
(* may set at any moment, so it is only a hint until the recheck.          *)
AcquireSelect(a) ==
    /\ pc[a] = "acquire"
    /\ IF Candidates(a) = {}
       THEN /\ Goto(a, AcquireFailed(a))
            /\ UNCHANGED <<at, readers>>
       ELSE \E s \in Candidates(a) :
            /\ at' = [at EXCEPT ![a] = s]
            /\ readers' = readers \cup {a}
            /\ Goto(a, "increment")
    /\ UNCHANGED <<slotVars, connectedClients, pending, queueVars, closes,
                   kexVars, op>>

AcquireIncrement(a) ==
    /\ pc[a] = "increment"
    /\ refCount' = [refCount EXCEPT ![at[a]] = @ + 1]
    /\ Goto(a, IF refCount[at[a]] + 1 <= 0 THEN "undo" ELSE "recheck")
    /\ UNCHANGED <<port, disconnecting, primary, encrypted, connectedClients,
                   readers, pending, queueVars, closes, kexVars, op, at>>

(* Seeded fault: the choice is trusted and Disconnecting not read again.   *)
AcquireNoRecheck(a) ==
    /\ pc[a] = "recheck"
    /\ Goto(a, "held")
    /\ readers' = readers \ {a}
    /\ UNCHANGED <<slotVars, connectedClients, pending, queueVars, closes,
                   kexVars, op, at>>

AcquireRecheck(a) ==
    /\ pc[a] = "recheck"
    /\ IF disconnecting[at[a]]
       THEN Goto(a, "undo") /\ UNCHANGED readers
       ELSE Goto(a, "held") /\ readers' = readers \ {a}
    /\ UNCHANGED <<slotVars, connectedClients, pending, queueVars, closes,
                   kexVars, op, at>>

(* The undo never finalizes the slot, even when it drops the last          *)
(* reference.                                                              *)
AcquireUndo(a) ==
    /\ pc[a] = "undo"
    /\ refCount' = [refCount EXCEPT ![at[a]] = @ - 1]
    /\ readers' = readers \ {a}
    /\ Goto(a, AcquireFailed(a))
    /\ UNCHANGED <<port, disconnecting, primary, encrypted, connectedClients,
                   pending, queueVars, closes, kexVars, op, at>>

-----------------------------------------------------------------------------
(* Dropping a reference.                                                   *)

Released(a) == IF a \in Senders THEN "released"
               ELSE IF a \in Conns THEN "connected"
               ELSE IF a[2] \in kexFailed THEN "close"
               ELSE "done"

(* ShadowStrikeReleaseClientPort up to the call of finalize.  A negative   *)
(* count is reported and nothing more is done.                             *)
ReleaseClientPort(a) ==
    /\ pc[a] = "release"
    /\ refCount' = [refCount EXCEPT ![at[a]] = @ - 1]
    /\ Goto(a, IF refCount[at[a]] - 1 = 0 THEN "finalize" ELSE Released(a))
    /\ UNCHANGED <<port, disconnecting, primary, encrypted, connectedClients,
                   readers, pending, queueVars, closes, kexVars, op, at>>

(* Seeded fault: a marked slot is reclaimed under its users.               *)
FinalizableInUse(s) == disconnecting[s] /\ port[s] # NULL

Finalizable(s) == disconnecting[s] /\ refCount[s] = 0 /\ port[s] # NULL

(* The body of ShadowStrikeFinalizeClientDisconnect for slot s, under the  *)
(* exclusive lock: close the port, zero the slot, count the client out.    *)
FinalizeSlot(s) ==
    /\ readers = {}
    /\ IF Finalizable(s)
       THEN /\ closes' = [closes EXCEPT ![port[s]] = @ + 1]
            /\ port' = [port EXCEPT ![s] = NULL]
            /\ refCount' = [refCount EXCEPT ![s] = 0]
            /\ disconnecting' = [disconnecting EXCEPT ![s] = FALSE]
            /\ primary' = [primary EXCEPT ![s] = FALSE]
            /\ encrypted' = [encrypted EXCEPT ![s] = FALSE]
            /\ connectedClients' = IF connectedClients > 0
                                   THEN connectedClients - 1
                                   ELSE connectedClients
       ELSE UNCHANGED <<slotVars, closes, connectedClients>>

(* "finalize" is the call at the end of a release, "reclaim" the call at   *)
(* the end of DisconnectNotify.                                            *)
FinalizeClientDisconnect(a) ==
    /\ pc[a] \in {"finalize", "reclaim"}
    /\ FinalizeSlot(at[a])
    /\ Goto(a, IF pc[a] = "reclaim" THEN "gone" ELSE Released(a))
    /\ UNCHANGED <<readers, pending, queueVars, kexVars, op, at>>

-----------------------------------------------------------------------------
(* Connections.                                                            *)

FreeSlots == {s \in Slots : port[s] = NULL /\ ~disconnecting[s]}

(* ConnectNotify that registers the client: first free slot, fresh fields, *)
(* the baseline reference, the key delivery work item queued; it goes on   *)
(* with the drain of the message queue.                                    *)
ConnectNotify(p) ==
    /\ pc[Conn(p)] = "off"
    /\ readers = {}
    /\ connectedClients < MaxConnections
    /\ \E s \in Lowest(FreeSlots), isPrimary \in BOOLEAN :
        /\ port' = [port EXCEPT ![s] = p]
        /\ refCount' = [refCount EXCEPT ![s] = 1]
        /\ disconnecting' = [disconnecting EXCEPT ![s] = FALSE]
        /\ primary' = [primary EXCEPT ![s] = isPrimary]
        /\ encrypted' = [encrypted EXCEPT ![s] = FALSE]
        /\ at' = [at EXCEPT ![Conn(p)] = s, ![Kex(p)] = s]
    /\ connectedClients' = connectedClients + 1
    /\ pc' = [pc EXCEPT ![Conn(p)] = "acquire", ![Kex(p)] = "acquire"]
    /\ UNCHANGED <<readers, pending, queueVars, closes, kexVars, op>>

(* Seeded fault: a refused client stays counted.                           *)
ConnectDeniedCounted(p) ==
    /\ pc[Conn(p)] = "off"
    /\ connectedClients' = connectedClients + 1
    /\ Goto(Conn(p), "denied")
    /\ UNCHANGED <<slotVars, readers, pending, queueVars, closes, kexVars, op,
                   at>>

(* ConnectNotify that refuses the client: verification fails, the          *)
(* connection context cannot be read, all connections are in use, or the   *)
(* key derivation, the key wrap or an allocation fails; in the last cases  *)
(* the slot it had taken is zeroed again before the lock is released.      *)
ConnectDenied(p) ==
    /\ pc[Conn(p)] = "off"
    /\ Goto(Conn(p), "denied")
    /\ UNCHANGED <<slotVars, connectedClients, readers, pending, queueVars,
                   closes, kexVars, op, at>>

(* Seeded fault: the drain loop does not stop at an empty queue.           *)
DrainCountFixed == DrainLimit

DrainCount == IF queued < DrainLimit THEN queued ELSE DrainLimit

(* The drain of the messages queued while nobody was connected: up to      *)
(* DrainLimit leave the queue; without an established encryption each one  *)
(* is freed and counted as dropped, never sent in plaintext.               *)
DrainMessageQueue(p) ==
    /\ pc[Conn(p)] = "held"
    /\ queued' = queued - DrainCount
    /\ drained' = IF encrypted[at[Conn(p)]]
                  THEN [drained EXCEPT !.sent = @ + DrainCount]
                  ELSE [drained EXCEPT !.dropped = @ + DrainCount]
    /\ Goto(Conn(p), "release")
    /\ UNCHANGED <<slotVars, connectedClients, readers, pending, closes,
                   kexVars, op, at>>

(* DisconnectNotify, first interlocked operation.  It runs once per        *)
(* connection, when the client closes its handle or dies or when the       *)
(* driver closes the port.                                                 *)
DisconnectMark(p) ==
    /\ pc[Conn(p)] = "connected"
    /\ disconnecting' = [disconnecting EXCEPT ![at[Conn(p)]] = TRUE]
    /\ Goto(Conn(p), "dropBase")
    /\ UNCHANGED <<port, refCount, primary, encrypted, connectedClients,
                   readers, pending, queueVars, closes, kexVars, op, at>>

(* Seeded fault: DisconnectNotify leaves the finalization to the last user *)
(* unless its own reference was the last.                                  *)
DisconnectDropLast(p) ==
    /\ pc[Conn(p)] = "dropBase"
    /\ refCount' = [refCount EXCEPT ![at[Conn(p)]] = @ - 1]
    /\ Goto(Conn(p), IF refCount[at[Conn(p)]] = 1 THEN "reclaim" ELSE "gone")
    /\ UNCHANGED <<port, disconnecting, primary, encrypted, connectedClients,
                   readers, pending, queueVars, closes, kexVars, op, at>>

(* DisconnectNotify, second: the baseline reference goes, and finalize is  *)
(* called whatever the count is.                                           *)
DisconnectDrop(p) ==
    /\ pc[Conn(p)] = "dropBase"
    /\ refCount' = [refCount EXCEPT ![at[Conn(p)]] = @ - 1]
    /\ Goto(Conn(p), "reclaim")
    /\ UNCHANGED <<port, disconnecting, primary, encrypted, connectedClients,
                   readers, pending, queueVars, closes, kexVars, op, at>>

-----------------------------------------------------------------------------
(* ShadowStrikeDeliverKexWorker.                                           *)

(* Seeded fault: the worker trusts the slot number.                        *)
KexTrustsSlot(p) ==
    /\ pc[Kex(p)] = "held"
    /\ Goto(Kex(p), "send")
    /\ UNCHANGED <<slotVars, connectedClients, readers, pending, queueVars,
                   closes, kexVars, op, at>>

(* The slot may have been taken over by another connection meanwhile.      *)
KexCheckPort(p) ==
    /\ pc[Kex(p)] = "held"
    /\ Goto(Kex(p), IF port[at[Kex(p)]] = p THEN "send" ELSE "release")
    /\ UNCHANGED <<slotVars, connectedClients, readers, pending, queueVars,
                   closes, kexVars, op, at>>

(* FltSendMessage returned a status that NT_SUCCESS accepts: the worker    *)
(* publishes the flag the senders look at.                                 *)
KexEstablish(p) ==
    /\ pc[Kex(p)] = "send"
    /\ encrypted' = [encrypted EXCEPT ![at[Kex(p)]] = TRUE]
    /\ kexSent' = kexSent \cup {p}
    /\ Goto(Kex(p), "release")
    /\ UNCHANGED <<port, refCount, disconnecting, primary, connectedClients,
                   readers, pending, queueVars, closes, kexFailed, op, at>>

(* User mode has fetched the message, which it cannot do before            *)
(* ConnectNotify has returned; a disconnect may follow before the worker   *)
(* publishes the flag.                                                     *)
KexDelivered(p) ==
    /\ pc[Conn(p)] \in {"connected", "dropBase", "reclaim", "gone"}
    /\ KexEstablish(p)
    /\ UNCHANGED kexLost

(* The 30 s timeout: STATUS_TIMEOUT is a success code too.                 *)
KexTimedOut(p) ==
    /\ KexEstablish(p)
    /\ kexLost' = kexLost \cup {p}

(* A dead peer or another error.                                           *)
KexNotDelivered(p) ==
    /\ pc[Kex(p)] = "send"
    /\ kexFailed' = kexFailed \cup {p}
    /\ Goto(Kex(p), "release")
    /\ UNCHANGED <<slotVars, connectedClients, readers, pending, queueVars,
                   closes, kexSent, kexLost, op, at>>

(* After the release of its reference the worker closes its own copy of    *)
(* the port handle.                                                        *)
KexClosePort(p) ==
    /\ pc[Kex(p)] = "close"
    /\ closes' = [closes EXCEPT ![p] = @ + 1]
    /\ Goto(Kex(p), "done")
    /\ UNCHANGED <<slotVars, connectedClients, readers, pending, queueVars,
                   kexVars, op, at>>

-----------------------------------------------------------------------------
(* Senders.                                                                *)

(* PendingRequests is incremented first and compared with the limit after. *)
SendScanRequest(t) ==
    /\ pc[Send(t)] = "idle"
    /\ op' = [op EXCEPT ![t] = "scan"]
    /\ pending' = pending + 1
    /\ Goto(Send(t), IF pending + 1 > MaxPendingRequests THEN "full"
                                                         ELSE "acquire")
    /\ UNCHANGED <<slotVars, connectedClients, readers, queueVars, closes,
                   kexVars, at>>

(* SendNotification, and SendProcessNotification without a reply.          *)
SendNotification(t) ==
    /\ pc[Send(t)] = "idle"
    /\ op' = [op EXCEPT ![t] = "notify"]
    /\ Goto(Send(t), "acquire")
    /\ UNCHANGED <<slotVars, connectedClients, readers, pending, queueVars,
                   closes, kexVars, at>>

(* SendProcessNotification with RequireReply.                              *)
SendProcessNotification(t) ==
    /\ pc[Send(t)] = "idle"
    /\ op' = [op EXCEPT ![t] = "process"]
    /\ Goto(Send(t), "acquire")
    /\ UNCHANGED <<slotVars, connectedClients, readers, pending, queueVars,
                   closes, kexVars, at>>

(* Encryption of the payload with the session key, all send functions.     *)
(* The code lets a message that is only a header pass without; every       *)
(* message of the model has a payload.                                     *)
SendEncrypt(t) ==
    /\ pc[Send(t)] = "held"
    /\ encrypted[at[Send(t)]]
    /\ Goto(Send(t), IF op[t] = "process" THEN "limit" ELSE "send")
    /\ UNCHANGED <<slotVars, connectedClients, readers, pending, queueVars,
                   closes, kexVars, op, at>>

(* Seeded fault: the early return forgets the client reference.            *)
SendDropLeaks(t) ==
    /\ pc[Send(t)] = "held"
    /\ Goto(Send(t), "released")
    /\ UNCHANGED <<slotVars, connectedClients, readers, pending, queueVars,
                   closes, kexVars, op, at>>

(* No session key yet, or the encryption or an allocation fails: the       *)
(* message is dropped.                                                     *)
SendDrop(t) ==
    /\ pc[Send(t)] = "held"
    /\ Goto(Send(t), "release")
    /\ UNCHANGED <<slotVars, connectedClients, readers, pending, queueVars,
                   closes, kexVars, op, at>>

(* SendProcessNotification counts its request only here, with the          *)
(* reference held.                                                         *)
ProcessLimit(t) ==
    /\ pc[Send(t)] = "limit"
    /\ pending' = pending + 1
    /\ Goto(Send(t), IF pending + 1 > MaxPendingRequests THEN "over"
                                                         ELSE "send")
    /\ UNCHANGED <<slotVars, connectedClients, readers, queueVars, closes,
                   kexVars, op, at>>

(* Seeded fault: the early return forgets the pending count.               *)
ScanOverLimitLeaks(t) ==
    /\ pc[Send(t)] = "full"
    /\ Return(t)
    /\ UNCHANGED <<slotVars, connectedClients, readers, pending, queueVars,
                   closes, kexVars>>

(* Over the limit: the request is counted out again.                       *)
ScanOverLimit(t) ==
    /\ pc[Send(t)] = "full"
    /\ pending' = pending - 1
    /\ Return(t)
    /\ UNCHANGED <<slotVars, connectedClients, readers, queueVars, closes,
                   kexVars>>

(* The same, and the reference is still to be released.                    *)
ProcessOverLimit(t) ==
    /\ pc[Send(t)] = "over"
    /\ pending' = pending - 1
    /\ Goto(Send(t), "release")
    /\ UNCHANGED <<slotVars, connectedClients, readers, queueVars, closes,
                   kexVars, op, at>>

(* FltSendMessage returns: a reply, a timeout or an error.                 *)
SendReturns(t) ==
    /\ pc[Send(t)] = "send"
    /\ pending' = IF op[t] = "process" THEN pending - 1 ELSE pending
    /\ Goto(Send(t), "release")
    /\ UNCHANGED <<slotVars, connectedClients, readers, queueVars, closes,
                   kexVars, op, at>>

(* No client: a scan gives up, a notification is buffered if the queue     *)
(* has room.                                                               *)
SendFailed(t) ==
    /\ pc[Send(t)] = "failed"
    /\ pending' = IF op[t] = "scan" THEN pending - 1 ELSE pending
    /\ queued' = IF op[t] = "notify" /\ queued < QueueCapacity
                 THEN queued + 1 ELSE queued
    /\ Return(t)
    /\ UNCHANGED <<slotVars, connectedClients, readers, drained, closes,
                   kexVars>>

SendDone(t) ==
    /\ pc[Send(t)] = "released"
    /\ pending' = IF op[t] = "scan" THEN pending - 1 ELSE pending
    /\ Return(t)
    /\ UNCHANGED <<slotVars, connectedClients, readers, queueVars, closes,
                   kexVars>>

-----------------------------------------------------------------------------
ReferenceStep(a) ==
    \/ AcquireSelect(a) \/ AcquireIncrement(a) \/ AcquireRecheck(a)
    \/ AcquireUndo(a) \/ ReleaseClientPort(a) \/ FinalizeClientDisconnect(a)

SendCall(t) ==
    \/ SendScanRequest(t) \/ SendNotification(t) \/ SendProcessNotification(t)

SendStep(t) ==
    \/ SendEncrypt(t) \/ SendDrop(t) \/ ProcessLimit(t) \/ ScanOverLimit(t)
    \/ ProcessOverLimit(t) \/ SendReturns(t) \/ SendFailed(t) \/ SendDone(t)

KexStep(p) ==
    \/ KexCheckPort(p) \/ KexDelivered(p) \/ KexTimedOut(p)
    \/ KexNotDelivered(p) \/ KexClosePort(p)

ConnectCall(p) == ConnectNotify(p) \/ ConnectDenied(p) \/ DisconnectMark(p)

ConnectStep(p) == DrainMessageQueue(p) \/ DisconnectDrop(p)

Next ==
    \/ \E a \in Actors : ReferenceStep(a)
    \/ \E t \in Threads : SendCall(t) \/ SendStep(t)
    \/ \E p \in Clients : ConnectCall(p) \/ ConnectStep(p) \/ KexStep(p)

Spec == Init /\ [][Next]_vars

(* Kernel threads and work items are scheduled and FltSendMessage has a    *)
(* timeout, so a call that started goes on.  Nobody is obliged to call a   *)
(* send function, to connect or to disconnect.  The exclusive lock is a    *)
(* push lock, whose waiters later shared acquisitions queue behind: a      *)
(* finalize that waits for readers is served although readers come and go. *)
Fairness ==
    /\ \A a \in Actors : /\ WF_vars(ReferenceStep(a))
                         /\ SF_vars(FinalizeClientDisconnect(a))
    /\ \A t \in Threads : WF_vars(SendStep(t))
    /\ \A p \in Clients : WF_vars(ConnectStep(p)) /\ WF_vars(KexStep(p))

FairSpec == Spec /\ Fairness

-----------------------------------------------------------------------------
(* Properties.                                                             *)

TypeOK ==
    /\ port \in [Slots -> Clients \cup {NULL}]
    /\ refCount \in [Slots -> Int]
    /\ disconnecting \in [Slots -> BOOLEAN]
    /\ primary \in [Slots -> BOOLEAN]
    /\ encrypted \in [Slots -> BOOLEAN]
    /\ connectedClients \in Int
    /\ readers \subseteq Actors
    /\ pending \in Int
    /\ queued \in Nat
    /\ drained \in [sent : Nat, dropped : Nat]
    /\ closes \in [Clients -> Nat]
    /\ kexSent \subseteq Clients
    /\ kexLost \subseteq Clients
    /\ kexFailed \subseteq Clients
    /\ op \in [Threads -> Operations]
    /\ at \in [Actors -> Slots \cup {0}]
    /\ pc \in [Actors -> Labels]

(* The actors that have counted themselves in on slot s.                   *)
Refs(s) == {a \in Actors : pc[a] \in RefLabels /\ at[a] = s}

(* The actors that use slot s as a client reference: between a successful  *)
(* Acquire and the decrement of Release.                                   *)
Users(s) == {a \in Actors : pc[a] \in UseLabels /\ at[a] = s}

(* The connection in slot s still has its baseline reference.              *)
Baseline(s) == port[s] # NULL /\ pc[Conn(port[s])] \notin {"reclaim", "gone"}

(* ReferenceCount of a slot is exactly the references that exist: the      *)
(* baseline of ConnectNotify until DisconnectNotify drops it, and one per  *)
(* actor between its increment and its decrement.  Every path of every     *)
(* send function, of the drain and of the key delivery balances.           *)
RefCountExact ==
    \A s \in Slots :
        refCount[s] = (IF Baseline(s) THEN 1 ELSE 0) + Cardinality(Refs(s))

(* CommPort.h says the reference count "prevents use-after-free during     *)
(* message sends": a thread inside FltSendMessage, the key delivery        *)
(* included, uses a port that is still in its slot and that nobody has     *)
(* closed.                                                                 *)
NoSendOnClosedPort ==
    \A a \in Actors :
        pc[a] = "send" => /\ port[at[a]] # NULL
                          /\ closes[port[at[a]]] = 0

(* Encryption is mandatory: whoever is about to send a payload sends it on *)
(* a slot whose encryption the key delivery of its present client has      *)
(* established, also when the slot changed hands while a key delivery was  *)
(* on its way.                                                             *)
PayloadOnlyAfterKex ==
    \A s \in Slots :
        /\ encrypted[s] => port[s] \in kexSent
        /\ \A t \in Threads :
              pc[Send(t)] \in {"limit", "send"} /\ at[Send(t)] = s
                  => encrypted[s]

(* A slot whose client is gone is always somebody's job: either a user of  *)
(* the slot will still release it, or a finalize of it is under way.  The  *)
(* undo of Acquire may drop the last reference without finalizing, yet no  *)
(* slot is lost.                                                           *)
DeadSlotHasReclaimer ==
    \A s \in Slots :
        port[s] # NULL /\ pc[Conn(port[s])] = "gone"
            => \/ Users(s) # {}
               \/ \E a \in Actors : pc[a] \in {"finalize", "reclaim"}
                                      /\ at[a] = s

(* ConnectedClients, read by every fast path of the driver without the     *)
(* lock, counts the occupied slots.                                        *)
OccupiedSlots == {s \in Slots : port[s] # NULL}
ConnectedClientsExact == connectedClients = Cardinality(OccupiedSlots)

(* The requests counted in PendingRequests.                                *)
Counted == {t \in Threads :
               \/ op[t] = "scan" /\ pc[Send(t)] # "idle"
               \/ op[t] = "process" /\ pc[Send(t)] \in {"over", "send"}}

PastLimit == {t \in Counted : pc[Send(t)] \notin {"full", "over"}}

(* Every exit path of the send functions gives its pending count back, and *)
(* never more than MaxPendingRequests requests are past the limit check.   *)
PendingAccounting ==
    /\ pending = Cardinality(Counted)
    /\ Cardinality(PastLimit) <= MaxPendingRequests

(* The slot a connection occupies, as a set.                               *)
SlotsOf(p) == {s \in Slots : port[s] = p}

PortPhase(p) ==
    IF pc[Conn(p)] \in {"off", "denied"} THEN "absent"
    ELSE IF SlotsOf(p) = {} THEN "closed"
    ELSE IF \E s \in SlotsOf(p) : disconnecting[s] THEN "draining"
    ELSE "live"

Lifetime == INSTANCE PortLifetime WITH
    Ports  <- Clients,
    Agents <- Actors,
    phase  <- [p \in Clients |-> PortPhase(p)],
    users  <- [p \in Clients |-> UNION {Users(s) : s \in SlotsOf(p)}]

(* The slots implement the abstract port life time: a reference is only    *)
(* gained while the client is connected, and the port is reclaimed once,   *)
(* after its last user has left.                                           *)
ImplementsLifetime == Lifetime!LifeSpec

(* Every disconnected client's slot is given back in the end.              *)
SlotReclaimed ==
    \A p \in Clients :
        pc[Conn(p)] = "dropBase" ~> \A s \in Slots : port[s] # p

(* Every call of a send function returns.                                  *)
SendsReturn ==
    \A t \in Threads : pc[Send(t)] # "idle" ~> pc[Send(t)] = "idle"

(* CommPort.h documents EncryptionEstablished as "Whether encryption has   *)
(* been established for this client": a client whose key delivery timed    *)
(* out has no session key.                                                 *)
EstablishedMeansDelivered ==
    \A s \in Slots : encrypted[s] => port[s] \notin kexLost

(* SendNotification's comment: a message is buffered "for delivery when a  *)
(* client reconnects", which "prevents telemetry loss".                    *)
BufferedTelemetryDelivered == drained.dropped = 0

-----------------------------------------------------------------------------
(* The inductive invariant behind RefCountExact, NoSendOnClosedPort,       *)
(* PayloadOnlyAfterKex and DeadSlotHasReclaimer.                           *)

ReadLabels  == {"increment", "recheck", "undo"}
AliveLabels == ReadLabels \cup {"acquire", "held", "release", "connected",
                                "dropBase"}
LeavingLabels == {"dropBase", "reclaim", "gone"}

SenderLabels == RefLabels \cup {"idle", "acquire", "increment", "failed",
                                "full", "finalize", "released"}
ConnLabels == AliveLabels \cup {"off", "denied", "reclaim", "gone"}
KexEarlyLabels == ReadLabels \cup {"off", "acquire", "held", "send"}
KexLabels == KexEarlyLabels \cup {"release", "finalize", "close", "done"}

(* Each kind of actor stays within its own code.                           *)
RoleLabels ==
    /\ \A t \in Threads : pc[Send(t)] \in SenderLabels
    /\ \A p \in Clients : pc[Conn(p)] \in ConnLabels
    /\ \A p \in Clients : pc[Kex(p)] \in KexLabels

(* The shared lock is held exactly between the choice of a slot and the    *)
(* outcome of the recheck.                                                 *)
ReadersExact == readers = {a \in Actors : pc[a] \in ReadLabels}

(* A slot and the callbacks of its connection know each other.             *)
SlotOwner ==
    \A s \in Slots : port[s] # NULL =>
        /\ at[Conn(port[s])] = s
        /\ pc[Conn(port[s])] \in AliveLabels \cup {"reclaim", "gone"}
        /\ disconnecting[s] <=> pc[Conn(port[s])] \in LeavingLabels

OwnerSlot ==
    \A p \in Clients : pc[Conn(p)] \in AliveLabels =>
        at[Conn(p)] \in Slots /\ port[at[Conn(p)]] = p

FreeSlotClean == \A s \in Slots : port[s] = NULL => ~disconnecting[s]

(* Nobody holds, or is about to take, a reference on an empty slot.        *)
Occupied ==
    \A a \in Actors : pc[a] \in RefLabels \cup {"increment"} =>
        at[a] \in Slots /\ port[at[a]] # NULL

FinalizerSlot ==
    \A a \in Actors : pc[a] \in {"finalize", "reclaim"} => at[a] \in Slots

(* Once DisconnectNotify has returned nobody is between choice and recheck *)
(* on its slot.                                                            *)
GoneNotRead ==
    \A s \in Slots : port[s] # NULL /\ pc[Conn(port[s])] = "gone" =>
        \A a \in Actors : at[a] = s => pc[a] \notin ReadLabels

(* The key delivery: one outcome per connection, on the right slot.        *)
KexOutcome ==
    \A p \in Clients :
        /\ pc[Conn(p)] = "off" => pc[Kex(p)] = "off" /\ closes[p] = 0
        /\ pc[Kex(p)] \in KexEarlyLabels => p \notin kexSent \cup kexFailed
        /\ p \notin kexSent \cap kexFailed
        /\ pc[Kex(p)] = "close" => p \in kexFailed
        /\ pc[Kex(p)] = "send" => port[at[Kex(p)]] = p

(* A port is closed by its finalization or by a failed key delivery.       *)
ClosedPorts ==
    \A p \in Clients : closes[p] # 0 =>
        p \in kexFailed \/ \A s \in Slots : port[s] # p

EncryptedSlots ==
    /\ \A s \in Slots : encrypted[s] => port[s] \in kexSent
    /\ \A t \in Threads : pc[Send(t)] \in {"limit", "over", "send"} =>
           encrypted[at[Send(t)]]

LockInv == RoleLabels /\ ReadersExact /\ SlotOwner /\ OwnerSlot
           /\ FreeSlotClean /\ Occupied /\ FinalizerSlot /\ GoneNotRead
RefInv == LockInv /\ RefCountExact
KexInv == KexOutcome /\ ClosedPorts /\ EncryptedSlots

IInv == TypeOK /\ RefInv /\ KexInv /\ DeadSlotHasReclaimer

(* What a thread's program counter says about the send function it runs,   *)
(* for PendingAccounting.                                                  *)
RequestShape ==
    \A t \in Threads :
        /\ op[t] = "none" <=> pc[Send(t)] = "idle"
        /\ pc[Send(t)] = "full" => op[t] = "scan"
        /\ pc[Send(t)] \in {"limit", "over"} => op[t] = "process"

=============================================================================
