---------------------------- MODULE PortLifetime ----------------------------
(***************************************************************************)
(* What the reference counting of CommPort promises, without slots, locks  *)
(* or counters: a port is opened once, users come and go while it is live, *)
(* after the disconnect nobody new gets in, and the port is reclaimed once *)
(* and only when its last user has left.                                   *)
(***************************************************************************)
CONSTANTS Ports, Agents

VARIABLES
    phase,   \* port -> "absent", "live", "draining" or "closed"
    users    \* port -> the agents that use it

lifeVars == <<phase, users>>

LifeInit ==
    /\ phase = [p \in Ports |-> "absent"]
    /\ users = [p \in Ports |-> {}]

Open(p) ==
    /\ phase[p] = "absent"
    /\ phase' = [phase EXCEPT ![p] = "live"]
    /\ UNCHANGED users

Enter(p, a) ==
    /\ phase[p] = "live"
    /\ a \notin users[p]
    /\ users' = [users EXCEPT ![p] = @ \cup {a}]
    /\ UNCHANGED phase

Leave(p, a) ==
    /\ a \in users[p]
    /\ users' = [users EXCEPT ![p] = @ \ {a}]
    /\ UNCHANGED phase

Disconnect(p) ==
    /\ phase[p] = "live"
    /\ phase' = [phase EXCEPT ![p] = "draining"]
    /\ UNCHANGED users

Reclaim(p) ==
    /\ phase[p] = "draining"
    /\ users[p] = {}
    /\ phase' = [phase EXCEPT ![p] = "closed"]
    /\ UNCHANGED users

LifeNext ==
    \E p \in Ports :
        \/ Open(p) \/ Disconnect(p) \/ Reclaim(p)
        \/ \E a \in Agents : Enter(p, a) \/ Leave(p, a)

LifeSpec == LifeInit /\ [][LifeNext]_lifeVars

=============================================================================
