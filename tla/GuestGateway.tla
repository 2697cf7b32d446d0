----------------------------- MODULE GuestGateway -----------------------------
(***************************************************************************)
(* The election of the node that terminates the guest VLAN of a mesh       *)
(* island. Every bumblebee reports what it sees of the mesh in its         *)
(* heartbeat; the server groups the reports into islands, keeps one        *)
(* designation per island in the cache, and answers each heartbeat with    *)
(* whether its sender is the one. A node learns that it has been replaced  *)
(* no earlier than from its next answer.                                   *)
(*                                                                         *)
(* A heartbeat is three steps: the report is saved; the fleet and the      *)
(* cache are read and the choice is made; the choice is cached and         *)
(* answered. Nodes are numbers, ordered as their MACs are.                 *)
(***************************************************************************)
EXTENDS Integers, FiniteSets

CONSTANTS
    Nodes,          \* bumblebees whose firmware may terminate the VLAN, none of
                    \* them taken out of the election by guest_gateway_force
    OldFirmware,    \* those that do not report the topology at first
    VpnDown,        \* those whose VPN is down at first
    Fleet,          \* the cache key of the fleet-wide election
    MaxBeats,       \* bound: heartbeats the server handles at once
    MaxChanges      \* bound: changes of the world

NoNode == -1
Keys == Nodes \cup {Fleet}

ASSUME GatewayAssumption ==
    /\ Nodes \subseteq Nat /\ IsFiniteSet(Nodes)
    /\ OldFirmware \subseteq Nodes /\ VpnDown \subseteq Nodes /\ Fleet \notin Nodes
    /\ {MaxBeats, MaxChanges} \subseteq Nat

VARIABLES
    air,        \* the islands: which nodes hear each other, over whatever hops
    vpn,        \* nodes whose VPN is up
    alive,      \* nodes that reach the server
    modern,     \* nodes with firmware that reports the topology
    report,     \* connection_info and freshness of each node's row
    cache,      \* the designated node under each key
    used,       \* the key each node's last election wrote
    role,       \* nodes that take themselves for the terminator
    beat,       \* the heartbeat each node is waiting for
    changes,    \* history: changes of the world so far
    round       \* history: heartbeats answered since the world last changed

vars == <<air, vpn, alive, modern, report, cache, used, role, beat, changes, round>>
world == <<air, vpn, alive, modern>>

Partitions == {P \in SUBSET (SUBSET Nodes \ {{}}) :
                  UNION P = Nodes /\ \A S, T \in P : S = T \/ S \cap T = {}}

\* What the server stored from the last heartbeat; fresh while it is at most
\* 15 minutes old.
Reports == [fresh : BOOLEAN, topology : BOOLEAN, vpn : BOOLEAN, sees : SUBSET Nodes]
NoReport == [fresh |-> FALSE, topology |-> FALSE, vpn |-> FALSE, sees |-> {}]

Beats == [at : {"idle", "saved", "chosen"}, key : Keys, chosen : Nodes \cup {NoNode}]
NoBeat == [at |-> "idle", key |-> Fleet, chosen |-> NoNode]

\* An election names a node: the one that reports is a candidate itself.
TypeOK ==
    /\ air \in Partitions
    /\ vpn \subseteq Nodes /\ alive \subseteq Nodes /\ modern \subseteq Nodes
    /\ report \in [Nodes -> Reports]
    /\ cache \in [Keys -> Nodes \cup {NoNode}]
    /\ used \in [Nodes -> Keys]
    /\ role \subseteq Nodes
    /\ beat \in [Nodes -> Beats]
    /\ \A n \in Nodes : beat[n].at = "chosen" => beat[n].chosen # NoNode
    /\ changes \in 0 .. MaxChanges
    /\ round \in [begun : SUBSET Nodes, answered : SUBSET Nodes, done : 0 .. 2]

NoRound == [begun |-> {}, answered |-> {}, done |-> 0]

Init ==
    /\ air \in Partitions
    /\ vpn = Nodes \ VpnDown
    /\ alive = Nodes
    /\ modern = Nodes \ OldFirmware
    /\ report = [n \in Nodes |-> NoReport]
    /\ cache = [k \in Keys |-> NoNode]
    /\ used = [n \in Nodes |-> Fleet]
    /\ role = {}
    /\ beat = [n \in Nodes |-> NoBeat]
    /\ changes = 0
    /\ round = NoRound

-----------------------------------------------------------------------------
(* The election *)

\* _fresh_bumblebees
Population == {n \in Nodes : report[n].fresh}

Linked(a, b) == a \in report[b].sees \/ b \in report[a].sees

ClosedUnderLinks(S) == \A a \in S, b \in Population : Linked(a, b) => b \in S

\* The class _compute_islands puts the node n into
IslandOf(n) == {m \in Population : \A S \in SUBSET Population : n \in S /\ ClosedUnderLinks(S) => m \in S}

\* (faulty variant: without a VPN nobody terminates)
VpnCandidates(S) == {n \in S : report[n].vpn}

\* _gw_candidates: with a VPN when there is one
Candidates(S) ==
    IF \E n \in S : report[n].vpn THEN {n \in S : report[n].vpn} ELSE S

First(S) == CHOOSE n \in S : \A m \in S : n <= m

\* (faulty variant: the designation is kept per node)
KeyOfNode(n) == n

IslandKey(n) == First(IslandOf(n))

PerIsland == \A n \in Population : report[n].topology

ElectionKey(n) == IF PerIsland THEN IslandKey(n) ELSE Fleet

\* The cached node stays while it is a candidate; an island without one adopts
\* the fleet-wide one if it can.
Choice(n) ==
    LET candidates == Candidates(IF PerIsland THEN IslandOf(n) ELSE Population)
        incumbent == cache[ElectionKey(n)]
    IN  IF candidates = {} THEN NoNode
        ELSE IF incumbent \in candidates THEN incumbent
        ELSE IF PerIsland /\ cache[Fleet] \in candidates THEN cache[Fleet]
        ELSE First(candidates)

-----------------------------------------------------------------------------
(* Heartbeats *)

Reach(n) == CHOOSE S \in air : n \in S

\* The heartbeat arrives and its report is saved.
Beat(n) ==
    /\ n \in alive /\ beat[n].at = "idle"
    /\ Cardinality({m \in Nodes : beat[m].at # "idle"}) < MaxBeats
    /\ report' = [report EXCEPT ![n] =
          [fresh |-> TRUE, topology |-> n \in modern, vpn |-> n \in vpn,
           sees |-> IF n \in modern THEN Reach(n) \ {n} ELSE {}]]
    /\ beat' = [beat EXCEPT ![n].at = "saved"]
    /\ round' = [round EXCEPT !.begun = @ \cup {n}]
    /\ UNCHANGED <<world, cache, used, role, changes>>

Electing == {n \in Nodes : beat[n].at = "chosen"}

\* Reads the fleet and the cache. Two elections at once start the count again.
Elect(n) ==
    /\ beat[n].at = "saved"
    /\ beat' = [beat EXCEPT ![n] = [at |-> "chosen", key |-> ElectionKey(n), chosen |-> Choice(n)]]
    /\ round' = IF Electing = {} THEN round ELSE NoRound
    /\ UNCHANGED <<world, report, cache, used, role, changes>>

\* A round is over when every node got an answer to a heartbeat begun in it.
Counted(n) ==
    LET answered == IF n \in round.begun THEN round.answered \cup {n} ELSE round.answered IN
    IF alive \subseteq answered
      THEN [begun |-> {}, answered |-> {}, done |-> IF round.done < 2 THEN round.done + 1 ELSE 2]
      ELSE [round EXCEPT !.answered = answered]

\* The choice is cached, and answered to the node.
Tell(n) ==
    /\ beat[n].at = "chosen"
    /\ cache' = [cache EXCEPT ![beat[n].key] = beat[n].chosen]
    /\ used' = [used EXCEPT ![n] = beat[n].key]
    /\ IF n \in alive
         THEN /\ role' = IF beat[n].chosen = n THEN role \cup {n} ELSE role \ {n}
              /\ round' = Counted(n)
         ELSE UNCHANGED <<role, round>>
    /\ beat' = [beat EXCEPT ![n] = NoBeat]
    /\ UNCHANGED <<world, report, changes>>

-----------------------------------------------------------------------------
(* The world *)

Change ==
    /\ changes < MaxChanges
    /\ changes' = changes + 1
    /\ round' = NoRound
    /\ UNCHANGED <<report, cache, used, role, beat>>

LinksChange ==
    /\ air' \in Partitions \ {air}
    /\ Change
    /\ UNCHANGED <<vpn, alive, modern>>

VpnChanges(n) ==
    /\ vpn' = IF n \in vpn THEN vpn \ {n} ELSE vpn \cup {n}
    /\ Change
    /\ UNCHANGED <<air, alive, modern>>

\* A node that cannot reach the server keeps the role it has, and stays on the air.
UplinkChanges(n) ==
    /\ alive' = IF n \in alive THEN alive \ {n} ELSE alive \cup {n}
    /\ Change
    /\ UNCHANGED <<air, vpn, modern>>

Upgrade(n) ==
    /\ n \notin modern
    /\ modern' = modern \cup {n}
    /\ Change
    /\ UNCHANGED <<air, vpn, alive>>

\* Fifteen minutes without a heartbeat
GoStale(n) ==
    /\ n \notin alive /\ report[n].fresh /\ beat[n].at = "idle"
    /\ report' = [report EXCEPT ![n].fresh = FALSE]
    /\ round' = NoRound
    /\ UNCHANGED <<world, cache, used, role, beat, changes>>

\* Thirty minutes without a heartbeat that writes the key
CacheExpires(k) ==
    /\ cache[k] # NoNode
    /\ \A n \in Population : used[n] # k
    /\ cache' = [cache EXCEPT ![k] = NoNode]
    /\ UNCHANGED <<world, report, used, role, beat, changes, round>>

-----------------------------------------------------------------------------
Next ==
    \/ \E n \in Nodes : Beat(n) \/ Elect(n) \/ Tell(n)
    \/ LinksChange
    \/ \E n \in Nodes : VpnChanges(n) \/ UplinkChanges(n) \/ Upgrade(n) \/ GoStale(n)
    \/ \E k \in Keys : CacheExpires(k)

Spec == Init /\ [][Next]_vars

-----------------------------------------------------------------------------
(* Properties *)

\* The server knows which nodes are alive.
FleetKnown == Population \subseteq alive

\* The terminators that have lost the server: nobody takes the role from them, and
\* on the air they may stand beside the one that is elected in their place.
Stranded == role \ alive

\* Of the nodes that hear each other at most one hands out guest leases, stranded
\* ones apart (so at most one in all, where none is stranded); where all nodes that
\* reach the server report the topology exactly one of them does, and it has a VPN
\* if one of them has.
OneTerminator ==
    \A S \in air :
        LET elected == (role \cap S) \ Stranded IN
        /\ Cardinality(elected) <= 1
        /\ alive \subseteq modern /\ S \cap alive # {} =>
              /\ elected # {}
              /\ S \cap alive \cap vpn # {} => elected \subseteq vpn

\* Whatever the cache and the nodes held before, two rounds of heartbeats in a
\* world that stays as it is are enough to have one terminator on every island,
\* besides those that lost the server while they had the role.
SettledInTwoRounds == round.done = 2 /\ FleetKnown => OneTerminator
=============================================================================
