-------------------------- MODULE GuestGatewayProofs --------------------------
(***************************************************************************)
(* Proofs about GuestGateway: two rounds of heartbeats in a world that     *)
(* stays as it is leave one terminator on every island, besides those that *)
(* lost the server, whatever the cache, the rows and the nodes held        *)
(* before, for any number of nodes.                                        *)
(***************************************************************************)
EXTENDS GuestGateway, FiniteSetTheorems, WellFoundedInduction, TLAPS

-----------------------------------------------------------------------------
(* The inductive invariant *)

\* What the server stores from a heartbeat of the node n
Current(n) == [fresh |-> TRUE, topology |-> n \in modern, vpn |-> n \in vpn,
               sees |-> IF n \in modern THEN Reach(n) \ {n} ELSE {}]

\* Who may be designated for the node n
Choosable(n) == Candidates(IF PerIsland THEN IslandOf(n) ELSE Population)

\* Whose heartbeat is being handled has a fresh row.
BeatInv == \A n \in Nodes : beat[n].at # "idle" => report[n].fresh

\* A heartbeat of this round brought the row up to date; after one round all are.
RoundInv ==
    /\ round.answered \subseteq round.begun /\ round.begun \subseteq alive
    /\ \A n \in round.begun : report[n] = Current(n)
    /\ round.done >= 1 => \A n \in alive : report[n] = Current(n)

\* Elections that overlap are older than the round.
OverlapInv ==
    FleetKnown => \A p, q \in Electing :
        p # q => round.done = 0 /\ p \notin round.begun /\ q \notin round.begun

\* After one round, an election in progress has read the rows as they are and
\* will keep a node that its key designates rightly.
ElectionInv ==
    FleetKnown /\ round.done >= 1 => \A n \in Electing :
        /\ beat[n].key = ElectionKey(n)
        /\ beat[n].chosen \in Choosable(n)
        /\ cache[ElectionKey(n)] \in Choosable(n) => beat[n].chosen = cache[ElectionKey(n)]

\* Those who got an answer in the second round
Seen == IF round.done = 2 THEN alive ELSE round.answered

\* They keep their key alive, it designates rightly, and they know whether it is they.
SettledInv ==
    FleetKnown /\ round.done >= 1 => \A n \in Seen :
        /\ used[n] = ElectionKey(n)
        /\ cache[ElectionKey(n)] \in Choosable(n)
        /\ (n \in role <=> cache[ElectionKey(n)] = n)

Inv == TypeOK /\ BeatInv /\ RoundInv /\ OverlapInv /\ ElectionInv /\ SettledInv

-----------------------------------------------------------------------------
(* Lemmas about islands and elections *)

LEMMA LeastNode ==
    ASSUME NEW S \in SUBSET Nodes, S # {}
    PROVE  \E n \in S : \A m \in S : n <= m
<1>1. S \subseteq Nat
  BY GatewayAssumption
<1>2. IsWellFoundedOn(OpToRel(<, Nat), Nat)
  BY NatLessThanWellFounded
<1>3. PICK n \in S : \A m \in S : ~ (<<m, n>> \in OpToRel(<, Nat))
  BY <1>1, <1>2, WFMin, Zenon
<1>4. \A m \in Nat : m < n => <<m, n>> \in OpToRel(<, Nat)
  BY <1>1 DEF OpToRel
<1>5. ASSUME NEW m \in S PROVE n <= m
  <2>1. ~ (m < n)
    BY <1>1, <1>3, <1>4
  <2> QED
    BY <1>1, <2>1
<1> QED
  BY <1>5

LEMMA FirstIn == ASSUME NEW S \in SUBSET Nodes, S # {} PROVE First(S) \in S
  BY LeastNode DEF First

LEMMA InOwnIsland ==
    ASSUME NEW n \in Population
    PROVE  n \in IslandOf(n) /\ IslandOf(n) \in SUBSET Population /\ Population \in SUBSET Nodes
  BY DEF IslandOf, Population

\* An election names a candidate, and keeps the one the key designates.
LEMMA ElectionNames ==
    ASSUME TypeOK, NEW n \in Population
    PROVE  /\ ElectionKey(n) \in Keys /\ Choosable(n) \in SUBSET Nodes /\ Choice(n) \in Choosable(n)
           /\ cache[ElectionKey(n)] \in Choosable(n) => Choice(n) = cache[ElectionKey(n)]
<1> DEFINE S == IF PerIsland THEN IslandOf(n) ELSE Population
<1>1. S \in SUBSET Nodes /\ n \in S
  BY InOwnIsland
<1>2. ElectionKey(n) \in Keys
  <2>1. IslandKey(n) \in Nodes
    BY InOwnIsland, FirstIn DEF IslandKey
  <2> QED
    BY <2>1 DEF ElectionKey, Keys
<1>3. Candidates(S) \in SUBSET Nodes /\ Candidates(S) # {}
  BY <1>1 DEF Candidates
<1>4. Choosable(n) = Candidates(S)
  BY DEF Choosable
<1>5. First(Candidates(S)) \in Candidates(S)
  BY <1>3, FirstIn
<1> HIDE DEF S
<1>6. Choice(n) = IF Candidates(S) = {} THEN NoNode
                  ELSE IF cache[ElectionKey(n)] \in Candidates(S) THEN cache[ElectionKey(n)]
                  ELSE IF PerIsland /\ cache[Fleet] \in Candidates(S) THEN cache[Fleet]
                  ELSE First(Candidates(S))
  BY DEF Choice, S
<1> QED
  BY <1>2, <1>3, <1>4, <1>5, <1>6

\* Islands do not overlap.
LEMMA ReachIs ==
    ASSUME TypeOK, NEW n \in Nodes
    PROVE  /\ Reach(n) \in air /\ n \in Reach(n) /\ Reach(n) \in SUBSET Nodes
           /\ \A S \in air : n \in S => S = Reach(n)
<1>1. /\ air \subseteq SUBSET Nodes /\ UNION air = Nodes
      /\ \A S, T \in air : S = T \/ S \cap T = {}
  BY DEF TypeOK, Partitions
<1>2. \E S \in air : n \in S
  BY <1>1
<1>3. Reach(n) \in air /\ n \in Reach(n)
  BY <1>2 DEF Reach
<1> QED
  BY <1>1, <1>3

-----------------------------------------------------------------------------
(* What the server knows after one round *)

Known == TypeOK /\ FleetKnown /\ RoundInv /\ round.done >= 1

LEMMA CurrentIs ==
    ASSUME NEW n
    PROVE  /\ Current(n).fresh = TRUE /\ Current(n).topology = (n \in modern) /\ Current(n).vpn = (n \in vpn)
           /\ Current(n).sees = IF n \in modern THEN Reach(n) \ {n} ELSE {}
  BY Zenon DEF Current

LEMMA PopulationIs == ASSUME Known PROVE Population = alive
<1>1. \A n \in alive : report[n].fresh
  BY CurrentIs DEF Known, RoundInv
<1> QED
  BY <1>1 DEF Known, TypeOK, FleetKnown, Population

LEMMA PerIslandIs == ASSUME Known PROVE PerIsland <=> alive \subseteq modern
<1>1. \A n \in alive : report[n].topology = (n \in modern)
  BY CurrentIs DEF Known, RoundInv
<1> QED
  BY <1>1, PopulationIs DEF PerIsland

LEMMA IslandIs ==
    ASSUME Known, PerIsland, NEW n \in alive
    PROVE  IslandOf(n) = Reach(n) \cap alive
<1>1. Population = alive /\ alive \subseteq modern /\ alive \subseteq Nodes
  BY PopulationIs, PerIslandIs DEF Known, TypeOK
<1>2. \A m \in alive : report[m].sees = Reach(m) \ {m}
  BY <1>1, CurrentIs DEF Known, RoundInv
<1>3. \A m \in alive : m \in Reach(m) /\ Reach(m) \in air
  BY <1>1, ReachIs DEF Known
<1>4. \A a, b \in alive : b \in Reach(a) => Reach(b) = Reach(a)
  BY <1>1, <1>3, ReachIs DEF Known
<1>5. ClosedUnderLinks(Reach(n) \cap alive)
  <2> SUFFICES ASSUME NEW a \in Reach(n) \cap alive, NEW b \in alive, Linked(a, b)
               PROVE  b \in Reach(n)
    BY <1>1 DEF ClosedUnderLinks
  <2>1. Reach(a) = Reach(n)
    BY <1>4
  <2>2. b \in Reach(a) \/ a \in Reach(b)
    BY <1>2 DEF Linked
  <2> QED
    BY <1>3, <1>4, <2>1, <2>2
<1>6. IslandOf(n) \subseteq Reach(n) \cap alive
  <2>1. n \in Reach(n) \cap alive /\ Reach(n) \cap alive \in SUBSET Population
    BY <1>1, <1>3
  <2> QED
    BY <1>5, <2>1 DEF IslandOf
<1>7. ASSUME NEW m \in Reach(n) \cap alive PROVE m \in IslandOf(n)
  <2> SUFFICES ASSUME NEW S \in SUBSET Population, n \in S, ClosedUnderLinks(S) PROVE m \in S
    BY <1>1 DEF IslandOf
  <2>1. m = n \/ m \in report[n].sees
    BY <1>2
  <2> QED
    BY <1>1, <2>1 DEF ClosedUnderLinks, Linked
<1> QED
  BY <1>6, <1>7

\* Who shares a key shares the candidates.
LEMMA KeyOfCandidates ==
    ASSUME Known, NEW n \in alive, NEW m \in alive, ElectionKey(n) = ElectionKey(m)
    PROVE  Choosable(n) = Choosable(m)
<1>1. alive \subseteq Nodes /\ Population = alive
  BY PopulationIs DEF Known, TypeOK
<1>2. CASE ~PerIsland
  BY <1>2 DEF Choosable
<1>3. CASE PerIsland
  <2>1. IslandOf(n) = Reach(n) \cap alive /\ IslandOf(m) = Reach(m) \cap alive
    BY <1>3, IslandIs
  <2>2. First(IslandOf(n)) \in IslandOf(n) /\ First(IslandOf(m)) \in IslandOf(m)
    BY <1>1, InOwnIsland, FirstIn
  <2>3. First(IslandOf(n)) = First(IslandOf(m))
    BY <1>3 DEF ElectionKey, IslandKey
  <2>4. Reach(n) = Reach(m)
    BY <1>1, <2>1, <2>2, <2>3, ReachIs DEF Known
  <2> QED
    BY <2>1, <2>4 DEF Choosable
<1> QED
  BY <1>2, <1>3

\* All who share an island with n share its key; they see one node there.
LEMMA SettledIsOne == Inv => SettledInTwoRounds
<1> SUFFICES ASSUME Inv, round.done = 2, FleetKnown, NEW S \in air
             PROVE  LET elected == (role \cap S) \ Stranded IN
                    /\ Cardinality(elected) <= 1
                    /\ alive \subseteq modern /\ S \cap alive # {} =>
                          /\ elected # {}
                          /\ S \cap alive \cap vpn # {} => elected \subseteq vpn
  BY DEF SettledInTwoRounds, OneTerminator
<1> DEFINE T == S \cap alive
           seated == role \cap T
<1>1. Known /\ alive \subseteq Nodes /\ Population = alive
  BY PopulationIs DEF Inv, Known, TypeOK
<1>2. \A n \in alive : cache[ElectionKey(n)] \in Choosable(n) /\ (n \in role <=> cache[ElectionKey(n)] = n)
  BY DEF Inv, SettledInv, Seen
<1>3. \A n \in T : Reach(n) = S
  BY <1>1, ReachIs DEF Known
<1>4. \A n, m \in T : ElectionKey(n) = ElectionKey(m)
  <2> SUFFICES ASSUME NEW n \in T, NEW m \in T PROVE ElectionKey(n) = ElectionKey(m)
    OBVIOUS
  <2>1. CASE ~PerIsland
    BY <2>1 DEF ElectionKey
  <2>2. CASE PerIsland
    <3>1. IslandOf(n) = T /\ IslandOf(m) = T
      BY <1>1, <1>3, <2>2, IslandIs
    <3> QED
      BY <2>2, <3>1 DEF ElectionKey, IslandKey
  <2> QED
    BY <2>1, <2>2
<1>5. ASSUME NEW n \in seated, NEW m \in seated PROVE n = m
  <2>1. n \in T /\ m \in T /\ n \in alive /\ m \in alive /\ n \in role /\ m \in role
    OBVIOUS
  <2>2. cache[ElectionKey(n)] = n /\ cache[ElectionKey(m)] = m
    BY <1>2, <2>1
  <2>3. ElectionKey(n) = ElectionKey(m)
    BY <1>4, <2>1
  <2> QED
    BY <2>2, <2>3
<1>6. Cardinality(seated) <= 1
  <2>1. CASE seated = {}
    BY <2>1, FS_EmptySet
  <2>2. CASE seated # {}
    <3>1. PICK n \in seated : seated = {n}
      BY <1>5, <2>2
    <3> QED
      BY <3>1, FS_Singleton
  <2> QED
    BY <2>1, <2>2
<1>7. ASSUME alive \subseteq modern, T # {}
      PROVE  seated # {} /\ (T \cap vpn # {} => seated \subseteq vpn)
  <2>1. PICK n \in T : TRUE
    BY <1>7
  <2>2. PerIsland
    BY <1>1, <1>7, PerIslandIs
  <2>3. Choosable(n) = Candidates(T)
    BY <1>1, <1>3, <2>1, <2>2, IslandIs DEF Choosable
  <2>4. \A m \in T : report[m].vpn = (m \in vpn)
    BY <1>1, CurrentIs DEF Known, RoundInv
  <2> DEFINE m == cache[ElectionKey(n)]
  <2>5. m \in T /\ (T \cap vpn # {} => m \in vpn)
    <3>1. m \in Candidates(T)
      BY <1>2, <2>3
    <3>2. CASE \E q \in T : report[q].vpn
      <4>1. m \in {q \in T : report[q].vpn}
        BY <3>1, <3>2 DEF Candidates
      <4> QED
        BY <2>4, <4>1
    <3>3. CASE ~(\E q \in T : report[q].vpn)
      <4>1. m \in T
        BY <3>1, <3>3 DEF Candidates
      <4>2. T \cap vpn = {}
        <5>1. ASSUME NEW q \in T, q \in vpn PROVE FALSE
          BY <2>4, <3>3, <5>1
        <5> QED
          BY <5>1
      <4> QED
        BY <4>1, <4>2
    <3> QED
      BY <3>2, <3>3
  <2>6. m \in seated
    <3>1. ElectionKey(m) = ElectionKey(n)
      BY <1>4, <2>5
    <3> QED
      BY <1>2, <2>5, <3>1
  <2> QED
    BY <1>5, <2>5, <2>6
<1>8. (role \cap S) \ Stranded = seated
  BY DEF Stranded
<1> QED
  BY <1>6, <1>7, <1>8

-----------------------------------------------------------------------------
(* Every step keeps the invariant *)

\* The islands and the candidates are read off the rows.
LEMMA RowsSame ==
    ASSUME UNCHANGED report
    PROVE  /\ Population' = Population
           /\ \A n \in Nodes : ElectionKey(n)' = ElectionKey(n) /\ Choosable(n)' = Choosable(n)
<1>1. Population' = Population
  BY DEF Population
<1>2. PerIsland' <=> PerIsland
  BY <1>1 DEF PerIsland
<1>3. \A n \in Nodes : IslandOf(n)' = IslandOf(n)
  BY <1>1 DEF IslandOf, ClosedUnderLinks, Linked
<1>4. \A S : Candidates(S)' = Candidates(S)
  BY DEF Candidates
<1>5. \A n \in Nodes : ElectionKey(n)' = ElectionKey(n)
  BY <1>2, <1>3 DEF ElectionKey, IslandKey
<1>6. \A n \in Nodes : Choosable(n)' = Choosable(n)
  BY <1>1, <1>2, <1>3, <1>4 DEF Choosable
<1> QED
  BY <1>1, <1>5, <1>6

LEMMA CurrentSame == ASSUME UNCHANGED world PROVE \A n \in Nodes : Current(n)' = Current(n)
  BY DEF world, Current, Reach

\* Where the rounds start again there is nothing to show.
LEMMA ResetKeeps ==
    ASSUME TypeOK', BeatInv', round' = NoRound
    PROVE  Inv'
  BY DEF Inv, RoundInv, OverlapInv, ElectionInv, SettledInv, NoRound

LEMMA InitInv == Init => Inv
<1> SUFFICES ASSUME Init PROVE Inv
  OBVIOUS
<1>1. NoReport \in Reports /\ NoBeat \in Beats
  BY DEF NoReport, Reports, NoBeat, Beats, Keys
<1>2. NoRound \in [begun : SUBSET Nodes, answered : SUBSET Nodes, done : 0 .. 2]
  BY DEF NoRound
<1>3. TypeOK
  BY <1>1, <1>2, GatewayAssumption DEF Init, TypeOK, Keys, NoBeat
<1>4. BeatInv
  BY DEF Init, BeatInv, NoBeat
<1> QED
  BY <1>3, <1>4 DEF Init, Inv, RoundInv, OverlapInv, ElectionInv, SettledInv, NoRound

\* The world changes, or one row leaves the election.
LEMMA WorldSteps ==
    ASSUME Inv,
           LinksChange \/ \E n \in Nodes : VpnChanges(n) \/ UplinkChanges(n) \/ Upgrade(n) \/ GoStale(n)
    PROVE  Inv'
<1>1. NoRound \in [begun : SUBSET Nodes, answered : SUBSET Nodes, done : 0 .. 2]
  BY DEF NoRound
<1>2. ASSUME Change, air' \in Partitions, vpn' \subseteq Nodes, alive' \subseteq Nodes, modern' \subseteq Nodes
      PROVE  Inv'
  <2>1. changes' \in 0 .. MaxChanges
    BY <1>2, GatewayAssumption DEF Inv, TypeOK, Change
  <2>2. TypeOK' /\ BeatInv'
    BY <1>1, <1>2, <2>1 DEF Inv, TypeOK, BeatInv, Change
  <2> QED
    BY <1>2, <2>2, ResetKeeps DEF Change
<1>3. CASE LinksChange
  BY <1>2, <1>3 DEF LinksChange, Inv, TypeOK
<1>4. ASSUME NEW n \in Nodes, VpnChanges(n) PROVE Inv'
  BY <1>2, <1>4 DEF VpnChanges, Inv, TypeOK
<1>5. ASSUME NEW n \in Nodes, UplinkChanges(n) PROVE Inv'
  BY <1>2, <1>5 DEF UplinkChanges, Inv, TypeOK
<1>6. ASSUME NEW n \in Nodes, Upgrade(n) PROVE Inv'
  BY <1>2, <1>6 DEF Upgrade, Inv, TypeOK
<1>7. ASSUME NEW n \in Nodes, GoStale(n) PROVE Inv'
  <2>1. report' = [report EXCEPT ![n] = [report[n] EXCEPT !.fresh = FALSE]]
    BY <1>7 DEF GoStale
  <2>2. report[n] \in Reports /\ [report[n] EXCEPT !.fresh = FALSE] \in Reports
    <3>1. report[n] \in Reports
      BY <1>7 DEF Inv, TypeOK
    <3> QED
      BY <3>1 DEF Reports
  <2>3. TypeOK'
    BY <1>1, <1>7, <2>1, <2>2 DEF Inv, TypeOK, GoStale, world
  <2>4. BeatInv'
    BY <1>7, <2>1 DEF Inv, TypeOK, BeatInv, GoStale
  <2> QED
    BY <1>7, <2>3, <2>4, ResetKeeps DEF GoStale
<1> QED
  BY <1>3, <1>4, <1>5, <1>6, <1>7

\* Whom the server counts on is alive when the fleet is known.
LEMMA SeenAlive == ASSUME Inv PROVE Seen \subseteq alive /\ alive \subseteq Nodes
  BY DEF Inv, Seen, RoundInv, TypeOK

LEMMA ElectingAlive == ASSUME Inv, FleetKnown PROVE Electing \subseteq alive
<1>1. \A n \in Electing : n \in Nodes /\ beat[n].at = "chosen"
  BY DEF Electing
<1>2. \A n \in Electing : n \in Population
  BY <1>1 DEF Inv, BeatInv, Population
<1> QED
  BY <1>2 DEF FleetKnown

\* A row is saved: after one round it says what it said before.
LEMMA BeatStep == ASSUME Inv, NEW n \in Nodes, Beat(n) PROVE Inv'
<1>1. /\ n \in alive /\ beat[n].at = "idle"
      /\ report' = [report EXCEPT ![n] = Current(n)]
      /\ beat' = [beat EXCEPT ![n] = [beat[n] EXCEPT !.at = "saved"]]
      /\ round' = [round EXCEPT !.begun = round.begun \cup {n}]
      /\ UNCHANGED <<world, cache, used, role, changes>>
  BY DEF Beat, Current
<1>2. TypeOK
  BY DEF Inv
<1>3. Reach(n) \in SUBSET Nodes
  BY <1>2, ReachIs
<1>4. Current(n) \in Reports
  BY <1>3 DEF Current, Reports
<1>5. beat[n] \in Beats /\ [beat[n] EXCEPT !.at = "saved"] \in Beats
  BY <1>2 DEF TypeOK, Beats
<1>6. /\ round'.begun = round.begun \cup {n} /\ round'.answered = round.answered /\ round'.done = round.done
      /\ round' \in [begun : SUBSET Nodes, answered : SUBSET Nodes, done : 0 .. 2]
  BY <1>1, <1>2 DEF TypeOK
<1>7. beat'[n].at = "saved" /\ \A q \in Nodes \ {n} : beat'[q] = beat[q]
  BY <1>1, <1>2, <1>5 DEF TypeOK, Beats
<1>8. TypeOK'
  <2>1. beat' \in [Nodes -> Beats] /\ report' \in [Nodes -> Reports]
    BY <1>1, <1>2, <1>4, <1>5 DEF TypeOK
  <2>2. \A q \in Nodes : beat'[q].at = "chosen" => beat'[q].chosen # NoNode
    BY <1>2, <1>7 DEF TypeOK
  <2> QED
    BY <1>1, <1>2, <1>6, <2>1, <2>2 DEF TypeOK, world
<1>9. report'[n] = Current(n) /\ \A q \in Nodes \ {n} : report'[q] = report[q]
  BY <1>1, <1>2 DEF TypeOK
<1>10. BeatInv'
  BY <1>7, <1>9, CurrentIs DEF Inv, BeatInv
<1>11. RoundInv'
  <2>1. \A q \in Nodes : Current(q)' = Current(q)
    BY <1>1, CurrentSame
  <2>2. alive' = alive /\ alive \subseteq Nodes
    BY <1>1, <1>2 DEF world, TypeOK
  <2> QED
    BY <1>1, <1>6, <1>9, <2>1, <2>2 DEF Inv, RoundInv
<1>12. Electing' = Electing /\ n \notin Electing
  BY <1>1, <1>7 DEF Electing
<1>13. FleetKnown' => FleetKnown
  BY <1>1, <1>9 DEF FleetKnown, Population, world
<1>14. OverlapInv'
  BY <1>6, <1>12, <1>13 DEF Inv, OverlapInv
<1>15. ASSUME FleetKnown, round.done >= 1 PROVE UNCHANGED report
  BY <1>1, <1>2, <1>15 DEF Inv, RoundInv, TypeOK
<1>16. ElectionInv'
  <2> SUFFICES ASSUME FleetKnown', round'.done >= 1, NEW q \in Electing
               PROVE  /\ beat'[q].key = ElectionKey(q)'
                      /\ beat'[q].chosen \in Choosable(q)'
                      /\ cache'[ElectionKey(q)'] \in Choosable(q)' => beat'[q].chosen = cache'[ElectionKey(q)']
    BY <1>12 DEF ElectionInv
  <2>1. q \in Nodes \ {n}
    BY <1>12 DEF Electing
  <2>2. ElectionKey(q)' = ElectionKey(q) /\ Choosable(q)' = Choosable(q) /\ beat'[q] = beat[q] /\ cache' = cache
    BY <1>1, <1>6, <1>7, <1>13, <1>15, <2>1, RowsSame
  <2> QED
    BY <1>6, <1>13, <2>2 DEF Inv, ElectionInv
<1>17. SettledInv'
  <2>1. Seen' = Seen
    BY <1>1, <1>6 DEF Seen, world
  <2> SUFFICES ASSUME FleetKnown', round'.done >= 1, NEW q \in Seen
               PROVE  /\ used'[q] = ElectionKey(q)'
                      /\ cache'[ElectionKey(q)'] \in Choosable(q)'
                      /\ (q \in role' <=> cache'[ElectionKey(q)'] = q)
    BY <2>1 DEF SettledInv
  <2>2. q \in Nodes
    BY SeenAlive
  <2>3. ElectionKey(q)' = ElectionKey(q) /\ Choosable(q)' = Choosable(q)
    BY <1>6, <1>13, <1>15, <2>2, RowsSame
  <2> QED
    BY <1>1, <1>6, <1>13, <2>3 DEF Inv, SettledInv
<1> QED
  BY <1>8, <1>10, <1>11, <1>14, <1>16, <1>17 DEF Inv

\* An election that is alone reads the rows and the cache as they will be answered.
LEMMA ElectStep == ASSUME Inv, NEW n \in Nodes, Elect(n) PROVE Inv'
<1> DEFINE chosen == [at |-> "chosen", key |-> ElectionKey(n), chosen |-> Choice(n)]
<1>1. /\ beat[n].at = "saved"
      /\ beat' = [beat EXCEPT ![n] = chosen]
      /\ round' = IF Electing = {} THEN round ELSE NoRound
      /\ UNCHANGED <<world, report, cache, used, role, changes>>
  BY DEF Elect
<1>2. TypeOK /\ n \in Population
  BY <1>1 DEF Inv, BeatInv, Population
<1>3. /\ ElectionKey(n) \in Keys /\ Choosable(n) \in SUBSET Nodes /\ Choice(n) \in Choosable(n)
      /\ cache[ElectionKey(n)] \in Choosable(n) => Choice(n) = cache[ElectionKey(n)]
  BY <1>2, ElectionNames
<1>4. Choice(n) \in Nodes /\ Choice(n) # NoNode
  BY <1>3, GatewayAssumption DEF NoNode
<1>5. chosen \in Beats /\ chosen.at = "chosen" /\ chosen.key = ElectionKey(n) /\ chosen.chosen = Choice(n)
  BY <1>3, <1>4 DEF Beats
<1> HIDE DEF chosen
<1>6. beat'[n] = chosen /\ \A q \in Nodes \ {n} : beat'[q] = beat[q]
  BY <1>1, <1>2 DEF TypeOK
<1>7. TypeOK'
  <2>1. NoRound \in [begun : SUBSET Nodes, answered : SUBSET Nodes, done : 0 .. 2]
    BY DEF NoRound
  <2>2. beat' \in [Nodes -> Beats]
    BY <1>1, <1>2, <1>5 DEF TypeOK
  <2>3. \A q \in Nodes : beat'[q].at = "chosen" => beat'[q].chosen # NoNode
    BY <1>2, <1>4, <1>5, <1>6 DEF TypeOK
  <2> QED
    BY <1>1, <1>2, <2>1, <2>2, <2>3 DEF TypeOK, world
<1>8. BeatInv'
  BY <1>1, <1>6 DEF Inv, BeatInv
<1>9. CASE Electing # {}
  BY <1>1, <1>7, <1>8, <1>9, ResetKeeps
<1>10. CASE Electing = {}
  <2>1. round' = round /\ Electing' = {n}
    BY <1>1, <1>5, <1>6, <1>10 DEF Electing
  <2>2. /\ Population' = Population
        /\ \A q \in Nodes : ElectionKey(q)' = ElectionKey(q) /\ Choosable(q)' = Choosable(q)
    BY <1>1, RowsSame
  <2>3. FleetKnown' <=> FleetKnown
    BY <1>1, <2>2 DEF FleetKnown, world
  <2>4. RoundInv'
    <3>1. \A q \in Nodes : Current(q)' = Current(q)
      BY <1>1, CurrentSame
    <3>2. alive' = alive /\ alive \subseteq Nodes
      BY <1>1, <1>2 DEF world, TypeOK
    <3> QED
      BY <1>1, <2>1, <3>1, <3>2 DEF Inv, RoundInv
  <2>5. OverlapInv'
    BY <2>1 DEF OverlapInv
  <2>6. ElectionInv'
    BY <1>1, <1>3, <1>5, <1>6, <2>1, <2>2 DEF ElectionInv
  <2>7. SettledInv'
    <3>1. Seen' = Seen
      BY <1>1, <2>1 DEF Seen, world
    <3> QED
      BY <1>1, <2>1, <2>2, <2>3, <3>1, SeenAlive DEF Inv, SettledInv
  <2> QED
    BY <1>7, <1>8, <2>4, <2>5, <2>6, <2>7 DEF Inv
<1> QED
  BY <1>9, <1>10

\* A designation that lapses is none that somebody of this round was told.
LEMMA ExpiryStep == ASSUME Inv, NEW k \in Keys, CacheExpires(k) PROVE Inv'
<1>1. /\ \A n \in Population : used[n] # k
      /\ cache' = [cache EXCEPT ![k] = NoNode]
      /\ UNCHANGED <<world, report, used, role, beat, changes, round>>
  BY DEF CacheExpires
<1>2. TypeOK
  BY DEF Inv
<1>3. cache' \in [Keys -> Nodes \cup {NoNode}] /\ cache'[k] = NoNode /\ \A l \in Keys \ {k} : cache'[l] = cache[l]
  BY <1>1, <1>2 DEF TypeOK
<1>4. TypeOK'
  BY <1>1, <1>2, <1>3 DEF TypeOK, world
<1>5. BeatInv'
  BY <1>1 DEF Inv, BeatInv
<1>6. /\ Population' = Population
      /\ \A q \in Nodes : ElectionKey(q)' = ElectionKey(q) /\ Choosable(q)' = Choosable(q)
  BY <1>1, RowsSame
<1>7. FleetKnown' <=> FleetKnown
  BY <1>1, <1>6 DEF FleetKnown, world
<1>8. Electing' = Electing /\ Seen' = Seen
  BY <1>1 DEF Electing, Seen, world
<1>9. RoundInv'
  <2>1. \A q \in Nodes : Current(q)' = Current(q)
    BY <1>1, CurrentSame
  <2>2. alive' = alive /\ alive \subseteq Nodes
    BY <1>1, <1>2 DEF world, TypeOK
  <2> QED
    BY <1>1, <2>1, <2>2 DEF Inv, RoundInv
<1>10. OverlapInv'
  BY <1>1, <1>7, <1>8 DEF Inv, OverlapInv
<1>11. ASSUME FleetKnown, round.done >= 1
       PROVE  Population = alive /\ \A q \in alive : ElectionKey(q) \in Keys /\ Choosable(q) \in SUBSET Nodes
  <2>1. Population = alive
    BY <1>2, <1>11, PopulationIs DEF Known, Inv
  <2> QED
    BY <1>2, <2>1, ElectionNames
<1>12. ElectionInv'
  <2> SUFFICES ASSUME FleetKnown, round.done >= 1, NEW q \in Electing
               PROVE  /\ beat[q].key = ElectionKey(q)
                      /\ beat[q].chosen \in Choosable(q)
                      /\ cache'[ElectionKey(q)] \in Choosable(q) => beat[q].chosen = cache'[ElectionKey(q)]
    <3>1. Electing \subseteq Nodes
      BY DEF Electing
    <3> QED
      BY <1>1, <1>6, <1>7, <1>8, <3>1 DEF ElectionInv
  <2>1. q \in alive
    BY ElectingAlive
  <2>2. NoNode \notin Nodes
    BY GatewayAssumption DEF NoNode
  <2>3. cache'[ElectionKey(q)] \in Choosable(q) => cache'[ElectionKey(q)] = cache[ElectionKey(q)]
    BY <1>3, <1>11, <2>1, <2>2
  <2> QED
    BY <2>3 DEF Inv, ElectionInv
<1>13. SettledInv'
  <2> SUFFICES ASSUME FleetKnown, round.done >= 1, NEW q \in Seen
               PROVE  /\ used[q] = ElectionKey(q)
                      /\ cache'[ElectionKey(q)] \in Choosable(q)
                      /\ (q \in role <=> cache'[ElectionKey(q)] = q)
    BY <1>1, <1>6, <1>7, <1>8, SeenAlive DEF SettledInv
  <2>1. q \in alive /\ used[q] = ElectionKey(q)
    BY SeenAlive DEF Inv, SettledInv
  <2>2. cache'[ElectionKey(q)] = cache[ElectionKey(q)]
    BY <1>1, <1>3, <1>11, <2>1
  <2> QED
    BY <2>2 DEF Inv, SettledInv
<1> QED
  BY <1>4, <1>5, <1>9, <1>10, <1>12, <1>13 DEF Inv

-----------------------------------------------------------------------------
(* An answer *)

\* Those who got an answer once n has got this one
Heard(n) == IF n \in round.begun THEN round.answered \cup {n} ELSE round.answered

\* What the answer leaves of the round
LEMMA CountedIs ==
    ASSUME TypeOK, NEW n \in Nodes
    PROVE  /\ Counted(n) \in [begun : SUBSET Nodes, answered : SUBSET Nodes, done : 0 .. 2]
           /\ alive \subseteq Heard(n) =>
                 /\ Counted(n).begun = {} /\ Counted(n).answered = {}
                 /\ Counted(n).done = IF round.done < 2 THEN round.done + 1 ELSE 2
           /\ ~(alive \subseteq Heard(n)) =>
                 Counted(n).begun = round.begun /\ Counted(n).answered = Heard(n) /\ Counted(n).done = round.done
<1>1. /\ round \in [begun : SUBSET Nodes, answered : SUBSET Nodes, done : 0 .. 2]
      /\ Heard(n) \in SUBSET Nodes
  BY DEF TypeOK, Heard
<1>2. Counted(n) = IF alive \subseteq Heard(n)
                     THEN [begun |-> {}, answered |-> {}, done |-> IF round.done < 2 THEN round.done + 1 ELSE 2]
                     ELSE [round EXCEPT !.answered = Heard(n)]
  BY DEF Counted, Heard
<1>3. CASE alive \subseteq Heard(n)
  BY <1>1, <1>2, <1>3
<1>4. CASE ~(alive \subseteq Heard(n))
  BY <1>1, <1>2, <1>4
<1> QED
  BY <1>3, <1>4

\* An answer is the only one under way after the first round; it leaves its key
\* to the node that all others who hold the key have been told.
LEMMA TellStep == ASSUME Inv, NEW n \in Nodes, Tell(n) PROVE Inv'
<1>1. /\ beat[n].at = "chosen"
      /\ cache' = [cache EXCEPT ![beat[n].key] = beat[n].chosen]
      /\ used' = [used EXCEPT ![n] = beat[n].key]
      /\ n \in alive => round' = Counted(n) /\ role' = IF beat[n].chosen = n THEN role \cup {n} ELSE role \ {n}
      /\ n \notin alive => UNCHANGED <<role, round>>
      /\ beat' = [beat EXCEPT ![n] = NoBeat]
      /\ UNCHANGED <<world, report, changes>>
  BY DEF Tell
<1>2. TypeOK
  BY DEF Inv
<1>3. NoBeat \in Beats /\ NoBeat.at = "idle"
  BY DEF NoBeat, Beats, Keys
<1>4. beat[n] \in Beats /\ beat[n].key \in Keys /\ beat[n].chosen \in Nodes
  BY <1>1, <1>2 DEF TypeOK, Beats
<1>5. beat'[n] = NoBeat /\ \A q \in Nodes \ {n} : beat'[q] = beat[q]
  BY <1>1, <1>2 DEF TypeOK
<1>6. TypeOK'
  <2>1. beat' \in [Nodes -> Beats] /\ cache' \in [Keys -> Nodes \cup {NoNode}] /\ used' \in [Nodes -> Keys]
    BY <1>1, <1>2, <1>3, <1>4 DEF TypeOK
  <2>2. \A q \in Nodes : beat'[q].at = "chosen" => beat'[q].chosen # NoNode
    BY <1>2, <1>3, <1>5 DEF TypeOK
  <2>3. round' \in [begun : SUBSET Nodes, answered : SUBSET Nodes, done : 0 .. 2]
    BY <1>1, <1>2, CountedIs DEF TypeOK
  <2>4. role' \subseteq Nodes
    BY <1>1, <1>2 DEF TypeOK
  <2> QED
    BY <1>1, <1>2, <2>1, <2>2, <2>3, <2>4 DEF TypeOK, world
<1>7. BeatInv'
  BY <1>1, <1>3, <1>5 DEF Inv, BeatInv
<1>8. Electing' = Electing \ {n} /\ n \in Electing
  BY <1>1, <1>3, <1>5 DEF Electing
<1>9. /\ Population' = Population
      /\ \A q \in Nodes : ElectionKey(q)' = ElectionKey(q) /\ Choosable(q)' = Choosable(q)
  BY <1>1, RowsSame
<1>10. alive' = alive /\ alive \subseteq Nodes /\ \A q \in Nodes : Current(q)' = Current(q)
  BY <1>1, <1>2, CurrentSame DEF world, TypeOK
<1>11. FleetKnown' <=> FleetKnown
  BY <1>9, <1>10 DEF FleetKnown
<1>12. round.answered \subseteq Heard(n) /\ Heard(n) \subseteq round.begun /\ Heard(n) \subseteq round.answered \cup {n}
  BY DEF Inv, RoundInv, Heard
<1>13. round.done \in 0 .. 2
  BY <1>2 DEF TypeOK
<1> DEFINE closes == n \in alive /\ alive \subseteq Heard(n)
<1>14. closes => /\ round'.begun = {} /\ round'.answered = {}
                 /\ round'.done = IF round.done < 2 THEN round.done + 1 ELSE 2
  BY <1>1, <1>2, CountedIs
<1>15. ~closes => /\ round'.begun = round.begun /\ round'.done = round.done
                  /\ round'.answered \subseteq Heard(n) /\ round'.answered \subseteq round.answered \cup {n}
  BY <1>1, <1>2, <1>12, CountedIs
<1> HIDE DEF closes
<1>16. RoundInv'
  <2>1. CASE closes
    <3>1. \A q \in alive : report[q] = Current(q)
      BY <1>12, <2>1 DEF Inv, RoundInv, closes
    <3> QED
      BY <1>1, <1>10, <1>14, <2>1, <3>1 DEF RoundInv
  <2>2. CASE ~closes
    <3>1. round'.answered \subseteq round'.begun
      BY <1>12, <1>15, <2>2
    <3> QED
      BY <1>1, <1>10, <1>15, <2>2, <3>1 DEF Inv, RoundInv
  <2> QED
    BY <2>1, <2>2
\* An election that is not alone has not been begun in this round, which cannot close.
<1>17. ASSUME FleetKnown, NEW q \in Electing, q # n
       PROVE  ~closes /\ round'.done = 0 /\ q \notin round'.begun
  <2>1. round.done = 0 /\ q \notin round.begun
    BY <1>8, <1>17 DEF Inv, OverlapInv
  <2>2. q \in alive
    BY <1>17, ElectingAlive
  <2>3. ~closes
    BY <1>12, <2>1, <2>2 DEF closes
  <2> QED
    BY <1>15, <2>1, <2>3
<1>18. OverlapInv'
  BY <1>8, <1>11, <1>17 DEF OverlapInv
<1>19. ElectionInv'
  BY <1>8, <1>11, <1>17 DEF ElectionInv
<1>20. SettledInv'
  <2> SUFFICES ASSUME FleetKnown, round'.done >= 1, NEW q \in Seen'
               PROVE  /\ used'[q] = ElectionKey(q)
                      /\ cache'[ElectionKey(q)] \in Choosable(q)
                      /\ (q \in role' <=> cache'[ElectionKey(q)] = q)
    <3>1. Seen' \subseteq Nodes
      BY <1>6, <1>10 DEF Seen, TypeOK
    <3> QED
      BY <1>9, <1>11, <3>1 DEF SettledInv
  <2>1. round.done >= 1
    <3>1. CASE closes /\ round.done = 0
      <4>1. Seen' = {}
        BY <1>14, <3>1 DEF Seen
      <4> QED
        BY <4>1
    <3>2. CASE closes /\ round.done # 0
      BY <1>13, <3>2
    <3>3. CASE ~closes
      BY <1>15, <3>3
    <3> QED
      BY <3>1, <3>2, <3>3
  <2>2. Known /\ Population = alive
    BY <1>2, <2>1, PopulationIs DEF Known, Inv
  <2>3. n \in alive
    BY <1>8, ElectingAlive
  <2>4. /\ beat[n].key = ElectionKey(n) /\ beat[n].chosen \in Choosable(n)
        /\ cache[ElectionKey(n)] \in Choosable(n) => beat[n].chosen = cache[ElectionKey(n)]
    BY <1>8, <2>1 DEF Inv, ElectionInv
  <2>5. cache'[ElectionKey(n)] = beat[n].chosen /\ \A k \in Keys \ {ElectionKey(n)} : cache'[k] = cache[k]
    BY <1>1, <1>2, <1>4, <2>4 DEF TypeOK
  <2>6. used'[n] = ElectionKey(n) /\ \A m \in Nodes \ {n} : used'[m] = used[m]
    BY <1>1, <1>2, <2>4 DEF TypeOK
  <2>7. q \in Seen \/ q = n
    <3>1. CASE closes
      <4>1. q \in alive
        BY <1>10, <1>14, <3>1 DEF Seen
      <4> QED
        BY <1>12, <3>1, <4>1 DEF closes, Seen
    <3>2. CASE ~closes
      BY <1>10, <1>15, <3>2 DEF Seen
    <3> QED
      BY <3>1, <3>2
  <2>8. CASE q = n
    BY <1>1, <2>3, <2>4, <2>5, <2>6, <2>8
  <2>9. CASE q \in Seen /\ q # n
    <3>1. q \in alive /\ q \in Nodes
      BY <2>9, SeenAlive
    <3>2. /\ used[q] = ElectionKey(q) /\ cache[ElectionKey(q)] \in Choosable(q)
          /\ (q \in role <=> cache[ElectionKey(q)] = q)
      BY <2>1, <2>9 DEF Inv, SettledInv
    <3>3. cache'[ElectionKey(q)] = cache[ElectionKey(q)]
      <4>1. CASE ElectionKey(q) = ElectionKey(n)
        <5>1. Choosable(q) = Choosable(n)
          BY <2>2, <2>3, <3>1, <4>1, KeyOfCandidates
        <5> QED
          BY <2>4, <2>5, <3>2, <4>1, <5>1
      <4>2. CASE ElectionKey(q) # ElectionKey(n)
        <5>1. ElectionKey(q) \in Keys
          BY <1>2, <2>2, <3>1, ElectionNames
        <5> QED
          BY <2>5, <4>2, <5>1
      <4> QED
        BY <4>1, <4>2
    <3>4. q \in role' <=> q \in role
      BY <1>1, <2>3, <2>9
    <3> QED
      BY <2>6, <2>9, <3>1, <3>2, <3>3, <3>4
  <2> QED
    BY <2>7, <2>8, <2>9
<1> QED
  BY <1>6, <1>7, <1>16, <1>18, <1>19, <1>20 DEF Inv

-----------------------------------------------------------------------------
(* Theorems *)

LEMMA StillInv == ASSUME Inv, UNCHANGED vars PROVE Inv'
<1>1. UNCHANGED world
  BY DEF vars, world
<1>2. TypeOK'
  BY DEF Inv, vars, TypeOK
<1>3. BeatInv'
  BY DEF Inv, vars, BeatInv
<1>4. /\ Population' = Population
      /\ \A q \in Nodes : ElectionKey(q)' = ElectionKey(q) /\ Choosable(q)' = Choosable(q)
  BY RowsSame DEF vars
<1>5. (FleetKnown' <=> FleetKnown) /\ Electing' = Electing /\ Seen' = Seen
  BY <1>4 DEF vars, FleetKnown, Electing, Seen
<1>6. RoundInv'
  <2>1. alive \subseteq Nodes /\ \A q \in Nodes : Current(q)' = Current(q)
    BY <1>1, CurrentSame DEF Inv, TypeOK
  <2> QED
    BY <2>1 DEF Inv, RoundInv, vars
<1>7. OverlapInv'
  BY <1>5 DEF Inv, OverlapInv, vars
<1>8. ElectionInv'
  <2>1. Electing \subseteq Nodes
    BY DEF Electing
  <2> QED
    BY <1>4, <1>5, <2>1 DEF Inv, ElectionInv, vars
<1>9. SettledInv'
  BY <1>4, <1>5, SeenAlive DEF Inv, SettledInv, vars
<1> QED
  BY <1>2, <1>3, <1>6, <1>7, <1>8, <1>9 DEF Inv

\* Every heartbeat, answer, lapse and change of the world keeps the invariant.
THEOREM GatewayInvHolds == Spec => []Inv
<1>1. Init => Inv
  BY InitInv
<1>2. Inv /\ [Next]_vars => Inv'
  <2> SUFFICES ASSUME Inv, [Next]_vars PROVE Inv'
    OBVIOUS
  <2>1. ASSUME NEW n \in Nodes, Beat(n) \/ Elect(n) \/ Tell(n) PROVE Inv'
    BY <2>1, BeatStep, ElectStep, TellStep
  <2>2. CASE LinksChange \/ \E n \in Nodes : VpnChanges(n) \/ UplinkChanges(n) \/ Upgrade(n) \/ GoStale(n)
    BY <2>2, WorldSteps
  <2>3. ASSUME NEW k \in Keys, CacheExpires(k) PROVE Inv'
    BY <2>3, ExpiryStep
  <2>4. CASE UNCHANGED vars
    BY <2>4, StillInv
  <2> QED
    BY <2>1, <2>2, <2>3, <2>4 DEF Next
<1> QED
  BY <1>1, <1>2, PTL DEF Spec

\* The rows, the cache and the answers keep their types; an election always
\* names a node, as the node that reports is a candidate for its own island.
THEOREM GatewayTypeCorrect == Spec => []TypeOK
<1>1. Inv => TypeOK
  BY DEF Inv
<1> QED
  BY <1>1, GatewayInvHolds, PTL

\* Once every node that reaches the server has been answered twice in a world
\* that stays as it is, each island has at most one terminator of the guest
\* VLAN among the nodes that reach the server, and a fleet that reports the
\* topology has one on every island, with a VPN where some node has one:
\* _elect_guest_gateway, for any number of nodes, islands and heartbeats, from
\* any cache and any roles, once the nodes that fell silent have gone stale
\* (FleetKnown). A terminator that fell silent may still stand beside it.
THEOREM TwoRoundsSettleTheTerminator == Spec => []SettledInTwoRounds
<1> QED
  BY SettledIsOne, GatewayInvHolds, PTL
=============================================================================
