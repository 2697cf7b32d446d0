--------------------------- MODULE CivicPollProofs ---------------------------
(***************************************************************************)
(* Proofs about CivicPoll: own votes, agreement and the purge, whatever    *)
(* the threads do between their reads, their commits and their deaths; the *)
(* rows, the aggregates and the erasure, when jobs run one at a time.      *)
(* On the way: what the loops of PollTally make of chains of delegations,  *)
(* and with it the count of an identified poll, PollCount.                 *)
(***************************************************************************)
EXTENDS CivicPoll, PollCount, FiniteSetTheorems, WellFoundedInduction, TLAPS

\* The steps after which a thread may still write a vote.
Voting == {"cast", "delta", "compute", "apply"}

\* Whom a voice is passed on to now is remembered.
ChainsAgreed == \A v \in Voters : Chain(v) \ {v} \subseteq agreed[v]

\* Every delegated row repeats the ballot of somebody the voice was passed on
\* to, and so does every row a recompute still means to write.
AgreementInv ==
    /\ ChainsAgreed
    /\ \A v \in Voters : row[v].via => voice[v] \in agreed[v]
    /\ \A w \in Workers, v \in Voters :
          worker[w].expect[v] # NoOne => worker[w].speaker[v] \in agreed[v]

\* No thread is on its way to a vote once a purge has begun.
PurgeInv ==
    /\ purged =>
         /\ status = "ended"
         /\ \A v \in Voters : row[v] = NoVote
         /\ \A w \in Workers : worker[w].pc \notin Voting \cup {"freeze"}
    /\ \A w \in Workers : worker[w].pc = "freeze" =>
         /\ status = "ended"
         /\ \A u \in Workers \ {w} : worker[u].pc \notin Voting \cup {"freeze"}

\* A thread about to commit a vote has a voter and an option.
BallotInv ==
    \A w \in Workers : worker[w].pc = "cast" =>
        worker[w].who \in Voters /\ worker[w].option \in Options

Inv == TypeOK /\ AgreementInv /\ PurgeInv /\ BallotInv

\* What a step of a thread has to leave in order about the threads.
ThreadsInv ==
    /\ worker \in [Workers -> Worker]
    /\ \A w \in Workers, v \in Voters :
          worker[w].expect[v] # NoOne => worker[w].speaker[v] \in agreed[v]
    /\ BallotInv

Rows == {NoVote} \cup [option : Options, via : BOOLEAN]

-----------------------------------------------------------------------------
(* Chains of delegations: the loops of PollTally follow them to their end.  *)

Graphs == [Voters -> Voters \cup {NoOne}]

LEMMA LeastNumber ==
    ASSUME NEW S \in SUBSET Nat, S # {}
    PROVE  \E n \in S : \A m \in S : n <= m
<1>1. IsWellFoundedOn(OpToRel(<, Nat), Nat)
  BY NatLessThanWellFounded
<1>2. PICK n \in S : \A m \in S : ~ (<<m, n>> \in OpToRel(<, Nat))
  BY <1>1, WFMin, Zenon
<1>3. ASSUME NEW m \in S PROVE n <= m
  <2>1. m < n => <<m, n>> \in OpToRel(<, Nat)
    BY DEF OpToRel
  <2>2. ~ (m < n)
    BY <1>2, <2>1
  <2> QED
    BY <2>2
<1> QED
  BY <1>3

Onward(g, u) == IF g[u] = NoOne THEN u ELSE g[u]

LEMMA WalkIs ==
    ASSUME NEW g \in Graphs, NEW v \in Voters, NEW w \in Walks(g, v)
    PROVE  /\ w \in [0 .. MaxChain -> Voters] /\ w[0] = v
           /\ \A n \in 1 .. MaxChain : w[n] = Onward(g, w[n - 1])
           /\ MaxChain \in Nat /\ MaxChain >= 1 /\ NoOne \notin Voters
  BY MaxChainAssumption, NoOneAssumption DEF Walks, Onward

\* There is a walk from every profile.
LEMMA WalkExists ==
    ASSUME NEW g \in Graphs, NEW v \in Voters
    PROVE  \E w \in Walks(g, v) : TRUE
<1> DEFINE Short(k) == {w \in [0 .. k -> Voters] :
                          w[0] = v /\ \A n \in 1 .. k : w[n] = Onward(g, w[n - 1])}
           Missing == {k \in 0 .. MaxChain : Short(k) = {}}
<1>1. MaxChain \in Nat
  BY MaxChainAssumption
<1>2. ASSUME Missing # {} PROVE FALSE
  <2>1. PICK k \in Missing : \A m \in Missing : k <= m
    <3>1. Missing \in SUBSET Nat
      BY <1>1
    <3> QED
      BY <1>2, <3>1, LeastNumber
  <2>2. k # 0
    <3>1. [i \in 0 .. 0 |-> v] \in Short(0)
      OBVIOUS
    <3> QED
      BY <2>1, <3>1
  <2>3. k - 1 \in 0 .. MaxChain /\ k - 1 \notin Missing /\ k \in 1 .. MaxChain
    <3> HIDE DEF Short
    <3>1. k \in 0 .. MaxChain /\ k - 1 \in 0 .. MaxChain /\ ~(k <= k - 1)
      BY <1>1, <2>2
    <3> HIDE DEF Missing
    <3>2. k - 1 \notin Missing
      BY <2>1, <3>1
    <3> QED
      BY <1>1, <2>2, <3>1, <3>2
  <2>4. PICK w \in Short(k - 1) : TRUE
    BY <2>3
  <2> DEFINE x == [i \in 0 .. k |-> IF i = k THEN Onward(g, w[k - 1]) ELSE w[i]]
  <2>5. /\ w \in [0 .. k - 1 -> Voters] /\ w[0] = v
        /\ \A n \in 1 .. k - 1 : w[n] = Onward(g, w[n - 1])
    BY <2>4
  <2>6. w[k - 1] \in Voters
    BY <2>3, <2>5
  <2>7. Onward(g, w[k - 1]) \in Voters
    BY <2>6 DEF Onward, Graphs
  <2>8. x \in [0 .. k -> Voters] /\ x[0] = v
    BY <2>3, <2>5, <2>7
  <2>9. ASSUME NEW n \in 1 .. k PROVE x[n] = Onward(g, x[n - 1])
    <3>1. CASE n = k
      BY <2>3, <3>1
    <3>2. CASE n # k
      BY <2>3, <2>5, <3>2
    <3> QED
      BY <3>1, <3>2
  <2>10. x \in Short(k)
    BY <2>8, <2>9
  <2> QED
    BY <2>1, <2>10
<1>3. MaxChain \notin Missing
  BY <1>2
<1>4. PICK w \in Short(MaxChain) : TRUE
  BY <1>1, <1>3
<1>5. w \in Walks(g, v)
  BY <1>4 DEF Walks, Onward
<1> QED
  BY <1>5

\* A walk does not leave a group of profiles that delegate within the group.
LEMMA WalkStays ==
    ASSUME NEW g \in Graphs, NEW v \in Voters, NEW w \in Walks(g, v), NEW S \in SUBSET Voters,
           v \in S, \A u \in S : g[u] \in S \cup {NoOne}
    PROVE  \A i \in 0 .. MaxChain : w[i] \in S
<1> DEFINE Out == {i \in 0 .. MaxChain : w[i] \notin S}
<1> SUFFICES ASSUME Out # {} PROVE FALSE
  OBVIOUS
<1>1. PICK m \in Out : \A n \in Out : m <= n
  <2>1. Out \in SUBSET Nat
    BY WalkIs
  <2> QED
    BY <2>1, LeastNumber
<1>2. m \in 1 .. MaxChain /\ m - 1 \in 0 .. MaxChain /\ m - 1 \notin Out
  BY <1>1, WalkIs
<1>3. w[m] = Onward(g, w[m - 1]) /\ w[m - 1] \in S
  BY <1>2, WalkIs
<1> QED
  BY <1>1, <1>3 DEF Onward

\* It stops where nobody is delegated to.
LEMMA WalkStops ==
    ASSUME NEW g \in Graphs, NEW v \in Voters, NEW w \in Walks(g, v),
           NEW i \in 0 .. MaxChain, g[w[i]] = NoOne
    PROVE  \A j \in i .. MaxChain : w[j] = w[i]
<1> DEFINE Moved == {j \in i .. MaxChain : w[j] # w[i]}
<1> SUFFICES ASSUME Moved # {} PROVE FALSE
  OBVIOUS
<1>1. PICK m \in Moved : \A n \in Moved : m <= n
  <2>1. Moved \in SUBSET Nat
    BY WalkIs
  <2> QED
    BY <2>1, LeastNumber
<1>2. m \in 1 .. MaxChain /\ m - 1 \in i .. MaxChain /\ m - 1 \notin Moved
  BY <1>1, WalkIs
<1>3. w[m] = Onward(g, w[m - 1]) /\ w[m - 1] = w[i]
  BY <1>2, WalkIs
<1> QED
  BY <1>1, <1>3 DEF Onward

LEMMA ChainIs ==
    ASSUME NEW g \in Graphs, NEW v \in Voters
    PROVE  /\ OnChain(g, v) \in SUBSET Voters /\ v \in OnChain(g, v)
           /\ \A u \in OnChain(g, v) : g[u] \in OnChain(g, v) \cup {NoOne}
           /\ \A S \in SUBSET Voters : v \in S /\ (\A u \in S : g[u] \in S \cup {NoOne}) => OnChain(g, v) \subseteq S
           /\ IsFiniteSet(OnChain(g, v)) /\ Cardinality(OnChain(g, v)) \in Nat
<1>1. OnChain(g, v) \in SUBSET Voters /\ v \in OnChain(g, v)
  BY DEF OnChain
<1>2. \A u \in OnChain(g, v) : g[u] \in OnChain(g, v) \cup {NoOne}
  BY DEF OnChain, Graphs
<1>3. \A S \in SUBSET Voters : v \in S /\ (\A u \in S : g[u] \in S \cup {NoOne}) => OnChain(g, v) \subseteq S
  BY DEF OnChain
<1>4. IsFiniteSet(OnChain(g, v)) /\ Cardinality(OnChain(g, v)) \in Nat
  BY <1>1, VotersAssumption, FS_Subset, FS_CardinalityType
<1> QED
  BY <1>1, <1>2, <1>3, <1>4

LEMMA WalkOnChain ==
    ASSUME NEW g \in Graphs, NEW v \in Voters, NEW w \in Walks(g, v)
    PROVE  \A i \in 0 .. MaxChain : w[i] \in OnChain(g, v)
  BY ChainIs, WalkStays

\* A walk that comes to an end has seen the chain.
LEMMA EndedWalk ==
    ASSUME NEW g \in Graphs, NEW v \in Voters, NEW w \in Walks(g, v), g[w[MaxChain]] = NoOne
    PROVE  /\ \A u \in OnChain(g, v) : g[u] = NoOne => u = w[MaxChain]
           /\ Cardinality(OnChain(g, v)) - 1 <= MaxChain
           /\ \A i, j \in 0 .. MaxChain : i < j /\ w[i] = w[j] => g[w[i]] = NoOne
<1> DEFINE S == {w[i] : i \in 0 .. MaxChain}
<1>1. w \in [0 .. MaxChain -> Voters] /\ MaxChain \in Nat /\ v \in S /\ S \in SUBSET Voters
  BY WalkIs
<1>2. ASSUME NEW u \in S PROVE g[u] \in S \cup {NoOne}
  <2>1. PICK i \in 0 .. MaxChain : u = w[i]
    OBVIOUS
  <2>2. CASE i = MaxChain
    BY <2>1, <2>2
  <2>3. CASE i # MaxChain
    <3>1. i + 1 \in 1 .. MaxChain
      BY <1>1, <2>3
    <3>2. w[i + 1] = Onward(g, w[i])
      BY <1>1, <3>1, WalkIs
    <3> QED
      BY <2>1, <3>1, <3>2 DEF Onward
  <2> QED
    BY <2>2, <2>3
<1>3. OnChain(g, v) = S
  <2>1. S \subseteq OnChain(g, v)
    BY WalkOnChain
  <2> HIDE DEF S
  <2>2. OnChain(g, v) \subseteq S
    BY <1>1, <1>2, ChainIs
  <2> QED
    BY <2>1, <2>2
<1>4. \A u \in OnChain(g, v) : g[u] = NoOne => u = w[MaxChain]
  BY <1>1, <1>3, WalkStops
<1>5. Cardinality(OnChain(g, v)) - 1 <= MaxChain
  <2>1. w \in Surjection(0 .. MaxChain, S)
    BY <1>1 DEF Surjection
  <2>2. IsFiniteSet(0 .. MaxChain) /\ Cardinality(0 .. MaxChain) = MaxChain + 1
    <3>1. 0 \in Int /\ MaxChain \in Int /\ ~(0 > MaxChain) /\ MaxChain - 0 + 1 = MaxChain + 1
      BY <1>1
    <3> QED
      BY <3>1, FS_Interval
  <2>3. Cardinality(S) <= MaxChain + 1
    BY <2>1, <2>2, FS_Surjection
  <2>4. Cardinality(OnChain(g, v)) \in Nat
    BY ChainIs
  <2> HIDE DEF S
  <2> QED
    BY <1>1, <1>3, <2>3, <2>4
<1>6. ASSUME NEW i \in 0 .. MaxChain, NEW j \in 0 .. MaxChain, i < j, w[i] = w[j]
      PROVE  g[w[i]] = NoOne
  <2> SUFFICES ASSUME g[w[i]] # NoOne PROVE FALSE
    OBVIOUS
  <2> DEFINE R == {w[k] : k \in 0 .. j - 1}
  <2>1. ASSUME NEW k \in 0 .. j - 1 PROVE g[w[k]] # NoOne
    <3> SUFFICES ASSUME g[w[k]] = NoOne PROVE FALSE
      OBVIOUS
    <3>1. w[j] = w[k]
      BY <1>1, WalkStops
    <3> QED
      BY <1>6, <3>1
  <2>2. ASSUME NEW u \in R PROVE g[u] \in R \cup {NoOne}
    <3>1. PICK k \in 0 .. j - 1 : u = w[k]
      OBVIOUS
    <3>2. w[k + 1] = g[w[k]]
      <4>1. k + 1 \in 1 .. MaxChain /\ (k + 1) - 1 = k
        BY <1>1
      <4>2. w[k + 1] = Onward(g, w[k])
        BY <4>1, WalkIs
      <4> QED
        BY <2>1, <4>2 DEF Onward
    <3>3. CASE k = j - 1
      BY <1>6, <3>1, <3>2, <3>3
    <3>4. CASE k # j - 1
      BY <3>1, <3>2, <3>4
    <3> QED
      BY <3>3, <3>4
  <2>3. R \in SUBSET Voters /\ v \in R
    BY <1>1, <1>6, WalkIs
  <2>4. w[MaxChain] \in R
    <3> HIDE DEF R
    <3>1. \A k \in 0 .. MaxChain : w[k] \in R
      BY <2>2, <2>3, WalkStays
    <3> QED
      BY <1>1, <3>1
  <2> QED
    BY <2>1, <2>4
<1> QED
  BY <1>4, <1>5, <1>6

\* A walk that does not come to an end on a chain it could have seen runs in a
\* circle: nobody on that chain speaks for himself.
LEMMA EndlessWalk ==
    ASSUME NEW g \in Graphs, NEW v \in Voters, NEW w \in Walks(g, v), g[w[MaxChain]] # NoOne,
           Cardinality(OnChain(g, v)) - 1 <= MaxChain
    PROVE  \A u \in OnChain(g, v) : g[u] # NoOne
<1>1. w \in [0 .. MaxChain -> Voters] /\ MaxChain \in Nat /\ w[0] = v
  BY WalkIs
<1>2. ASSUME NEW i \in 0 .. MaxChain PROVE g[w[i]] # NoOne
  <2> SUFFICES ASSUME g[w[i]] = NoOne PROVE FALSE
    OBVIOUS
  <2>1. w[MaxChain] = w[i]
    BY <1>1, WalkStops
  <2> QED
    BY <2>1
<1>3. \A n \in 0 .. MaxChain - 1 : w[n + 1] = g[w[n]]
  <2> TAKE n \in 0 .. MaxChain - 1
  <2>1. n + 1 \in 1 .. MaxChain /\ (n + 1) - 1 = n /\ n \in 0 .. MaxChain
    BY <1>1
  <2>2. w[n + 1] = Onward(g, w[n])
    BY <2>1, WalkIs
  <2> QED
    BY <1>2, <2>1, <2>2 DEF Onward
<1>4. CASE \A i, j \in 0 .. MaxChain : w[i] = w[j] => i = j
  <2>1. w \in Injection(0 .. MaxChain, OnChain(g, v))
    BY <1>1, <1>4, WalkOnChain DEF Injection, IsInjective
  <2>2. IsFiniteSet(0 .. MaxChain) /\ Cardinality(0 .. MaxChain) = MaxChain + 1
    <3>1. 0 \in Int /\ MaxChain \in Int /\ ~(0 > MaxChain) /\ MaxChain - 0 + 1 = MaxChain + 1
      BY <1>1
    <3> QED
      BY <3>1, FS_Interval
  <2>3. /\ Cardinality(0 .. MaxChain) <= Cardinality(OnChain(g, v))
        /\ Cardinality(0 .. MaxChain) = Cardinality(OnChain(g, v)) => w \in Surjection(0 .. MaxChain, OnChain(g, v))
    BY <2>1, ChainIs, FS_Injection
  <2>4. w \in Surjection(0 .. MaxChain, OnChain(g, v))
    BY <1>1, <2>2, <2>3, ChainIs
  <2> QED
    BY <1>2, <2>4 DEF Surjection
<1>5. CASE \E i, j \in 0 .. MaxChain : w[i] = w[j] /\ i < j
  <2>1. PICK i \in 0 .. MaxChain, j \in 0 .. MaxChain : w[i] = w[j] /\ i < j
    BY <1>5
  <2> DEFINE R == {w[k] : k \in 0 .. j - 1}
  <2>2. ASSUME NEW u \in R PROVE g[u] \in R
    <3>1. PICK k \in 0 .. j - 1 : u = w[k]
      OBVIOUS
    <3>2. w[k + 1] = g[w[k]]
      BY <1>1, <1>3, <2>1
    <3>3. CASE k = j - 1
      BY <2>1, <3>1, <3>2, <3>3
    <3>4. CASE k # j - 1
      BY <3>1, <3>2, <3>4
    <3> QED
      BY <3>3, <3>4
  <2>3. R \in SUBSET Voters /\ v \in R
    BY <1>1, <2>1
  <2>4. OnChain(g, v) \subseteq R
    <3> HIDE DEF R
    <3> QED
      BY <2>2, <2>3, ChainIs
  <2>5. \A u \in R : g[u] # NoOne
    BY <1>1, <1>2, <2>1
  <2> QED
    BY <2>4, <2>5
<1>6. (\A i, j \in 0 .. MaxChain : w[i] = w[j] => i = j) \/ (\E i, j \in 0 .. MaxChain : w[i] = w[j] /\ i < j)
  <2> SUFFICES ASSUME NEW i \in 0 .. MaxChain, NEW j \in 0 .. MaxChain, w[i] = w[j], i # j
               PROVE  \E p, q \in 0 .. MaxChain : w[p] = w[q] /\ p < q
    OBVIOUS
  <2>1. i < j \/ j < i
    BY <1>1
  <2> QED
    BY <2>1
<1> QED
  BY <1>4, <1>5, <1>6
-----------------------------------------------------------------------------
(* What is made of the end of a chain *)

\* check_can_delegate: the walk ends when the chain has an end near enough.
LEMMA ChainEndsIs ==
    ASSUME NEW g \in Graphs, NEW v \in Voters
    PROVE  ChainEnds(g, v) <=> /\ Cardinality(OnChain(g, v)) - 1 <= MaxChain
                               /\ \E u \in OnChain(g, v) : g[u] = NoOne
<1>1. ASSUME ChainEnds(g, v)
      PROVE  Cardinality(OnChain(g, v)) - 1 <= MaxChain /\ \E u \in OnChain(g, v) : g[u] = NoOne
  <2>1. PICK w \in Walks(g, v) : g[w[MaxChain]] = NoOne
    BY <1>1 DEF ChainEnds
  <2>2. w[MaxChain] \in OnChain(g, v)
    BY WalkIs, WalkOnChain
  <2> QED
    BY <2>1, <2>2, EndedWalk
<1>2. ASSUME Cardinality(OnChain(g, v)) - 1 <= MaxChain, \E u \in OnChain(g, v) : g[u] = NoOne
      PROVE  ChainEnds(g, v)
  <2>1. PICK w \in Walks(g, v) : TRUE
    BY WalkExists
  <2>2. g[w[MaxChain]] = NoOne
    BY <1>2, EndlessWalk
  <2> QED
    BY <2>2 DEF ChainEnds
<1> QED
  BY <1>1, <1>2

\* resolve_delegations: a chain that is short enough resolves to its end.
LEMMA ResolvedIs ==
    ASSUME NEW g \in Graphs, NEW v \in Voters
    PROVE  /\ Resolved(g, v) \subseteq OnChain(g, v)
           /\ \A d \in Resolved(g, v) : g[d] = NoOne => Cardinality(OnChain(g, v)) - 1 <= MaxChain
           /\ Cardinality(OnChain(g, v)) - 1 <= MaxChain /\ g[v] # NoOne =>
                 \A u \in OnChain(g, v) : g[u] = NoOne => u \in Resolved(g, v)
<1>1. ASSUME NEW d \in Resolved(g, v)
      PROVE  d \in OnChain(g, v) /\ (g[d] = NoOne => Cardinality(OnChain(g, v)) - 1 <= MaxChain)
  <2>1. PICK w \in Walks(g, v) : d = w[MaxChain]
    BY DEF Resolved
  <2> QED
    BY <2>1, WalkIs, WalkOnChain, EndedWalk
<1>2. ASSUME Cardinality(OnChain(g, v)) - 1 <= MaxChain, g[v] # NoOne,
             NEW u \in OnChain(g, v), g[u] = NoOne
      PROVE  u \in Resolved(g, v)
  <2>1. PICK w \in Walks(g, v) : TRUE
    BY WalkExists
  <2>2. g[w[MaxChain]] = NoOne
    BY <1>2, EndlessWalk
  <2>3. u = w[MaxChain] /\ \A i, j \in 0 .. MaxChain : i < j /\ w[i] = w[j] => g[w[i]] = NoOne
    BY <1>2, <2>2, EndedWalk
  <2> QED
    BY <1>2, <2>3 DEF Resolved
<1> QED
  BY <1>1, <1>2

\* resolve_terminal: somebody on the chain who passes the voice on no further
LEMMA TerminalOnChain ==
    ASSUME NEW g \in Graphs, NEW v \in Voters, NEW t \in Terminal(g, v)
    PROVE  t \in OnChain(g, v) /\ g[t] = NoOne /\ g[v] # NoOne
<1>1. PICK w \in Walks(g, v) : g[v] # NoOne /\ t = w[MaxChain] /\ g[w[MaxChain]] = NoOne
  BY DEF Terminal
<1> QED
  BY <1>1, WalkIs, WalkOnChain

\* resolve_terminal: the end of a chain within the limit, nobody on a circle
LEMMA TerminalIs ==
    ASSUME NEW g \in Graphs, NEW v \in Voters, g[v] # NoOne,
           Cardinality(OnChain(g, v)) - 1 <= MaxChain
    PROVE  Terminal(g, v) = {u \in OnChain(g, v) : g[u] = NoOne}
<1>1. ASSUME NEW t \in Terminal(g, v) PROVE t \in OnChain(g, v) /\ g[t] = NoOne
  BY TerminalOnChain
<1>2. ASSUME NEW u \in OnChain(g, v), g[u] = NoOne PROVE u \in Terminal(g, v)
  <2>1. PICK w \in Walks(g, v) : TRUE
    BY WalkExists
  <2>2. g[w[MaxChain]] = NoOne
    BY <1>2, EndlessWalk
  <2>3. u = w[MaxChain]
    BY <1>2, <2>2, EndedWalk
  <2> QED
    BY <2>2, <2>3 DEF Terminal
<1> QED
  BY <1>1, <1>2

LEMMA GraphIs ==
    ASSUME TypeOK
    PROVE  /\ DelegationGraph \in Graphs
           /\ \A v \in Voters : standing[v].accepted =>
                 standing[v] \in [to : Voters, accepted : BOOLEAN] /\ DelegationGraph[v] = standing[v].to
           /\ \A v \in Voters : ~standing[v].accepted => DelegationGraph[v] = NoOne
           /\ \A v \in Voters : standing[v].accepted => standing[v] # Nobody
<1>1. \A v \in Voters : standing[v] \in {Nobody} \cup [to : Voters, accepted : BOOLEAN]
  BY DEF TypeOK
<1>2. \A v \in Voters : standing[v].accepted =>
         standing[v] \in [to : Voters, accepted : BOOLEAN] /\ standing[v] # Nobody
  BY <1>1 DEF Nobody
<1> QED
  BY <1>2 DEF DelegationGraph, Graphs

LEMMA ChainIsOnChain ==
    ASSUME TypeOK, NEW v \in Voters
    PROVE  Chain(v) = OnChain(DelegationGraph, v)
<1>1. \A S \in SUBSET Voters :
         (\A x \in S : standing[x].accepted => standing[x].to \in S) <=>
         (\A x \in S : DelegationGraph[x] \in S \cup {NoOne})
  BY GraphIs, NoOneAssumption
<1> QED
  BY <1>1 DEF Chain, OnChain

-----------------------------------------------------------------------------
(* Lemmas about the operators *)

LEMMA OwnVoteTyped ==
    ASSUME TypeOK, NEW v \in Voters
    PROVE  OwnVote(v) \in Options \cup {NoOne}
  BY DEF TypeOK, OwnVote, NoVote

LEMMA IdleTyped == Idle \in Worker
  BY DEF Idle, Worker, Jobs, Nothing, Counts, Zero

\* A walk stays among the voters.
LEMMA TerminalIsVoter ==
    ASSUME NEW g, NEW v \in Voters, NEW t \in Terminal(g, v)
    PROVE  t \in Voters /\ g[v] # NoOne
<1>1. PICK w \in Walks(g, v) : g[v] # NoOne /\ t = w[MaxChain]
  BY DEF Terminal
<1>2. w \in [0 .. MaxChain -> Voters]
  BY DEF Walks
<1> QED
  BY <1>1, <1>2, MaxChainAssumption

\* A voice passed on no further than before needs no new memory.
LEMMA ChainsShrink ==
    ASSUME Inv, agreed' = agreed,
           \A x \in Voters : standing'[x].accepted => standing[x].accepted /\ standing'[x].to = standing[x].to
    PROVE  ChainsAgreed'
<1>1. ASSUME NEW v \in Voters, NEW u \in Chain(v)' PROVE u \in Chain(v)
  BY <1>1 DEF Chain
<1> QED
  BY <1>1 DEF ChainsAgreed, Inv, AgreementInv

LEMMA ChainsStay ==
    ASSUME Inv, UNCHANGED <<standing, agreed>>
    PROVE  ChainsAgreed'
  BY ChainsShrink

\* Whom a recompute finds to speak for each profile, were the poll not overdue
Spoken ==
    [v \in Voters |->
        LET voted == {t \in Terminal(DelegationGraph, v) : OwnVote(t) # NoOne}
        IN  IF consent[v] /\ voted # {} THEN CHOOSE t \in voted : TRUE ELSE NoOne]

\* and with which vote: the gates that shut at end_time leave nothing of it.
Due == [v \in Voters |-> IF Spoken[v] = NoOne THEN NoOne ELSE OwnVote(Spoken[v])]

LEMMA SpokenIs ==
    ASSUME TypeOK, NEW v \in Voters
    PROVE  \/ Spoken[v] = NoOne
           \/ /\ Spoken[v] \in Voters /\ Spoken[v] \in Chain(v) \ {v}
              /\ Spoken[v] \in Terminal(DelegationGraph, v) /\ OwnVote(Spoken[v]) # NoOne
              /\ standing[v].accepted /\ consent[v]
<1> DEFINE voted == {t \in Terminal(DelegationGraph, v) : OwnVote(t) # NoOne}
<1>1. Spoken[v] = IF consent[v] /\ voted # {} THEN CHOOSE t \in voted : TRUE ELSE NoOne
  BY DEF Spoken
<1>2. \A t \in voted : /\ t \in Voters /\ t \in Chain(v) \ {v}
                       /\ t \in Terminal(DelegationGraph, v) /\ OwnVote(t) # NoOne
                       /\ standing[v].accepted
  <2> SUFFICES ASSUME NEW t \in Terminal(DelegationGraph, v)
               PROVE  t \in Voters /\ t \in Chain(v) \ {v} /\ standing[v].accepted
    OBVIOUS
  <2>1. DelegationGraph \in Graphs /\ Chain(v) = OnChain(DelegationGraph, v)
    BY GraphIs, ChainIsOnChain
  <2>2. t \in Voters /\ t \in OnChain(DelegationGraph, v) /\ DelegationGraph[t] = NoOne /\ DelegationGraph[v] # NoOne
    BY <2>1, TerminalIsVoter, TerminalOnChain
  <2> QED
    BY <2>1, <2>2, GraphIs
<1> HIDE DEF voted
<1>3. CASE consent[v] /\ voted # {}
  <2>1. Spoken[v] \in voted
    BY <1>1, <1>3
  <2> QED
    BY <1>2, <1>3, <2>1
<1> QED
  BY <1>1, <1>3

\* What a recompute reads: a vote only of somebody whom the voice is passed on
\* to, and nothing once the poll is overdue.
LEMMA ExpectedIs ==
    ASSUME TypeOK
    PROVE  /\ Due \in [Voters -> Options \cup {NoOne}]
           /\ Expected \in [Voters -> Options \cup {NoOne}]
           /\ Speaker \in [Voters -> Voters \cup {NoOne}]
           /\ \A v \in Voters : Due[v] # NoOne => standing[v].accepted /\ consent[v]
           /\ \A v \in Voters : Expected[v] # NoOne => Speaker[v] \in Chain(v) \ {v}
           /\ \A v \in Voters : Expected[v] = IF overdue THEN NoOne ELSE Due[v]
<1>1. ASSUME NEW v \in Voters
      PROVE  /\ Speaker[v] = IF overdue THEN NoOne ELSE Spoken[v]
             /\ Due[v] = IF Spoken[v] = NoOne THEN NoOne ELSE OwnVote(Spoken[v])
             /\ Expected[v] = IF Speaker[v] = NoOne THEN NoOne ELSE OwnVote(Speaker[v])
  BY DEF Speaker, Spoken, InTime, Due, Expected
<1>2. ASSUME NEW v \in Voters
      PROVE  /\ Due[v] \in Options \cup {NoOne} /\ Speaker[v] \in Voters \cup {NoOne}
             /\ Due[v] # NoOne => standing[v].accepted /\ consent[v]
             /\ Expected[v] # NoOne => Speaker[v] \in Chain(v) \ {v}
             /\ Expected[v] = IF overdue THEN NoOne ELSE Due[v]
  BY <1>1, SpokenIs, OwnVoteTyped
<1> QED
  BY <1>2 DEF Due, Expected, Speaker

LEMMA TallyTyped == Tally \in Counts
<1>1. \A o \in Options : Cardinality({v \in Voters : row[v].option = o}) \in Int
  <2> TAKE o \in Options
  <2>1. IsFiniteSet({v \in Voters : row[v].option = o})
    BY VotersAssumption, FS_Subset
  <2> QED
    BY <2>1, FS_CardinalityType
<1> QED
  BY <1>1 DEF Tally, Counts

-----------------------------------------------------------------------------
(* What a thread's next step may be *)

\* A thread that sets out to vote does so while the poll is active, or was on
\* its way already; then neither invariant is disturbed.
LEMMA ThreadKeeps ==
    ASSUME Inv, NEW w \in Workers, NEW job \in Worker, Do(w, job),
           job.pc # "freeze",
           job.pc \in Voting => worker[w].pc \in Voting \/ status = "active",
           job.pc = "cast" => job.who \in Voters /\ job.option \in Options,
           \A v \in Voters : job.expect[v] # NoOne => job.speaker[v] \in agreed[v],
           \A v \in Voters : agreed[v] \subseteq agreed'[v],
           UNCHANGED <<status, purged>>
    PROVE  /\ ThreadsInv'
           /\ (\A v \in Voters : purged => row'[v] = NoVote) => PurgeInv'
<1>1. worker' = [worker EXCEPT ![w] = job] /\ worker \in [Workers -> Worker]
  BY DEF Do, Inv, TypeOK
<1>2. worker' \in [Workers -> Worker]
  BY <1>1
<1>3. \A u \in Workers : worker'[u] = IF u = w THEN job ELSE worker[u]
  BY <1>1
<1>4. ThreadsInv'
  BY <1>2, <1>3 DEF ThreadsInv, Inv, AgreementInv, BallotInv
<1>5. ASSUME \A v \in Voters : purged => row'[v] = NoVote
      PROVE  PurgeInv'
  <2>1. purged => status = "ended" /\ job.pc \notin Voting \cup {"freeze"}
    BY DEF Inv, PurgeInv
  <2>2. ASSUME NEW u \in Workers, worker'[u].pc = "freeze"
        PROVE  /\ status = "ended"
               /\ \A x \in Workers \ {u} : worker'[x].pc \notin Voting \cup {"freeze"}
    <3>1. u # w /\ worker[u].pc = "freeze"
      BY <1>3, <2>2
    <3>2. /\ status = "ended"
          /\ \A x \in Workers \ {u} : worker[x].pc \notin Voting \cup {"freeze"}
      BY <3>1 DEF Inv, PurgeInv
    <3>3. job.pc \notin Voting \cup {"freeze"}
      BY <3>1, <3>2
    <3> QED
      BY <1>3, <3>2, <3>3
  <2> QED
    BY <1>3, <1>5, <2>1, <2>2 DEF Inv, PurgeInv
<1> QED
  BY <1>4, <1>5

LEMMA TrackTyped ==
    ASSUME Track
    PROVE  alone' \in BOOLEAN
  BY DEF Track

LEMMA RequestTyped ==
    ASSUME TypeOK, Request
    PROVE  requests' \in 0 .. MaxRequests
  BY MaxRequestsAssumption DEF TypeOK, Request

-----------------------------------------------------------------------------
(* Casting a vote *)

LEMMA CastReadKeeps ==
    ASSUME Inv, NEW w \in Workers, NEW v \in Voters, NEW o \in Options, CastRead(w, v, o)
    PROVE  Inv'
<1> DEFINE job == [Idle EXCEPT !.pc = "cast", !.who = v, !.option = o]
<1>1. /\ job \in Worker /\ job.pc = "cast" /\ job.who = v /\ job.option = o
      /\ \A u \in Voters : job.expect[u] = NoOne
  BY IdleTyped DEF Idle, Worker, Jobs, Nothing
<1>2. Do(w, job) /\ status = "active"
  BY DEF CastRead, MayVote
<1> HIDE DEF job
<1>3. ThreadsInv' /\ PurgeInv'
  BY <1>1, <1>2, ThreadKeeps DEF CastRead, Inv, PurgeInv
<1> QED
  BY <1>3, ChainsStay, TrackTyped, RequestTyped DEF CastRead, Inv, TypeOK, AgreementInv, ThreadsInv

\* A thread that is done leaves both invariants in order.
LEMMA IdleKeeps ==
    ASSUME Inv, NEW w \in Workers, Do(w, Idle), UNCHANGED <<status, purged, row, agreed>>
    PROVE  ThreadsInv' /\ PurgeInv'
<1>1. Idle.pc = "idle" /\ \A u \in Voters : Idle.expect[u] = NoOne
  BY DEF Idle, Nothing
<1> QED
  BY <1>1, IdleTyped, ThreadKeeps DEF Inv, PurgeInv, Voting

LEMMA CastSameKeeps ==
    ASSUME Inv, NEW w \in Workers, CastSame(w)
    PROVE  Inv'
<1>1. ThreadsInv' /\ PurgeInv'
  BY IdleKeeps DEF CastSame
<1> QED
  BY <1>1, ChainsStay, TrackTyped DEF CastSame, Inv, TypeOK, AgreementInv, ThreadsInv

LEMMA CastCommitKeeps ==
    ASSUME Inv, NEW w \in Workers, CastCommit(w)
    PROVE  Inv'
<1> DEFINE who == worker[w].who
           ballot == [option |-> worker[w].option, via |-> FALSE]
           job == [worker[w] EXCEPT !.pc = "delta", !.old = row[who].option]
<1>1. /\ worker[w] \in Worker /\ worker[w].pc = "cast"
      /\ who \in Voters /\ worker[w].option \in Options
      /\ row \in [Voters -> Rows]
  BY DEF CastCommit, Inv, TypeOK, BallotInv, Rows
<1>2. ballot \in Rows /\ ~ballot.via /\ row[who].option \in Options \cup {NoOne}
  BY <1>1 DEF Rows, NoVote
<1>3. /\ job \in Worker /\ job.pc = "delta"
      /\ job.expect = worker[w].expect /\ job.speaker = worker[w].speaker
  BY <1>1, <1>2 DEF Worker, Jobs
<1>4. row' = [row EXCEPT ![who] = ballot] /\ Do(w, job)
  BY DEF CastCommit
<1>5. ~purged
  BY <1>1 DEF Inv, PurgeInv, Voting
<1> HIDE DEF job, ballot, who
<1>6. ThreadsInv' /\ PurgeInv'
  BY <1>1, <1>3, <1>4, <1>5, ThreadKeeps DEF CastCommit, Inv, AgreementInv, PurgeInv, Voting
<1>7. /\ row' \in [Voters -> Rows] /\ voice' \in [Voters -> Voters \cup {NoOne}]
      /\ \A v \in Voters : row'[v].via => voice'[v] \in agreed[v]
  <2>1. voice' = [voice EXCEPT ![who] = NoOne]
    BY DEF CastCommit, who
  <2> QED
    BY <1>1, <1>2, <1>4, <2>1 DEF Inv, TypeOK, AgreementInv
<1> QED
  BY <1>6, <1>7, ChainsStay, TrackTyped DEF CastCommit, Inv, TypeOK, AgreementInv, ThreadsInv, Rows

LEMMA DeltaKeeps ==
    ASSUME Inv, NEW w \in Workers, Delta(w)
    PROVE  Inv'
<1> DEFINE job == [Idle EXCEPT !.pc = "compute"]
<1>1. job \in Worker /\ job.pc = "compute" /\ \A u \in Voters : job.expect[u] = NoOne
  BY IdleTyped DEF Idle, Worker, Jobs, Nothing
<1>2. Do(w, job) /\ worker[w].pc = "delta"
  BY DEF Delta
<1> HIDE DEF job
<1>3. ThreadsInv' /\ PurgeInv'
  BY <1>1, <1>2, ThreadKeeps DEF Delta, Inv, PurgeInv, Voting
<1>4. agg' \in Counts
  BY DEF Delta, Inv, TypeOK, Counts
<1> QED
  BY <1>3, <1>4, ChainsStay, TrackTyped DEF Delta, Inv, TypeOK, AgreementInv, ThreadsInv

-----------------------------------------------------------------------------
(* Recompute and recount *)

LEMMA ComputeReadKeeps ==
    ASSUME Inv, NEW w \in Workers, ComputeRead(w)
    PROVE  Inv'
<1> DEFINE job == [worker[w] EXCEPT !.pc = "apply", !.expect = Expected, !.speaker = Speaker]
<1>1. worker[w] \in Worker /\ worker[w].pc = "compute" /\ Do(w, job)
  BY DEF ComputeRead, Inv, TypeOK
<1>2. job \in Worker /\ job.pc = "apply" /\ job.expect = Expected /\ job.speaker = Speaker
  BY <1>1, ExpectedIs DEF Inv, Worker, Jobs
<1>3. \A v \in Voters : Expected[v] # NoOne => Speaker[v] \in agreed[v]
  BY ExpectedIs DEF Inv, AgreementInv, ChainsAgreed
<1> HIDE DEF job
<1>4. ThreadsInv' /\ PurgeInv'
  BY <1>1, <1>2, <1>3, ThreadKeeps DEF ComputeRead, Inv, PurgeInv, Voting
<1> QED
  BY <1>4, ChainsStay, TrackTyped DEF ComputeRead, Inv, TypeOK, AgreementInv, ThreadsInv

LEMMA ApplyKeeps ==
    ASSUME Inv, NEW w \in Workers, Apply(w)
    PROVE  Inv'
<1> DEFINE job == [worker[w] EXCEPT !.pc = "count", !.expect = Nothing, !.speaker = Nothing]
<1>1. worker[w] \in Worker /\ worker[w].pc = "apply" /\ Do(w, job)
  BY DEF Apply, Inv, TypeOK
<1>2. job \in Worker /\ job.pc = "count" /\ \A v \in Voters : job.expect[v] = NoOne
  BY <1>1 DEF Worker, Jobs, Nothing
<1>3. ~purged
  BY <1>1 DEF Inv, PurgeInv, Voting
<1> HIDE DEF job
<1>4. ThreadsInv' /\ PurgeInv'
  BY <1>1, <1>2, <1>3, ThreadKeeps DEF Apply, Inv, PurgeInv, Voting
<1>5. ASSUME NEW v \in Voters
      PROVE  /\ RowAfter(v, worker[w].expect[v]) \in Rows
             /\ RowAfter(v, worker[w].expect[v]).via => worker[w].speaker[v] \in agreed[v]
  <2>1. worker[w].expect[v] \in Options \cup {NoOne}
    BY <1>1 DEF Worker
  <2>2. row[v] \in Rows
    BY DEF Inv, TypeOK, Rows
  <2>3. worker[w].expect[v] # NoOne => worker[w].speaker[v] \in agreed[v]
    BY DEF Inv, AgreementInv
  <2>4. CASE OwnVote(v) # NoOne
    BY <2>2, <2>4 DEF RowAfter, OwnVote
  <2>5. CASE OwnVote(v) = NoOne /\ worker[w].expect[v] # NoOne
    BY <2>1, <2>3, <2>5 DEF RowAfter, Rows
  <2>6. CASE OwnVote(v) = NoOne /\ worker[w].expect[v] = NoOne
    BY <2>6 DEF RowAfter, Rows, NoVote
  <2> QED
    BY <2>4, <2>5, <2>6
<1>6. /\ row' \in [Voters -> Rows] /\ voice' \in [Voters -> Voters \cup {NoOne}]
      /\ \A v \in Voters : row'[v].via => voice'[v] \in agreed[v]
  <2>1. row' = [v \in Voters |-> RowAfter(v, worker[w].expect[v])]
    BY DEF Apply
  <2>2. \A v \in Voters : voice'[v] = IF row'[v].via THEN worker[w].speaker[v] ELSE NoOne
    BY DEF Apply
  <2>3. \A v \in Voters : worker[w].speaker[v] \in Voters \cup {NoOne}
    BY <1>1 DEF Worker
  <2>4. voice' \in [Voters -> Voters \cup {NoOne}]
    BY <2>2, <2>3 DEF Apply
  <2> QED
    BY <1>5, <2>1, <2>2, <2>4
<1> QED
  BY <1>4, <1>6, ChainsStay, TrackTyped DEF Apply, Inv, TypeOK, AgreementInv, ThreadsInv, Rows

LEMMA CountReadKeeps ==
    ASSUME Inv, NEW w \in Workers, CountRead(w)
    PROVE  Inv'
<1> DEFINE job == [worker[w] EXCEPT !.pc = "store", !.counts = Tally]
<1>1. worker[w] \in Worker /\ Do(w, job)
  BY DEF CountRead, Inv, TypeOK
<1>2. job \in Worker /\ job.pc = "store" /\ job.expect = worker[w].expect /\ job.speaker = worker[w].speaker
  BY <1>1, TallyTyped DEF Worker, Jobs
<1> HIDE DEF job
<1>3. ThreadsInv' /\ PurgeInv'
  BY <1>1, <1>2, ThreadKeeps DEF CountRead, Inv, AgreementInv, PurgeInv, Voting
<1> QED
  BY <1>3, ChainsStay, TrackTyped DEF CountRead, Inv, TypeOK, AgreementInv, ThreadsInv

LEMMA CountStoreKeeps ==
    ASSUME Inv, NEW w \in Workers, CountStore(w)
    PROVE  Inv'
<1> DEFINE next == worker[w].then
           job == [worker[w] EXCEPT !.pc = next, !.then = "idle", !.counts = Zero]
<1>1. worker[w] \in Worker /\ Do(w, job)
  BY DEF CountStore, Inv, TypeOK
<1>2. next \in {"idle", "erase", "forget"} /\ Zero \in Counts
  BY <1>1 DEF Worker, Counts, Zero
<1> HIDE DEF next
<1>3. job \in Worker /\ job.pc = next /\ job.expect = worker[w].expect /\ job.speaker = worker[w].speaker
  BY <1>1, <1>2 DEF Worker, Jobs
<1> HIDE DEF job
<1>4. ThreadsInv' /\ PurgeInv'
  BY <1>1, <1>2, <1>3, ThreadKeeps DEF CountStore, Inv, AgreementInv, PurgeInv, Voting
<1>5. agg' \in Counts
  BY <1>1 DEF CountStore, Worker
<1> QED
  BY <1>4, <1>5, ChainsStay, TrackTyped DEF CountStore, Inv, TypeOK, AgreementInv, ThreadsInv

-----------------------------------------------------------------------------
(* Standing delegations *)

Standings == {Nobody} \cup [to : Voters, accepted : BOOLEAN]

LEMMA CreateKeeps ==
    ASSUME Inv, NEW v \in Voters, NEW d \in Voters, Create(v, d)
    PROVE  Inv'
<1> DEFINE asked == [to |-> d, accepted |-> FALSE]
<1>1. asked \in Standings /\ ~asked.accepted
  BY DEF Standings
<1>2. standing' = [standing EXCEPT ![v] = asked] /\ standing \in [Voters -> Standings]
  BY DEF Create, Inv, TypeOK, Standings
<1> HIDE DEF asked
<1>3. standing' \in [Voters -> Standings] /\ ChainsAgreed'
  <2>1. \A u \in Voters : standing'[u].accepted => standing'[u] = standing[u]
    BY <1>1, <1>2
  <2> QED
    BY <1>1, <1>2, <2>1, ChainsShrink DEF Create
<1> QED
  BY <1>3, TrackTyped, RequestTyped
  DEF Create, Inv, TypeOK, AgreementInv, PurgeInv, BallotInv, Standings

\* Setting out to recompute, in an active poll only.
LEMMA RecomputeKeeps ==
    ASSUME Inv, NEW w \in Workers, NEW then \in {"idle", "erase", "forget"},
           Recompute(w, then), \A v \in Voters : agreed[v] \subseteq agreed'[v],
           UNCHANGED <<status, purged, row>>
    PROVE  ThreadsInv' /\ PurgeInv'
<1> DEFINE next == IF status = "active" THEN "compute" ELSE then
           job == [Idle EXCEPT !.pc = next, !.then = then]
<1>1. next \in {"compute", "idle", "erase", "forget"} /\ (next \in Voting => status = "active")
  BY DEF Voting
<1>2. Do(w, job)
  BY DEF Recompute
<1> HIDE DEF next
<1>3. job \in Worker /\ job.pc = next /\ \A v \in Voters : job.expect[v] = NoOne
  BY <1>1, IdleTyped DEF Idle, Worker, Jobs, Nothing
<1> HIDE DEF job
<1> QED
  BY <1>1, <1>2, <1>3, ThreadKeeps DEF Inv, PurgeInv

LEMMA AcceptKeeps ==
    ASSUME Inv, NEW w \in Workers, NEW v \in Voters, Accept(w, v)
    PROVE  Inv'
<1>1. /\ standing' = [standing EXCEPT ![v].accepted = TRUE]
      /\ agreed' = [u \in Voters |-> agreed[u] \cup (Chain(u)' \ {u})]
      /\ agreed \in [Voters -> SUBSET Voters] /\ standing[v] \in [to : Voters, accepted : BOOLEAN]
  BY DEF Accept, Inv, TypeOK
<1>2. \A u \in Voters : Chain(u)' \in SUBSET Voters
  BY DEF Chain
<1>3. agreed' \in [Voters -> SUBSET Voters]
  BY <1>1, <1>2
<1>4. \A u \in Voters : agreed[u] \subseteq agreed'[u] /\ Chain(u)' \ {u} \subseteq agreed'[u]
  BY <1>1
<1>5. ThreadsInv' /\ PurgeInv'
  BY <1>4, RecomputeKeeps DEF Accept
<1>6. standing' \in [Voters -> Standings] /\ ChainsAgreed'
  BY <1>1, <1>4 DEF Inv, TypeOK, Standings, ChainsAgreed
<1>7. \A u \in Voters : row[u].via => voice[u] \in agreed'[u]
  BY <1>4 DEF Inv, AgreementInv
<1> QED
  BY <1>3, <1>5, <1>6, <1>7, TrackTyped, RequestTyped
  DEF Accept, Inv, TypeOK, AgreementInv, ThreadsInv, Standings

LEMMA RevokeKeeps ==
    ASSUME Inv, NEW w \in Workers, NEW v \in Voters, Revoke(w, v)
    PROVE  Inv'
<1>1. ThreadsInv' /\ PurgeInv'
  <2>1. CASE standing[v].accepted
    BY <2>1, RecomputeKeeps DEF Revoke
  <2>2. CASE ~standing[v].accepted
    BY <2>2 DEF Revoke, Inv, TypeOK, AgreementInv, ThreadsInv, PurgeInv, BallotInv
  <2> QED
    BY <2>1, <2>2
<1>2. standing' \in [Voters -> Standings] /\ ChainsAgreed'
  <2>1. /\ standing' \in [Voters -> Standings]
        /\ \A u \in Voters : standing'[u].accepted => standing'[u] = standing[u]
    BY DEF Revoke, Inv, TypeOK, Nobody, Standings
  <2> QED
    BY <2>1, ChainsShrink DEF Revoke
<1> QED
  BY <1>1, <1>2, TrackTyped, RequestTyped
  DEF Revoke, Inv, TypeOK, AgreementInv, ThreadsInv, Standings

LEMMA DeclineKeeps ==
    ASSUME Inv, NEW v \in Voters, Decline(v)
    PROVE  Inv'
<1>1. standing' \in [Voters -> Standings] /\ ChainsAgreed'
  <2>1. /\ standing' \in [Voters -> Standings]
        /\ \A u \in Voters : standing'[u].accepted => standing'[u] = standing[u]
    BY DEF Decline, Inv, TypeOK, Nobody, Standings
  <2> QED
    BY <2>1, ChainsShrink DEF Decline
<1> QED
  BY <1>1, RequestTyped
  DEF Decline, Inv, TypeOK, AgreementInv, PurgeInv, BallotInv, Standings

-----------------------------------------------------------------------------
(* Consent and erasure *)

LEMMA GrantKeeps ==
    ASSUME Inv, NEW v \in Voters, Grant(v)
    PROVE  Inv'
<1>1. consent' \in [Voters -> BOOLEAN]
  BY DEF Grant, Inv, TypeOK
<1> QED
  BY <1>1, ChainsStay, TrackTyped, RequestTyped
  DEF Grant, Inv, TypeOK, AgreementInv, PurgeInv, BallotInv

LEMMA WithdrawKeeps ==
    ASSUME Inv, NEW w \in Workers, NEW v \in Voters, Withdraw(w, v)
    PROVE  Inv'
<1> DEFINE next == IF OfParty(v) # {} /\ status = "active" THEN "compute" ELSE "erase"
           job == [Idle EXCEPT !.who = v, !.then = "erase", !.pc = next]
<1>1. next \in {"compute", "erase"} /\ (next \in Voting => status = "active")
  BY DEF Voting
<1>2. Do(w, job)
  BY DEF Withdraw
<1> HIDE DEF next
<1>3. job \in Worker /\ job.pc = next /\ \A u \in Voters : job.expect[u] = NoOne
  BY <1>1, IdleTyped DEF Idle, Worker, Jobs, Nothing
<1> HIDE DEF job
<1>4. ThreadsInv' /\ PurgeInv'
  BY <1>1, <1>2, <1>3, ThreadKeeps DEF Withdraw, Inv, PurgeInv
<1>5. standing' \in [Voters -> Standings] /\ ChainsAgreed'
  <2>1. /\ standing' \in [Voters -> Standings]
        /\ \A u \in Voters : standing'[u].accepted => standing'[u] = standing[u]
    BY DEF Withdraw, Inv, TypeOK, Nobody, Standings
  <2> QED
    BY <2>1, ChainsShrink DEF Withdraw
<1> QED
  BY <1>4, <1>5, TrackTyped, RequestTyped
  DEF Withdraw, Inv, TypeOK, AgreementInv, ThreadsInv, Standings

LEMMA EraseRowKeeps ==
    ASSUME Inv, NEW w \in Workers, EraseRow(w)
    PROVE  Inv'
<1> DEFINE next == IF row[worker[w].who] # NoVote THEN "count" ELSE "forget"
           job == [worker[w] EXCEPT !.then = "forget", !.pc = next]
<1>1. next \in {"count", "forget"} /\ worker[w] \in Worker /\ Do(w, job)
  BY DEF EraseRow, Inv, TypeOK
<1> HIDE DEF next
<1>2. job \in Worker /\ job.pc = next /\ job.expect = worker[w].expect /\ job.speaker = worker[w].speaker
  BY <1>1 DEF Worker, Jobs
<1> HIDE DEF job
<1>3. /\ row' \in [Voters -> Rows] /\ voice' \in [Voters -> Voters \cup {NoOne}]
      /\ \A v \in Voters : (row'[v].via => voice'[v] \in agreed[v]) /\ (row[v] = NoVote => row'[v] = NoVote)
  BY DEF EraseRow, Inv, TypeOK, AgreementInv, Rows, NoVote
<1>4. ThreadsInv' /\ PurgeInv'
  BY <1>1, <1>2, <1>3, ThreadKeeps DEF EraseRow, Inv, AgreementInv, PurgeInv, Voting
<1> QED
  BY <1>3, <1>4, ChainsStay, TrackTyped DEF EraseRow, Inv, TypeOK, AgreementInv, ThreadsInv, Rows

LEMMA ForgetKeeps ==
    ASSUME Inv, NEW w \in Workers, Forget(w)
    PROVE  Inv'
<1>1. ThreadsInv' /\ PurgeInv'
  BY IdleKeeps DEF Forget
<1>2. consent' \in [Voters -> BOOLEAN]
  BY DEF Forget, Inv, TypeOK
<1> QED
  BY <1>1, <1>2, ChainsStay, TrackTyped DEF Forget, Inv, TypeOK, AgreementInv, ThreadsInv

-----------------------------------------------------------------------------
(* The end of the poll *)

LEMMA EndTimePassesKeeps == ASSUME Inv, EndTimePasses PROVE Inv'
  BY ChainsStay DEF EndTimePasses, Inv, TypeOK, AgreementInv, PurgeInv, BallotInv

LEMMA EndKeeps == ASSUME Inv, End PROVE Inv'
  BY ChainsStay, TrackTyped DEF End, Inv, TypeOK, AgreementInv, PurgeInv, BallotInv

LEMMA FreezeReadKeeps ==
    ASSUME Inv, NEW w \in Workers, FreezeRead(w)
    PROVE  Inv'
<1> DEFINE job == [Idle EXCEPT !.pc = "freeze"]
<1>1. /\ job \in Worker /\ job.pc = "freeze" /\ \A u \in Voters : job.expect[u] = NoOne
      /\ \A u \in Workers : worker[u].pc \notin Voting \cup {"freeze"}
      /\ worker' = [worker EXCEPT ![w] = job]
      /\ status = "ended" /\ ~purged
  BY IdleTyped DEF Idle, Worker, Jobs, Nothing, FreezeRead, Do, Voting
<1> HIDE DEF job
<1>2. worker' \in [Workers -> Worker] /\ \A u \in Workers : worker'[u] = IF u = w THEN job ELSE worker[u]
  BY <1>1 DEF Inv, TypeOK
<1>3. ThreadsInv' /\ PurgeInv'
  BY <1>1, <1>2 DEF FreezeRead, Inv, AgreementInv, ThreadsInv, PurgeInv, BallotInv
<1> QED
  BY <1>3, ChainsStay, TrackTyped DEF FreezeRead, Inv, TypeOK, AgreementInv, ThreadsInv

LEMMA FreezeCommitKeeps ==
    ASSUME Inv, NEW w \in Workers, FreezeCommit(w)
    PROVE  Inv'
<1> DEFINE job == [Idle EXCEPT !.pc = "drop"]
<1>1. /\ job \in Worker /\ job.pc = "drop" /\ \A u \in Voters : job.expect[u] = NoOne
      /\ worker' = [worker EXCEPT ![w] = job]
      /\ row' = [v \in Voters |-> NoVote]
  BY IdleTyped DEF Idle, Worker, Jobs, Nothing, FreezeCommit, Do
<1> HIDE DEF job
<1>2. worker' \in [Workers -> Worker] /\ \A u \in Workers : worker'[u] = IF u = w THEN job ELSE worker[u]
  BY <1>1 DEF Inv, TypeOK
<1>3. ThreadsInv'
  BY <1>1, <1>2 DEF FreezeCommit, Inv, AgreementInv, ThreadsInv, BallotInv
<1>4. PurgeInv'
  <2>1. /\ status = "ended"
        /\ \A u \in Workers \ {w} : worker[u].pc \notin Voting \cup {"freeze"}
    BY DEF FreezeCommit, Inv, PurgeInv
  <2> QED
    BY <1>1, <1>2, <2>1 DEF FreezeCommit, PurgeInv, Voting
<1>5. /\ row' \in [Voters -> Rows] /\ \A v \in Voters : ~row'[v].via
      /\ voice' \in [Voters -> Voters \cup {NoOne}]
  BY <1>1 DEF Rows, NoVote, FreezeCommit, Nothing
<1> QED
  BY <1>3, <1>4, <1>5, ChainsStay, TrackTyped DEF FreezeCommit, Inv, TypeOK, AgreementInv, ThreadsInv, Rows

LEMMA DropKeysKeeps ==
    ASSUME Inv, NEW w \in Workers, DropKeys(w)
    PROVE  Inv'
<1>1. ThreadsInv' /\ PurgeInv'
  BY IdleKeeps DEF DropKeys
<1>2. agg' \in Counts
  BY DEF DropKeys, Counts, Zero
<1> QED
  BY <1>1, <1>2, ChainsStay, TrackTyped DEF DropKeys, Inv, TypeOK, AgreementInv, ThreadsInv

LEMMA CrashKeeps ==
    ASSUME Inv, NEW w \in Workers, Crash(w)
    PROVE  Inv'
<1>1. ThreadsInv' /\ PurgeInv'
  BY IdleKeeps DEF Crash
<1> QED
  BY <1>1, ChainsStay DEF Crash, Inv, TypeOK, AgreementInv, ThreadsInv

-----------------------------------------------------------------------------
(* The invariant and what follows from it *)

LEMMA InitInv == ASSUME Init PROVE Inv
<1>1. TypeOK
  <2>1. agg \in Counts /\ worker \in [Workers -> Worker]
    BY IdleTyped DEF Init, Counts, Zero
  <2>2. /\ requests \in 0 .. MaxRequests /\ alone \in BOOLEAN
        /\ agreed \in [Voters -> SUBSET Voters] /\ voice \in [Voters -> Voters \cup {NoOne}]
    BY MaxRequestsAssumption DEF Init, Chain, Nothing
  <2>3. row \in [Voters -> Rows]
    BY DEF Init, Rows
  <2> QED
    BY <2>1, <2>2, <2>3 DEF Init, TypeOK, Rows
<1>2. \A w \in Workers : /\ worker[w].pc = "idle"
                         /\ \A v \in Voters : worker[w].expect[v] = NoOne
  BY DEF Init, Idle, Nothing
<1>3. AgreementInv /\ PurgeInv /\ BallotInv
  BY <1>2 DEF Init, AgreementInv, ChainsAgreed, PurgeInv, BallotInv, NoVote
<1> QED
  BY <1>1, <1>3 DEF Inv

LEMMA NextInv == ASSUME Inv, [Next]_vars PROVE Inv'
<1>1. ASSUME NEW w \in Workers, Cast(w) PROVE Inv'
  BY <1>1, CastReadKeeps, CastSameKeeps, CastCommitKeeps, DeltaKeeps DEF Cast
<1>2. ASSUME NEW w \in Workers, Materialize(w) PROVE Inv'
  BY <1>2, ComputeReadKeeps, ApplyKeeps, CountReadKeeps, CountStoreKeeps DEF Materialize
<1>3. ASSUME NEW w \in Workers, Delegate(w) PROVE Inv'
  BY <1>3, AcceptKeeps, RevokeKeeps DEF Delegate
<1>4. ASSUME NEW w \in Workers, Erase(w) PROVE Inv'
  BY <1>4, EraseRowKeeps, ForgetKeeps, WithdrawKeeps DEF Erase
<1>5. ASSUME NEW w \in Workers, Purge(w) PROVE Inv'
  BY <1>5, FreezeReadKeeps, FreezeCommitKeeps, DropKeysKeeps DEF Purge
<1>6. CASE Ask
  BY <1>6, GrantKeeps, CreateKeeps DEF Ask
<1>7. CASE UNCHANGED vars
  BY <1>7, ChainsStay DEF vars, Inv, TypeOK, AgreementInv, PurgeInv, BallotInv
<1> QED
  BY <1>1, <1>2, <1>3, <1>4, <1>5, <1>6, <1>7, CrashKeeps, EndTimePassesKeeps, EndKeeps,
     DeclineKeeps DEF Next

\* The invariant holds at every step of every behaviour, threads that die or
\* act on old reads included.
THEOREM CivicInvHolds == Spec => []Inv
  BY InitInv, NextInv, PTL DEF Spec

\* Every variable of an opinion poll keeps its type.
THEOREM CivicTypeCorrect == Spec => []TypeOK
<1>1. Inv => TypeOK
  BY DEF Inv
<1> QED
  BY <1>1, CivicInvHolds, PTL

\* A vote cast for somebody is that of a delegate whom accepted delegations
\* once passed the voice on to, whatever the recomputes read and however late
\* they write.
THEOREM NobodySpokenForUnasked == Spec => []NoVoiceWithoutAgreement
<1>1. Inv => NoVoiceWithoutAgreement
  BY DEF Inv, AgreementInv, NoVoiceWithoutAgreement
<1> QED
  BY <1>1, CivicInvHolds, PTL

\* The purge is final: no thread that is late brings a raw vote back.
THEOREM PurgeIsFinal == Spec => []PurgedForGood
<1>1. Inv => PurgedForGood
  BY DEF Inv, PurgeInv, PurgedForGood
<1> QED
  BY <1>1, CivicInvHolds, PTL

\* The step of OwnVotesWin, for the three actions that write rows.
LEMMA OwnVoteStays ==
    ASSUME Inv, [Next]_vars, NEW v \in Voters, OwnVote(v) # NoOne, row'[v] # row[v]
    PROVE  ~row'[v].via
<1>1. ASSUME NEW w \in Workers, CastCommit(w) PROVE ~row'[v].via
  BY <1>1 DEF CastCommit, Inv, TypeOK
<1>2. ASSUME NEW w \in Workers, Apply(w) PROVE FALSE
  BY <1>2 DEF Apply, RowAfter
<1>3. ASSUME NEW w \in Workers, EraseRow(w) PROVE ~row'[v].via
  BY <1>3 DEF EraseRow, NoVote, Inv, TypeOK
<1>4. ASSUME NEW w \in Workers, FreezeCommit(w) PROVE ~row'[v].via
  BY <1>4 DEF FreezeCommit, NoVote
<1>5. /\ ~UNCHANGED vars /\ ~Ask /\ ~EndTimePasses /\ ~End
      /\ ~ \E u \in Voters : Decline(u)
      /\ \A w \in Workers : ~Delegate(w) /\ ~Crash(w)
  BY DEF vars, Ask, Grant, Create, EndTimePasses, End, Decline, Delegate, Accept, Revoke, Crash
<1>6. PICK w \in Workers : Cast(w) \/ Materialize(w) \/ Erase(w) \/ Purge(w)
  BY <1>5 DEF Next
<1>7. CASE Cast(w)
  BY <1>1, <1>7 DEF Cast, CastRead, CastSame, Delta
<1>8. CASE Materialize(w)
  BY <1>2, <1>8 DEF Materialize, ComputeRead, CountRead, CountStore
<1>9. CASE Erase(w)
  BY <1>3, <1>9 DEF Erase, Forget, Withdraw
<1>10. CASE Purge(w)
  BY <1>4, <1>10 DEF Purge, FreezeRead, DropKeys
<1> QED
  BY <1>6, <1>7, <1>8, <1>9, <1>10

\* A vote cast in person is never written over by a delegate's, for any number
\* of threads and any age of what they have read.
THEOREM OwnVotesAlwaysWin == Spec => OwnVotesWin
<1> DEFINE Step == \A v \in Voters : OwnVote(v) # NoOne /\ row'[v] # row[v] => ~row'[v].via
<1>1. Inv /\ [Next]_vars => [Step]_vars
  BY OwnVoteStays
<1>2. [][Step]_vars <=> OwnVotesWin
  BY DEF OwnVotesWin
<1> QED
  BY <1>1, <1>2, CivicInvHolds, PTL DEF Spec

-----------------------------------------------------------------------------
(* The count of an identified poll *)

\* Delegations never go in a circle, and nobody votes who has delegated.
CountInv ==
    /\ graph \in Graphs /\ box \in [Voters -> Options \cup {NoOne}]
    /\ Acyclic(graph)
    /\ \A v \in Voters : box[v] # NoOne => graph[v] = NoOne

\* A delegation that passes the check closes no circle, and one that does not
\* closes one or makes the chain too long.
LEMMA CheckIsExact ==
    ASSUME NEW g \in Graphs, Acyclic(g), NEW v \in Voters, NEW d \in Voters
    PROVE  LET h == [g EXCEPT ![v] = d] IN
           /\ h \in Graphs
           /\ ChainEnds(h, v) <=> Acyclic(h) /\ Cardinality(OnChain(h, v)) - 1 <= MaxChain
<1> DEFINE h == [g EXCEPT ![v] = d]
<1>1. h \in Graphs /\ h[v] = d /\ \A u \in Voters \ {v} : h[u] = g[u]
  BY DEF Graphs
<1> HIDE DEF h
<1>2. ASSUME ChainEnds(h, v) PROVE Acyclic(h)
  <2> SUFFICES ASSUME NEW S \in SUBSET Voters, S # {}, \A u \in S : h[u] \in S PROVE FALSE
    BY DEF Acyclic
  <2>1. v \in S
    <3>1. PICK u \in S : g[u] \notin S
      BY DEF Acyclic
    <3> QED
      BY <1>1, <3>1
  <2>2. OnChain(h, v) \subseteq S
    BY <1>1, <2>1, ChainIs
  <2>3. PICK u \in OnChain(h, v) : h[u] = NoOne
    BY <1>1, <1>2, ChainEndsIs
  <2> QED
    BY <2>2, <2>3, NoOneAssumption
<1>3. ASSUME Acyclic(h) PROVE \E u \in OnChain(h, v) : h[u] = NoOne
  <2>1. OnChain(h, v) \in (SUBSET Voters) \ {{}}
    BY <1>1, ChainIs
  <2>2. PICK u \in OnChain(h, v) : h[u] \notin OnChain(h, v)
    BY <1>3, <2>1 DEF Acyclic
  <2> QED
    BY <1>1, <2>2, ChainIs
<1>4. ChainEnds(h, v) <=> /\ Cardinality(OnChain(h, v)) - 1 <= MaxChain
                          /\ \E u \in OnChain(h, v) : h[u] = NoOne
  BY <1>1, ChainEndsIs
<1>5. ChainEnds(h, v) <=> Acyclic(h) /\ Cardinality(OnChain(h, v)) - 1 <= MaxChain
  BY <1>2, <1>3, <1>4
<1> QED
  BY <1>1, <1>5 DEF h

\* One request after the other keeps the graph free of circles, and nobody
\* gets to vote and delegate.
LEMMA CountInvHolds == CountSpec => []CountInv
<1>1. CountInit => CountInv
  <2> SUFFICES ASSUME CountInit PROVE CountInv
    OBVIOUS
  <2>1. graph \in Graphs /\ box \in [Voters -> Options \cup {NoOne}] /\ \A v \in Voters : box[v] = NoOne /\ graph[v] = NoOne
    BY DEF CountInit, Graphs
  <2>2. Acyclic(graph)
    BY <2>1, NoOneAssumption DEF Acyclic
  <2> QED
    BY <2>1, <2>2 DEF CountInv
<1>2. CountInv /\ [CountNext]_<<graph, box>> => CountInv'
  <2> SUFFICES ASSUME CountInv, [CountNext]_<<graph, box>> PROVE CountInv'
    OBVIOUS
  <2>1. ASSUME NEW v \in Voters, NEW o \in Options, PutVote(v, o) PROVE CountInv'
    BY <2>1 DEF CountInv, PutVote, Acyclic
  <2>2. ASSUME NEW v \in Voters, NEW d \in Voters, AddDelegation(v, d) PROVE CountInv'
    <3>1. ChainEnds([graph EXCEPT ![v] = d], v) /\ graph' = [graph EXCEPT ![v] = d] /\ box' = box /\ box[v] = NoOne
      BY <2>2 DEF AddDelegation
    <3>2. graph' \in Graphs /\ Acyclic(graph')
      BY <3>1, CheckIsExact DEF CountInv
    <3>3. \A u \in Voters : box'[u] # NoOne => graph'[u] = NoOne
      BY <3>1 DEF CountInv, Graphs
    <3>4. Acyclic(graph)'
      BY <3>2 DEF Acyclic
    <3> QED
      BY <3>1, <3>2, <3>3, <3>4 DEF CountInv
  <2>3. ASSUME NEW v \in Voters, EndDelegation(v) PROVE CountInv'
    <3>1. graph' = [graph EXCEPT ![v] = NoOne] /\ box' = box
      BY <2>3 DEF EndDelegation
    <3>2. graph' \in Graphs /\ graph'[v] = NoOne /\ \A u \in Voters \ {v} : graph'[u] = graph[u]
      BY <3>1 DEF CountInv, Graphs
    <3>3. Acyclic(graph)'
      BY <3>2, NoOneAssumption DEF CountInv, Acyclic
    <3> QED
      BY <3>1, <3>2, <3>3 DEF CountInv
  <2>4. CASE UNCHANGED <<graph, box>>
    BY <2>4 DEF CountInv, Acyclic
  <2> QED
    BY <2>1, <2>2, <2>3, <2>4 DEF CountNext
<1> QED
  BY <1>1, <1>2, PTL DEF CountSpec

\* check_can_delegate, for any number of profiles and any limit on chains: it
\* takes a delegation if and only if no circle closes and the delegator's chain
\* is no longer than MAX_DELEGATION_CHAIN_LENGTH.
THEOREM DelegationCheckExact == CountSpec => []DelegationCheckIsExact
<1>1. CountInv => DelegationCheckIsExact
  <2> SUFFICES ASSUME CountInv, NEW v \in Voters, NEW d \in Voters
               PROVE  LET h == [graph EXCEPT ![v] = d]
                      IN  ChainEnds(h, v) <=> Acyclic(h) /\ ChainLength(h, v) <= MaxChain
    BY DEF DelegationCheckIsExact
  <2> QED
    BY CheckIsExact DEF CountInv, ChainLength
<1> QED
  BY <1>1, CountInvHolds, PTL

\* calculate_results, likewise: a profile counts for what it chose itself, or
\* for what the end of its chain chose when that is near enough, and a chain
\* that was made too long by delegations further on counts for nothing.
THEOREM TallyIsOfTheChains == CountSpec => []TallyFollowsChains
<1>1. CountInv => TallyFollowsChains
  <2> SUFFICES ASSUME CountInv, NEW o \in Options, NEW v \in Voters, box[v] # o
               PROVE  (\E d \in Resolved(graph, v) : box[d] = o) <=>
                      /\ Cardinality(OnChain(graph, v)) - 1 <= MaxChain
                      /\ \E w \in OnChain(graph, v) : box[w] = o
    BY DEF TallyFollowsChains, CountedFor, ChainLength
  <2>1. graph \in Graphs /\ OnChain(graph, v) \in SUBSET Voters
    BY ChainIs DEF CountInv
  <2>2. \A w \in Voters : box[w] = o => graph[w] = NoOne
    BY NoOneAssumption DEF CountInv
  <2>3. ASSUME NEW d \in Resolved(graph, v), box[d] = o
        PROVE  Cardinality(OnChain(graph, v)) - 1 <= MaxChain /\ d \in OnChain(graph, v)
    BY <2>1, <2>2, <2>3, ResolvedIs
  <2>4. ASSUME Cardinality(OnChain(graph, v)) - 1 <= MaxChain, NEW w \in OnChain(graph, v), box[w] = o
        PROVE  w \in Resolved(graph, v)
    <3>1. graph[w] = NoOne
      BY <2>1, <2>2, <2>4
    <3>2. graph[v] # NoOne
      <4> SUFFICES ASSUME graph[v] = NoOne PROVE FALSE
        OBVIOUS
      <4>1. OnChain(graph, v) \subseteq {v}
        <5>1. {v} \in SUBSET Voters /\ v \in {v} /\ \A u \in {v} : graph[u] \in {v} \cup {NoOne}
          OBVIOUS
        <5> QED
          BY <2>1, <5>1, ChainIs
      <4> QED
        BY <2>4, <4>1
    <3> QED
      BY <2>1, <2>4, <3>1, <3>2, ResolvedIs
  <2> QED
    BY <2>3, <2>4
<1> QED
  BY <1>1, CountInvHolds, PTL

-----------------------------------------------------------------------------
(* One job at a time: the invariant *)

Recomputing == {"compute", "apply", "count", "store"}

\* What a thread leaves behind between its jobs and between their steps
Tidy(job) ==
    /\ job.pc = "idle" => job = Idle
    /\ job.pc \in Recomputing /\ job.then = "idle" =>
          job.who = NoOne /\ job.option = NoOne /\ job.old = NoOne
    /\ job.pc # "apply" => job.expect = Nothing /\ job.speaker = Nothing
    /\ job.pc # "store" => job.counts = Zero

\* Who takes part in delegations consents, and who does not has no vote.
ConsentInv ==
    /\ \A u \in Voters : standing[u] # Nobody => consent[u]
    /\ \A u \in Voters : standing[u].accepted => consent[standing[u].to]
    /\ \A u \in Voters : ~consent[u] => row[u] = NoVote

\* A withdrawal that has ended the delegations, and one that has erased the row
Leaving(job) == job.pc \in {"erase", "forget"} \/ (job.pc \in Recomputing /\ job.then # "idle")
Erased(job) == job.pc = "forget" \/ (job.pc \in Recomputing /\ job.then = "forget")

\* What a thread has read or done is still so.
JobInv(w) ==
    LET job == worker[w] IN
    /\ job.pc = "cast" => consent[job.who]
    /\ job.pc = "delta" =>
          \A o \in Options : Tally[o] = agg[o] + (IF o = job.option THEN 1 ELSE 0)
                                               - (IF o = job.old THEN 1 ELSE 0)
    /\ job.pc = "apply" => \A v \in Voters : job.expect[v] = Due[v] \/ (overdue /\ job.expect[v] = NoOne)
    /\ job.pc = "store" => job.counts = Tally
    /\ job.pc = "drop" => \A v \in Voters : row[v] = NoVote
    /\ Leaving(job) => /\ job.who \in Voters
                       /\ \A u \in Voters : standing[u] # Nobody => job.who \notin {u, standing[u].to}
    /\ Erased(job) => row[job.who] = NoVote

\* The rows are what a recompute would make of them; once the poll is overdue
\* it may have taken delegated ones away.
Materialized ==
    \A v \in Voters : row[v] = RowAfter(v, Due[v]) \/ (overdue /\ row[v] = RowAfter(v, NoOne))

Unsummed == {"delta", "count", "store", "drop"}
Unspread == {"delta", "compute", "apply"}

\* Between jobs, and until a job unsettles them, the aggregates are the sums of
\* the rows and the rows are what the delegations make them.
CalmInv == alone =>
    /\ AtMostOneBusy
    /\ ConsentInv
    /\ (\A w \in Workers : worker[w].pc \notin Unsummed) => agg = Tally
    /\ status = "active" /\ (\A w \in Workers : worker[w].pc \notin Unspread) => Materialized
    /\ \A w \in Workers : JobInv(w)

Calm == (\A w \in Workers : Tidy(worker[w])) /\ CalmInv

-----------------------------------------------------------------------------
(* One job at a time: lemmas *)

\* A step that leaves nothing overlapped finds the other threads at rest.
LEMMA ActsAlone ==
    ASSUME Inv, Calm, alone', Track, NEW w \in Workers, NEW job, Do(w, job),
           job.pc # "idle" \/ job = Idle \/ worker[w].pc # "idle"
    PROVE  /\ alone /\ ConsentInv /\ JobInv(w)
           /\ \A u \in Workers \ {w} : worker[u].pc = "idle"
           /\ worker[w].pc \notin Unsummed => agg = Tally
           /\ status = "active" /\ worker[w].pc \notin Unspread => Materialized
<1>1. worker' = [worker EXCEPT ![w] = job] /\ worker \in [Workers -> Worker]
  BY DEF Do, Inv, TypeOK
<1>2. worker'[w] = job /\ \A u \in Workers \ {w} : worker'[u] = worker[u]
  BY <1>1
<1>3. alone /\ AtMostOneBusy' /\ (UNCHANGED worker => AllIdle)
  BY DEF Track
<1>4. /\ AtMostOneBusy /\ ConsentInv /\ JobInv(w)
      /\ (\A u \in Workers : worker[u].pc \notin Unsummed) => agg = Tally
      /\ status = "active" /\ (\A u \in Workers : worker[u].pc \notin Unspread) => Materialized
  BY <1>3 DEF Calm, CalmInv
<1>5. ASSUME NEW u \in Workers \ {w} PROVE worker[u].pc = "idle"
  <2>1. CASE worker[w].pc # "idle"
    BY <1>4, <2>1 DEF AtMostOneBusy
  <2>2. CASE job.pc # "idle"
    BY <1>2, <1>3, <2>2 DEF AtMostOneBusy
  <2>3. CASE worker[w].pc = "idle" /\ job = Idle
    <3>1. worker[w] = Idle
      BY <2>3 DEF Calm, Tidy
    <3>2. worker' = worker
      BY <1>1, <2>3, <3>1
    <3> QED
      BY <1>3, <3>2 DEF AllIdle
  <2> QED
    BY <2>1, <2>2, <2>3
<1>6. "idle" \notin Unsummed /\ "idle" \notin Unspread
  BY DEF Unsummed, Unspread
<1> QED
  BY <1>3, <1>4, <1>5, <1>6

\* So does one that leaves the threads alone.
LEMMA AllAtRest ==
    ASSUME Calm, alone', Track, UNCHANGED worker
    PROVE  alone /\ ConsentInv /\ AllIdle /\ agg = Tally /\ (status = "active" => Materialized)
<1>1. alone /\ AllIdle
  BY DEF Track
<1> QED
  BY <1>1 DEF Calm, CalmInv, AllIdle, Unsummed, Unspread

LEMMA NoJob == ASSUME NEW w \in Workers, worker[w].pc = "idle" PROVE JobInv(w)
  BY DEF JobInv, Leaving, Erased, Recomputing

\* What has to be shown of a thread's step
LEMMA CalmAfter ==
    ASSUME Inv, Calm, NEW w \in Workers, NEW job, Do(w, job), Tidy(job),
           alone' => /\ \A u \in Workers \ {w} : worker[u].pc = "idle"
                     /\ ConsentInv' /\ JobInv(w)'
                     /\ job.pc \notin Unsummed => (agg = Tally)'
                     /\ status' = "active" /\ job.pc \notin Unspread => Materialized'
    PROVE  Calm'
<1>1. worker' = [worker EXCEPT ![w] = job] /\ worker \in [Workers -> Worker]
  BY DEF Do, Inv, TypeOK
<1>2. worker'[w] = job /\ \A u \in Workers \ {w} : worker'[u] = worker[u]
  BY <1>1
<1>3. \A u \in Workers : Tidy(worker'[u])
  BY <1>2 DEF Calm
<1>4. (\A u \in Workers : Tidy(worker[u]))'
  BY <1>3 DEF Tidy
<1>5. ASSUME alone' PROVE CalmInv'
  <2>1. \A u \in Workers \ {w} : worker'[u].pc = "idle"
    BY <1>2, <1>5
  <2>2. AtMostOneBusy'
    BY <2>1 DEF AtMostOneBusy
  <2>3. ASSUME NEW u \in Workers PROVE JobInv(u)'
    <3>1. CASE u = w
      BY <1>5, <3>1
    <3>2. CASE u # w
      BY <2>1, <3>2 DEF JobInv, Leaving, Erased, Recomputing
    <3> QED
      BY <3>1, <3>2
  <2> QED
    BY <1>2, <1>5, <2>2, <2>3 DEF CalmInv
<1> QED
  BY <1>4, <1>5 DEF Calm, CalmInv

\* And of a step of no thread
LEMMA CalmRest ==
    ASSUME Calm, UNCHANGED worker,
           alone' => /\ AllIdle
                     /\ ConsentInv' /\ (agg = Tally)' /\ (status' = "active" => Materialized')
    PROVE  Calm'
<1>1. (\A u \in Workers : Tidy(worker[u]))'
  BY DEF Calm, Tidy
<1>2. ASSUME alone' PROVE CalmInv'
  <2>1. \A u \in Workers : worker'[u].pc = "idle"
    BY <1>2 DEF AllIdle
  <2>2. AtMostOneBusy'
    BY <2>1 DEF AtMostOneBusy
  <2>3. \A u \in Workers : JobInv(u)'
    BY <2>1 DEF JobInv, Leaving, Erased, Recomputing
  <2> QED
    BY <1>2, <2>2, <2>3 DEF CalmInv
<1> QED
  BY <1>1, <1>2 DEF Calm, CalmInv

\* Nobody is given a vote without a delegation in force and consent.
LEMMA DueOf ==
    ASSUME TypeOK, NEW v \in Voters
    PROVE  /\ ~standing[v].accepted => Due[v] = NoOne
           /\ ~consent[v] => Due[v] = NoOne
  BY ExpectedIs

\* What a recompute reads: the delegations in force, the consent of those who
\* gave them, and the own votes at the ends.
LEMMA DueSame ==
    ASSUME TypeOK, TypeOK', DelegationGraph' = DelegationGraph,
           \A v \in Voters : DelegationGraph[v] # NoOne => consent'[v] = consent[v],
           \A v \in Voters, t \in Voters : t \in Terminal(DelegationGraph, v) => OwnVote(t)' = OwnVote(t)
    PROVE  Due' = Due
<1> SUFFICES ASSUME NEW v \in Voters PROVE Due'[v] = Due[v]
  BY DEF Due
<1> DEFINE voted == {t \in Terminal(DelegationGraph, v) : OwnVote(t) # NoOne}
<1>1. Spoken[v] = IF consent[v] /\ voted # {} THEN CHOOSE t \in voted : TRUE ELSE NoOne
  BY DEF Spoken
<1>2. Spoken'[v] = IF consent'[v] /\ voted' # {} THEN CHOOSE t \in voted' : TRUE ELSE NoOne
  BY DEF Spoken
<1>3. Terminal(DelegationGraph, v)' = Terminal(DelegationGraph, v)
  BY DEF Terminal, Walks
<1>4. \A t \in Terminal(DelegationGraph, v) : t \in Voters /\ OwnVote(t)' = OwnVote(t)
  BY TerminalIsVoter
<1>5. voted' = voted
  BY <1>3, <1>4
<1>6. Spoken'[v] = Spoken[v]
  <2>1. CASE DelegationGraph[v] # NoOne
    BY <1>1, <1>2, <1>5, <2>1
  <2>2. CASE DelegationGraph[v] = NoOne
    <3>1. Terminal(DelegationGraph, v) = {}
      BY <2>2, TerminalIsVoter
    <3>2. voted = {}
      BY <3>1
    <3> QED
      BY <1>1, <1>2, <1>5, <3>2
  <2> QED
    BY <2>1, <2>2
<1>7. ASSUME NEW t, t = Spoken[v], t # NoOne PROVE OwnVote(t)' = OwnVote(t)
  BY <1>4, <1>7, SpokenIs
<1>8. Due[v] = (IF Spoken[v] = NoOne THEN NoOne ELSE OwnVote(Spoken[v]))
  BY DEF Due
<1>9. Due'[v] = (IF Spoken[v] = NoOne THEN NoOne ELSE OwnVote(Spoken[v]))'
  BY DEF Due
<1> QED
  BY <1>6, <1>7, <1>8, <1>9 DEF OwnVote

LEMMA MaterializedSame ==
    ASSUME Materialized, UNCHANGED <<row, overdue>>, Due' = Due
    PROVE  Materialized'
  BY DEF Materialized, RowAfter, OwnVote

LEMMA TallySame == ASSUME UNCHANGED row PROVE Tally' = Tally
  BY DEF Tally

\* One row moves from one option to another.
LEMMA TallyMoves ==
    ASSUME NEW v \in Voters, \A u \in Voters \ {v} : row'[u] = row[u],
           row'[v].option # row[v].option, NEW o \in Options
    PROVE  Tally'[o] = Tally[o] + (IF o = row'[v].option THEN 1 ELSE 0) - (IF o = row[v].option THEN 1 ELSE 0)
<1> DEFINE S == {u \in Voters : row[u].option = o}
           T == {u \in Voters : row'[u].option = o}
<1>1. Tally[o] = Cardinality(S) /\ Tally'[o] = Cardinality(T)
  BY DEF Tally
<1>2. IsFiniteSet(S) /\ Cardinality(S) \in Nat
  BY VotersAssumption, FS_Subset, FS_CardinalityType
<1>3. CASE o = row'[v].option
  <2>1. T = S \cup {v} /\ v \notin S
    BY <1>3
  <2>2. Cardinality(T) = Cardinality(S) + 1
    BY <1>2, <2>1, FS_AddElement
  <2> QED
    BY <1>1, <1>2, <1>3, <2>2
<1>4. CASE o = row[v].option
  <2>1. T = S \ {v} /\ v \in S
    BY <1>4
  <2>2. Cardinality(T) = Cardinality(S) - 1
    BY <1>2, <2>1, FS_RemoveElement
  <2> QED
    BY <1>1, <1>2, <1>4, <2>2
<1>5. CASE o # row'[v].option /\ o # row[v].option
  <2>1. T = S
    BY <1>5
  <2>2. Tally'[o] = Tally[o] /\ Tally[o] \in Nat
    BY <1>1, <1>2, <2>1
  <2> HIDE DEF S, T
  <2> QED
    BY <1>5, <2>2
<1> QED
  BY <1>3, <1>4, <1>5

\* A step that changes neither rows nor delegations nor consent
LEMMA DataSame ==
    ASSUME Inv, UNCHANGED <<row, standing, consent, overdue>>
    PROVE  /\ Due' = Due /\ Tally' = Tally
           /\ ConsentInv => ConsentInv'
           /\ Materialized => Materialized'
<1>1. DelegationGraph' = DelegationGraph /\ \A v \in Voters : OwnVote(v)' = OwnVote(v)
  BY DEF DelegationGraph, OwnVote
<1>2. \A v \in Voters : Terminal(DelegationGraph, v)' = Terminal(DelegationGraph, v)
  BY <1>1 DEF Terminal, Walks
<1>3. ASSUME NEW v \in Voters PROVE Due'[v] = Due[v]
  <2> DEFINE voted == {t \in Terminal(DelegationGraph, v) : OwnVote(t) # NoOne}
  <2>1. voted' = voted /\ consent'[v] = consent[v]
    BY <1>1, <1>2, TerminalIsVoter
  <2>2. Spoken'[v] = Spoken[v]
    <3>1. Spoken[v] = IF consent[v] /\ voted # {} THEN CHOOSE t \in voted : TRUE ELSE NoOne
      BY DEF Spoken
    <3>2. Spoken'[v] = IF consent'[v] /\ voted' # {} THEN CHOOSE t \in voted' : TRUE ELSE NoOne
      BY DEF Spoken
    <3> QED
      BY <2>1, <3>1, <3>2
  <2> QED
    BY <2>2 DEF Due, OwnVote
<1>4. Due' = Due
  BY <1>3 DEF Due
<1>5. ConsentInv => ConsentInv'
  BY DEF ConsentInv
<1> QED
  BY <1>4, <1>5, TallySame, MaterializedSame

-----------------------------------------------------------------------------
(* One job at a time: casting a vote *)

LEMMA CastReadCalm ==
    ASSUME Inv, Calm, NEW w \in Workers, NEW v \in Voters, NEW o \in Options, CastRead(w, v, o)
    PROVE  Calm'
<1> DEFINE job == [Idle EXCEPT !.pc = "cast", !.who = v, !.option = o]
<1>1. /\ job.pc = "cast" /\ job.who = v /\ job.expect = Nothing /\ job.speaker = Nothing /\ job.counts = Zero
  BY DEF Idle
<1>2. Tidy(job)
  BY <1>1 DEF Tidy, Recomputing
<1>3. Do(w, job) /\ Track /\ UNCHANGED <<status, overdue, consent, standing, row, agg>> /\ consent[v]
  BY DEF CastRead, MayVote, InTime
<1>4. worker'[w] = job
  BY <1>3 DEF Do, Inv, TypeOK
<1> HIDE DEF job
<1>5. ASSUME alone'
      PROVE  /\ \A u \in Workers \ {w} : worker[u].pc = "idle"
             /\ ConsentInv' /\ JobInv(w)'
             /\ job.pc \notin Unsummed => (agg = Tally)'
             /\ status' = "active" /\ job.pc \notin Unspread => Materialized'
  <2>1. /\ ConsentInv /\ \A u \in Workers \ {w} : worker[u].pc = "idle"
        /\ agg = Tally /\ (status = "active" => Materialized)
    BY <1>1, <1>3, <1>5, ActsAlone DEF CastRead, Unsummed, Unspread
  <2>2. JobInv(w)'
    BY <1>1, <1>3, <1>4 DEF JobInv, Leaving, Erased, Recomputing
  <2> QED
    BY <1>3, <2>1, <2>2, DataSame
<1> QED
  BY <1>2, <1>3, <1>5, CalmAfter

\* A thread that is done, having changed no more than the aggregates or consent
LEMMA IdleCalm ==
    ASSUME Inv, Calm, NEW w \in Workers, Do(w, Idle), Track,
           alone' /\ alone /\ JobInv(w) /\ ConsentInv
              /\ (worker[w].pc \notin Unsummed => agg = Tally)
              /\ (status = "active" /\ worker[w].pc \notin Unspread => Materialized) =>
                 ConsentInv' /\ (agg = Tally)' /\ (status' = "active" => Materialized')
    PROVE  Calm'
<1>1. Idle.pc = "idle" /\ Tidy(Idle)
  BY DEF Idle, Tidy, Recomputing
<1>2. worker'[w] = Idle
  BY DEF Do, Inv, TypeOK
<1>3. JobInv(w)'
  BY <1>1, <1>2 DEF JobInv, Leaving, Erased, Recomputing
<1>4. ASSUME alone'
      PROVE  /\ \A u \in Workers \ {w} : worker[u].pc = "idle"
             /\ ConsentInv' /\ (agg = Tally)' /\ (status' = "active" => Materialized')
  BY <1>4, ActsAlone
<1> QED
  BY <1>1, <1>3, <1>4, CalmAfter

LEMMA CastSameCalm ==
    ASSUME Inv, Calm, NEW w \in Workers, CastSame(w)
    PROVE  Calm'
<1>1. /\ worker[w].pc = "cast" /\ Do(w, Idle) /\ Track
      /\ UNCHANGED <<status, overdue, consent, standing, row, agg>>
  BY DEF CastSame
<1>2. worker[w].pc \notin Unsummed /\ worker[w].pc \notin Unspread
  BY <1>1 DEF Unsummed, Unspread
<1> QED
  BY <1>1, <1>2, DataSame, IdleCalm

LEMMA CastCommitCalm ==
    ASSUME Inv, Calm, NEW w \in Workers, CastCommit(w)
    PROVE  Calm'
<1> DEFINE who == worker[w].who
           ballot == [option |-> worker[w].option, via |-> FALSE]
           job == [worker[w] EXCEPT !.pc = "delta", !.old = row[who].option]
<1>1. /\ worker[w] \in Worker /\ worker[w].pc = "cast" /\ who \in Voters /\ worker[w].option \in Options
      /\ row[who].option # worker[w].option /\ row \in [Voters -> Rows]
  BY DEF CastCommit, Inv, TypeOK, BallotInv, Rows
<1>2. /\ job.pc = "delta" /\ job.option = worker[w].option /\ job.old = row[who].option
      /\ job.expect = worker[w].expect /\ job.speaker = worker[w].speaker /\ job.counts = worker[w].counts
  BY <1>1 DEF Worker
<1>3. /\ Do(w, job) /\ Track /\ row' = [row EXCEPT ![who] = ballot] /\ ballot.option = job.option
      /\ UNCHANGED <<status, overdue, consent, standing, agg>>
  BY <1>2 DEF CastCommit
<1>4. Tidy(job)
  BY <1>1, <1>2 DEF Calm, Tidy, Recomputing
<1>5. worker'[w] = job
  BY <1>3 DEF Do, Inv, TypeOK
<1> HIDE DEF job, ballot, who
<1>6. ASSUME alone'
      PROVE  /\ \A u \in Workers \ {w} : worker[u].pc = "idle"
             /\ ConsentInv' /\ JobInv(w)'
             /\ job.pc \notin Unsummed => (agg = Tally)'
             /\ status' = "active" /\ job.pc \notin Unspread => Materialized'
  <2>1. /\ ConsentInv /\ JobInv(w) /\ \A u \in Workers \ {w} : worker[u].pc = "idle"
        /\ agg = Tally
    BY <1>1, <1>2, <1>3, <1>6, ActsAlone DEF Unsummed
  <2>2. consent[who]
    BY <1>1, <2>1 DEF JobInv, who
  <2>3. ConsentInv'
    BY <1>1, <1>3, <2>1, <2>2 DEF ConsentInv
  <2>4. \A o \in Options : Tally'[o] = agg[o] + (IF o = job.option THEN 1 ELSE 0) - (IF o = job.old THEN 1 ELSE 0)
    <3> TAKE o \in Options
    <3>1. row'[who] = ballot /\ \A u \in Voters \ {who} : row'[u] = row[u]
      BY <1>1, <1>3
    <3>2. row'[who].option = job.option /\ job.option # row[who].option
      BY <1>1, <1>2, <1>3, <3>1
    <3>3. Tally'[o] = Tally[o] + (IF o = row'[who].option THEN 1 ELSE 0) - (IF o = row[who].option THEN 1 ELSE 0)
      BY <1>1, <3>1, <3>2, TallyMoves
    <3> QED
      BY <1>2, <2>1, <3>2, <3>3
  <2>5. JobInv(w)'
    BY <1>2, <1>3, <1>5, <2>4 DEF JobInv, Leaving, Erased, Recomputing
  <2> QED
    BY <1>2, <2>1, <2>3, <2>5 DEF Unsummed, Unspread
<1> QED
  BY <1>3, <1>4, <1>6, CalmAfter

LEMMA DeltaCalm ==
    ASSUME Inv, Calm, NEW w \in Workers, Delta(w)
    PROVE  Calm'
<1> DEFINE job == [Idle EXCEPT !.pc = "compute"]
<1>1. /\ job.pc = "compute" /\ job.who = NoOne /\ job.option = NoOne /\ job.old = NoOne
      /\ job.expect = Nothing /\ job.speaker = Nothing /\ job.counts = Zero /\ job.then = "idle"
  BY DEF Idle
<1>2. Tidy(job)
  BY <1>1 DEF Tidy, Recomputing
<1>3. Do(w, job) /\ Track /\ worker[w].pc = "delta" /\ UNCHANGED <<status, overdue, consent, standing, row>>
  BY DEF Delta
<1>4. worker'[w] = job
  BY <1>3 DEF Do, Inv, TypeOK
<1> HIDE DEF job
<1>5. ASSUME alone'
      PROVE  /\ \A u \in Workers \ {w} : worker[u].pc = "idle"
             /\ ConsentInv' /\ JobInv(w)'
             /\ job.pc \notin Unsummed => (agg = Tally)'
             /\ status' = "active" /\ job.pc \notin Unspread => Materialized'
  <2>1. ConsentInv /\ JobInv(w) /\ \A u \in Workers \ {w} : worker[u].pc = "idle"
    BY <1>1, <1>3, <1>5, ActsAlone
  <2>2. JobInv(w)'
    BY <1>1, <1>4 DEF JobInv, Leaving, Erased, Recomputing
  <2>3. \A o \in Options : Tally[o] = agg[o] + (IF o = worker[w].option THEN 1 ELSE 0)
                                             - (IF o = worker[w].old THEN 1 ELSE 0)
    BY <1>3, <2>1 DEF JobInv
  <2>4. agg' = Tally
    BY <2>3 DEF Delta, Tally
  <2> QED
    BY <1>1, <1>3, <2>1, <2>2, <2>4, DataSame DEF Unspread
<1> QED
  BY <1>2, <1>3, <1>5, CalmAfter

-----------------------------------------------------------------------------
(* One job at a time: recompute and recount *)

LEMMA ComputeReadCalm ==
    ASSUME Inv, Calm, NEW w \in Workers, ComputeRead(w)
    PROVE  Calm'
<1> DEFINE job == [worker[w] EXCEPT !.pc = "apply", !.expect = Expected, !.speaker = Speaker]
<1>1. worker[w] \in Worker /\ worker[w].pc = "compute"
  BY DEF ComputeRead, Inv, TypeOK
<1>2. /\ job.pc = "apply" /\ job.expect = Expected /\ job.who = worker[w].who /\ job.option = worker[w].option
      /\ job.old = worker[w].old /\ job.counts = worker[w].counts /\ job.then = worker[w].then
  BY <1>1 DEF Worker
<1>3. Tidy(job)
  BY <1>1, <1>2 DEF Calm, Tidy, Recomputing
<1>4. Do(w, job) /\ Track /\ UNCHANGED <<status, overdue, consent, standing, row, agg>>
  BY DEF ComputeRead
<1>5. worker'[w] = job
  BY <1>4 DEF Do, Inv, TypeOK
<1> HIDE DEF job
<1>6. ASSUME alone'
      PROVE  /\ \A u \in Workers \ {w} : worker[u].pc = "idle"
             /\ ConsentInv' /\ JobInv(w)'
             /\ job.pc \notin Unsummed => (agg = Tally)'
             /\ status' = "active" /\ job.pc \notin Unspread => Materialized'
  <2>1. /\ ConsentInv /\ JobInv(w) /\ \A u \in Workers \ {w} : worker[u].pc = "idle"
        /\ agg = Tally
    BY <1>1, <1>2, <1>4, <1>6, ActsAlone DEF Unsummed
  <2>2. Due' = Due /\ Tally' = Tally /\ (ConsentInv => ConsentInv') /\ (Materialized => Materialized')
    BY <1>4, DataSame
  <2>3. \A v \in Voters : Expected[v] = Due[v] \/ (overdue /\ Expected[v] = NoOne)
    BY ExpectedIs DEF Inv
  <2>4. JobInv(w)'
    BY <1>1, <1>2, <1>4, <1>5, <2>1, <2>2, <2>3 DEF JobInv, Leaving, Erased, Recomputing
  <2> QED
    BY <1>2, <1>4, <2>1, <2>2, <2>4 DEF Unspread
<1> QED
  BY <1>3, <1>4, <1>6, CalmAfter

\* Recomputing what nothing has changed since changes nothing more.
LEMMA ApplyCalm ==
    ASSUME Inv, Calm, NEW w \in Workers, Apply(w)
    PROVE  Calm'
<1> DEFINE job == [worker[w] EXCEPT !.pc = "count", !.expect = Nothing, !.speaker = Nothing]
<1>1. worker[w] \in Worker /\ worker[w].pc = "apply"
  BY DEF Apply, Inv, TypeOK
<1>2. /\ job.pc = "count" /\ job.expect = Nothing /\ job.speaker = Nothing /\ job.who = worker[w].who /\ job.option = worker[w].option
      /\ job.old = worker[w].old /\ job.counts = worker[w].counts /\ job.then = worker[w].then
  BY <1>1 DEF Worker
<1>3. Tidy(job)
  BY <1>1, <1>2 DEF Calm, Tidy, Recomputing
<1>4. /\ Do(w, job) /\ Track /\ UNCHANGED <<status, overdue, consent, standing, agg>>
      /\ row' = [v \in Voters |-> RowAfter(v, worker[w].expect[v])]
  BY DEF Apply
<1>5. worker'[w] = job
  BY <1>4 DEF Do, Inv, TypeOK
<1> HIDE DEF job
<1>6. ASSUME alone'
      PROVE  /\ \A u \in Workers \ {w} : worker[u].pc = "idle"
             /\ ConsentInv' /\ JobInv(w)'
             /\ job.pc \notin Unsummed => (agg = Tally)'
             /\ status' = "active" /\ job.pc \notin Unspread => Materialized'
  <2>1. ConsentInv /\ JobInv(w) /\ \A u \in Workers \ {w} : worker[u].pc = "idle"
    BY <1>2, <1>4, <1>6, ActsAlone
  <2> DEFINE due == worker[w].expect
  <2>2. \A v \in Voters : due[v] = Due[v] \/ (overdue /\ due[v] = NoOne)
    BY <1>1, <2>1 DEF JobInv
  <2>3. \A v \in Voters : row'[v] = RowAfter(v, due[v])
    BY <1>4
  <2>4. TypeOK /\ TypeOK'
    BY ApplyKeeps DEF Inv
  <2>5. ASSUME NEW v \in Voters
        PROVE  OwnVote(v)' = OwnVote(v) /\ (OwnVote(v) # NoOne => row'[v] = row[v])
    <3>1. OwnVote(v)' = IF row'[v].via THEN NoOne ELSE row'[v].option
      BY DEF OwnVote
    <3>2. CASE OwnVote(v) # NoOne
      <4>1. row'[v] = row[v]
        BY <2>3, <3>2 DEF RowAfter
      <4> QED
        BY <3>1, <4>1 DEF OwnVote
    <3>3. CASE OwnVote(v) = NoOne /\ due[v] # NoOne
      <4>1. row'[v] = [option |-> due[v], via |-> TRUE]
        BY <2>3, <3>3 DEF RowAfter
      <4> QED
        BY <3>1, <3>3, <4>1
    <3>4. CASE OwnVote(v) = NoOne /\ due[v] = NoOne
      <4>1. row'[v] = NoVote
        BY <2>3, <3>4 DEF RowAfter
      <4> QED
        BY <3>1, <3>4, <4>1 DEF NoVote
    <3> QED
      BY <3>2, <3>3, <3>4
  <2>6. Due' = Due
    <3>1. DelegationGraph' = DelegationGraph
      BY <1>4 DEF DelegationGraph
    <3> QED
      BY <1>4, <2>4, <2>5, <3>1, DueSame
  <2>7. Materialized'
    <3> HIDE DEF due
    <3>1. overdue' = overdue
      BY <1>4
    <3>2. ASSUME NEW v \in Voters
          PROVE  row'[v] = RowAfter(v, Due[v])' \/ (overdue' /\ row'[v] = RowAfter(v, NoOne)')
      <4>1. CASE due[v] = Due[v]
        BY <2>3, <2>5, <2>6, <4>1 DEF RowAfter
      <4>2. CASE overdue /\ due[v] = NoOne
        BY <2>3, <2>5, <3>1, <4>2 DEF RowAfter
      <4> QED
        BY <2>2, <4>1, <4>2
    <3> QED
      BY <3>2 DEF Materialized
  <2>8. ASSUME NEW v \in Voters, row[v] = NoVote, Due[v] = NoOne PROVE row'[v] = NoVote
    BY <2>2, <2>3, <2>8 DEF RowAfter, OwnVote, NoVote
  <2>9. ConsentInv'
    BY <1>4, <2>1, <2>4, <2>8, DueOf DEF ConsentInv
  <2>10. JobInv(w)'
    <3>1. Leaving(job) => /\ job.who \in Voters
                          /\ \A u \in Voters : standing'[u] # Nobody => job.who \notin {u, standing'[u].to}
      BY <1>1, <1>2, <1>4, <2>1 DEF JobInv, Leaving, Recomputing
    <3>2. Erased(job) => row'[job.who] = NoVote
      <4> SUFFICES ASSUME Erased(job) PROVE row'[job.who] = NoVote
        OBVIOUS
      <4>1. row[job.who] = NoVote /\ Leaving(worker[w])
        BY <1>1, <1>2, <2>1 DEF JobInv, Leaving, Erased, Recomputing
      <4>2. job.who \in Voters /\ standing[job.who] = Nobody
        BY <1>2, <2>1, <4>1 DEF JobInv
      <4>3. Due[job.who] = NoOne
        BY <2>4, <4>2, DueOf DEF Nobody
      <4> QED
        BY <2>8, <4>1, <4>2, <4>3
    <3> QED
      BY <1>2, <1>5, <3>1, <3>2 DEF JobInv, Leaving, Erased
  <2> QED
    BY <1>2, <2>1, <2>7, <2>9, <2>10 DEF Unsummed
<1> QED
  BY <1>3, <1>4, <1>6, CalmAfter

LEMMA CountReadCalm ==
    ASSUME Inv, Calm, NEW w \in Workers, CountRead(w)
    PROVE  Calm'
<1> DEFINE job == [worker[w] EXCEPT !.pc = "store", !.counts = Tally]
<1>1. worker[w] \in Worker /\ worker[w].pc = "count"
  BY DEF CountRead, Inv, TypeOK
<1>2. /\ job.pc = "store" /\ job.counts = Tally /\ job.who = worker[w].who /\ job.option = worker[w].option
      /\ job.old = worker[w].old /\ job.expect = worker[w].expect /\ job.speaker = worker[w].speaker /\ job.then = worker[w].then
  BY <1>1 DEF Worker
<1>3. Tidy(job)
  BY <1>1, <1>2 DEF Calm, Tidy, Recomputing
<1>4. Do(w, job) /\ Track /\ UNCHANGED <<status, overdue, consent, standing, row, agg>>
  BY DEF CountRead
<1>5. worker'[w] = job
  BY <1>4 DEF Do, Inv, TypeOK
<1> HIDE DEF job
<1>6. ASSUME alone'
      PROVE  /\ \A u \in Workers \ {w} : worker[u].pc = "idle"
             /\ ConsentInv' /\ JobInv(w)'
             /\ job.pc \notin Unsummed => (agg = Tally)'
             /\ status' = "active" /\ job.pc \notin Unspread => Materialized'
  <2>1. /\ ConsentInv /\ JobInv(w) /\ \A u \in Workers \ {w} : worker[u].pc = "idle"
        /\ status = "active" => Materialized
    BY <1>1, <1>2, <1>4, <1>6, ActsAlone DEF Unspread
  <2>2. JobInv(w)'
    BY <1>1, <1>2, <1>4, <1>5, <2>1, DataSame DEF JobInv, Leaving, Erased, Recomputing
  <2> QED
    BY <1>2, <1>4, <2>1, <2>2, DataSame DEF Unsummed
<1> QED
  BY <1>3, <1>4, <1>6, CalmAfter

LEMMA CountStoreCalm ==
    ASSUME Inv, Calm, NEW w \in Workers, CountStore(w)
    PROVE  Calm'
<1> DEFINE next == worker[w].then
           job == [worker[w] EXCEPT !.pc = next, !.then = "idle", !.counts = Zero]
<1>1. worker[w] \in Worker /\ worker[w].pc = "store" /\ next \in {"idle", "erase", "forget"}
  BY DEF CountStore, Inv, TypeOK, Worker
<1>2. /\ job.pc = next /\ job.counts = Zero /\ job.who = worker[w].who /\ job.option = worker[w].option
      /\ job.old = worker[w].old /\ job.expect = worker[w].expect /\ job.speaker = worker[w].speaker /\ job.then = "idle"
  BY <1>1 DEF Worker
<1>3. Tidy(job)
  <2>1. job.expect = Nothing /\ job.speaker = Nothing
    BY <1>1, <1>2 DEF Calm, Tidy
  <2>2. ASSUME next = "idle" PROVE job = Idle
    <3>1. job.who = NoOne /\ job.option = NoOne /\ job.old = NoOne
      BY <1>1, <1>2, <2>2 DEF Calm, Tidy, Recomputing
    <3>2. job \in Worker
      <4>1. Zero \in Counts
        BY DEF Counts, Zero
      <4> HIDE DEF next
      <4> QED
        BY <1>1, <4>1 DEF Worker, Jobs
    <3> HIDE DEF job
    <3>3. job = [pc |-> job.pc, who |-> job.who, option |-> job.option, old |-> job.old,
                 expect |-> job.expect, speaker |-> job.speaker, counts |-> job.counts, then |-> job.then]
      BY <3>2 DEF Worker
    <3> QED
      BY <1>2, <2>1, <2>2, <3>1, <3>3 DEF Idle
  <2> HIDE DEF job
  <2> QED
    BY <1>1, <1>2, <2>1, <2>2 DEF Tidy, Recomputing
<1>4. Do(w, job) /\ Track /\ agg' = worker[w].counts /\ UNCHANGED <<status, overdue, consent, standing, row>>
  BY DEF CountStore
<1>5. worker'[w] = job
  BY <1>4 DEF Do, Inv, TypeOK
<1> HIDE DEF job, next
<1>6. ASSUME alone'
      PROVE  /\ \A u \in Workers \ {w} : worker[u].pc = "idle"
             /\ ConsentInv' /\ JobInv(w)'
             /\ job.pc \notin Unsummed => (agg = Tally)'
             /\ status' = "active" /\ job.pc \notin Unspread => Materialized'
  <2>1. /\ ConsentInv /\ JobInv(w) /\ \A u \in Workers \ {w} : worker[u].pc = "idle"
        /\ status = "active" => Materialized
    BY <1>1, <1>4, <1>6, ActsAlone DEF Unspread
  <2>2. agg' = Tally
    BY <1>1, <1>4, <2>1 DEF JobInv
  <2>3. JobInv(w)'
    BY <1>1, <1>2, <1>4, <1>5, <2>1 DEF JobInv, Leaving, Erased, Recomputing, next
  <2> QED
    BY <1>4, <2>1, <2>2, <2>3, DataSame
<1> QED
  BY <1>3, <1>4, <1>6, CalmAfter

-----------------------------------------------------------------------------
(* One job at a time: delegations, consent and erasure *)

LEMMA CreateCalm ==
    ASSUME Inv, Calm, NEW v \in Voters, NEW d \in Voters, Create(v, d)
    PROVE  Calm'
<1>1. /\ consent[v] /\ standing[v] = Nobody /\ standing' = [standing EXCEPT ![v] = [to |-> d, accepted |-> FALSE]]
      /\ Track /\ UNCHANGED <<status, overdue, consent, row, agg, worker>>
  BY DEF Create
<1>2. TypeOK /\ TypeOK'
  BY CreateKeeps DEF Inv
<1>3. ~standing[v].accepted /\ ~standing'[v].accepted /\ \A u \in Voters \ {v} : standing'[u] = standing[u]
  BY <1>1, <1>2 DEF Nobody, TypeOK
<1>4. DelegationGraph' = DelegationGraph
  BY <1>3 DEF DelegationGraph
<1>5. Due' = Due
  BY <1>1, <1>2, <1>4, DueSame DEF OwnVote
<1>6. ASSUME alone'
      PROVE  AllIdle /\ ConsentInv' /\ (agg = Tally)' /\ (status' = "active" => Materialized')
  <2>1. ConsentInv /\ AllIdle /\ agg = Tally /\ (status = "active" => Materialized)
    BY <1>1, <1>6, AllAtRest
  <2>2. ConsentInv'
    BY <1>1, <1>3, <2>1 DEF ConsentInv
  <2> QED
    BY <1>1, <1>5, <2>1, <2>2, TallySame, MaterializedSame
<1> QED
  BY <1>1, <1>6, CalmRest

LEMMA SameJob ==
    ASSUME NEW job \in Worker, job.pc = "idle", job.who = NoOne, job.option = NoOne,
           job.old = NoOne, job.expect = Nothing, job.speaker = Nothing, job.counts = Zero, job.then = "idle"
    PROVE  job = Idle
  BY DEF Worker, Idle

\* A job that begins with a recompute, where there is anything to recompute
LEMMA RecomputeCalm ==
    ASSUME Inv, Calm, NEW w \in Workers, Recompute(w, "idle"), worker[w].pc = "idle", Track,
           UNCHANGED <<status, overdue, row, agg>>, alone' /\ ConsentInv => ConsentInv'
    PROVE  Calm'
<1> DEFINE next == IF status = "active" THEN "compute" ELSE "idle"
           job == [Idle EXCEPT !.pc = next, !.then = "idle"]
<1>2. Do(w, job) /\ next \in {"compute", "idle"} /\ (status = "active" => next = "compute")
  BY DEF Recompute
<1> HIDE DEF next
<1>1. /\ job.pc = next /\ job.who = NoOne /\ job.option = NoOne /\ job.old = NoOne
      /\ job.expect = Nothing /\ job.speaker = Nothing /\ job.counts = Zero /\ job.then = "idle" /\ (next = "idle" => job = Idle)
  <2>1. /\ job.pc = next /\ job.who = NoOne /\ job.option = NoOne /\ job.old = NoOne
        /\ job.expect = Nothing /\ job.speaker = Nothing /\ job.counts = Zero /\ job.then = "idle"
    BY DEF Idle
  <2>2. job \in Worker
    BY <1>2, IdleTyped DEF Idle, Worker, Jobs
  <2> HIDE DEF job
  <2> QED
    BY <2>1, <2>2, SameJob
<1>3. Tidy(job)
  BY <1>1, <1>2 DEF Tidy, Recomputing
<1>4. worker'[w] = job
  BY <1>2 DEF Do, Inv, TypeOK
<1> HIDE DEF job
<1>5. JobInv(w)'
  BY <1>1, <1>2, <1>4 DEF JobInv, Leaving, Erased, Recomputing
<1>6. ASSUME alone'
      PROVE  /\ \A u \in Workers \ {w} : worker[u].pc = "idle"
             /\ ConsentInv' /\ JobInv(w)'
             /\ job.pc \notin Unsummed => (agg = Tally)'
             /\ status' = "active" /\ job.pc \notin Unspread => Materialized'
  <2>1. ConsentInv /\ agg = Tally /\ \A u \in Workers \ {w} : worker[u].pc = "idle"
    BY <1>1, <1>2, <1>6, ActsAlone DEF Unsummed
  <2> QED
    BY <1>1, <1>2, <1>5, <1>6, <2>1, TallySame DEF Unspread
<1> QED
  BY <1>2, <1>3, <1>6, CalmAfter

LEMMA AcceptCalm ==
    ASSUME Inv, Calm, NEW w \in Workers, NEW v \in Voters, Accept(w, v)
    PROVE  Calm'
<1>1. /\ worker[w].pc = "idle" /\ standing[v] # Nobody /\ consent[standing[v].to]
      /\ standing' = [standing EXCEPT ![v] = [standing[v] EXCEPT !.accepted = TRUE]]
      /\ Recompute(w, "idle") /\ Track /\ UNCHANGED <<status, overdue, consent, row, agg>>
  BY DEF Accept
<1>2. standing[v] \in [to : Voters, accepted : BOOLEAN] /\ standing \in [Voters -> Standings]
  BY <1>1 DEF Inv, TypeOK, Standings
<1>3. standing'[v].to = standing[v].to /\ \A u \in Voters \ {v} : standing'[u] = standing[u]
  BY <1>1, <1>2
<1>4. ASSUME ConsentInv PROVE ConsentInv'
  BY <1>1, <1>3, <1>4 DEF ConsentInv
<1> QED
  BY <1>1, <1>4, RecomputeCalm

LEMMA RevokeCalm ==
    ASSUME Inv, Calm, NEW w \in Workers, NEW v \in Voters, Revoke(w, v)
    PROVE  Calm'
<1>1. /\ worker[w].pc = "idle" /\ standing' = [standing EXCEPT ![v] = Nobody]
      /\ Track /\ UNCHANGED <<status, overdue, consent, row, agg>>
      /\ IF standing[v].accepted THEN Recompute(w, "idle") ELSE UNCHANGED worker
  BY DEF Revoke
<1>2. TypeOK /\ TypeOK'
  BY RevokeKeeps DEF Inv
<1>3. standing'[v] = Nobody /\ \A u \in Voters \ {v} : standing'[u] = standing[u]
  BY <1>1, <1>2 DEF TypeOK
<1>4. ASSUME ConsentInv PROVE ConsentInv'
  <2>1. consent' = consent /\ row' = row /\ Nobody.accepted = FALSE
    BY <1>1 DEF Nobody
  <2>2. ASSUME NEW u \in Voters
        PROVE  /\ standing'[u] # Nobody => consent'[u]
               /\ standing'[u].accepted => consent'[standing'[u].to]
               /\ ~consent'[u] => row'[u] = NoVote
    <3>1. /\ standing[u] # Nobody => consent[u]
          /\ standing[u].accepted => consent[standing[u].to]
          /\ ~consent[u] => row[u] = NoVote
      BY <1>4 DEF ConsentInv
    <3>2. CASE u = v
      BY <1>3, <2>1, <3>1, <3>2
    <3>3. CASE u # v
      BY <1>3, <2>1, <3>1, <3>3
    <3> QED
      BY <3>2, <3>3
  <2> QED
    BY <2>2 DEF ConsentInv
<1>5. CASE standing[v].accepted
  BY <1>1, <1>4, <1>5, RecomputeCalm
<1>6. CASE ~standing[v].accepted
  <2>1. DelegationGraph' = DelegationGraph
    BY <1>3, <1>6 DEF DelegationGraph, Nobody
  <2>2. Due' = Due
    BY <1>1, <1>2, <2>1, DueSame DEF OwnVote
  <2>3. ASSUME alone'
        PROVE  AllIdle /\ ConsentInv' /\ (agg = Tally)' /\ (status' = "active" => Materialized')
    BY <1>1, <1>4, <1>6, <2>2, <2>3, AllAtRest, TallySame, MaterializedSame
  <2> QED
    BY <1>1, <1>6, <2>3, CalmRest
<1> QED
  BY <1>5, <1>6

LEMMA DeclineCalm ==
    ASSUME Inv, Calm, NEW v \in Voters, Decline(v)
    PROVE  Calm'
  BY CalmRest DEF Decline

LEMMA GrantCalm ==
    ASSUME Inv, Calm, NEW v \in Voters, Grant(v)
    PROVE  Calm'
<1>1. /\ ~consent[v] /\ consent' = [consent EXCEPT ![v] = TRUE]
      /\ Track /\ UNCHANGED <<status, overdue, standing, row, agg, worker>>
  BY DEF Grant
<1>2. TypeOK /\ TypeOK'
  BY GrantKeeps DEF Inv
<1>3. consent'[v] /\ \A u \in Voters \ {v} : consent'[u] = consent[u]
  BY <1>1, <1>2 DEF TypeOK
<1>4. ASSUME alone'
      PROVE  AllIdle /\ ConsentInv' /\ (agg = Tally)' /\ (status' = "active" => Materialized')
  <2>1. ConsentInv /\ AllIdle /\ agg = Tally /\ (status = "active" => Materialized)
    BY <1>1, <1>4, AllAtRest
  <2>2. ConsentInv'
    BY <1>1, <1>2, <1>3, <2>1, GraphIs DEF ConsentInv
  <2>3. ASSUME NEW u \in Voters, DelegationGraph[u] # NoOne PROVE consent'[u] = consent[u]
    <3>1. standing[u] # Nobody
      BY <1>2, <2>3, GraphIs
    <3> QED
      BY <1>1, <1>3, <2>1, <3>1 DEF ConsentInv
  <2>4. Due' = Due
    <3>1. DelegationGraph' = DelegationGraph
      BY <1>1 DEF DelegationGraph
    <3> QED
      BY <1>1, <1>2, <2>3, <3>1, DueSame DEF OwnVote
  <2> QED
    BY <1>1, <2>1, <2>2, <2>4, TallySame, MaterializedSame
<1> QED
  BY <1>1, <1>4, CalmRest

LEMMA WithdrawCalm ==
    ASSUME Inv, Calm, NEW w \in Workers, NEW v \in Voters, Withdraw(w, v)
    PROVE  Calm'
<1> DEFINE next == IF OfParty(v) # {} /\ status = "active" THEN "compute" ELSE "erase"
           job == [Idle EXCEPT !.who = v, !.then = "erase", !.pc = next]
<1>1. /\ job.pc = next /\ job.who = v /\ job.then = "erase" /\ job.expect = Nothing /\ job.speaker = Nothing /\ job.counts = Zero
  BY DEF Idle
<1>2. /\ worker[w].pc = "idle" /\ Do(w, job) /\ Track /\ UNCHANGED <<status, overdue, consent, row, agg>>
      /\ standing' = [u \in Voters |-> IF u \in OfParty(v) THEN Nobody ELSE standing[u]]
  BY DEF Withdraw
<1>3. next \in {"compute", "erase"} /\ (status = "active" /\ next # "compute" => OfParty(v) = {})
  OBVIOUS
<1> HIDE DEF next
<1>4. Tidy(job)
  BY <1>1, <1>3 DEF Tidy, Recomputing
<1>5. worker'[w] = job
  BY <1>2 DEF Do, Inv, TypeOK
<1> HIDE DEF job
<1>6. \A u \in Voters : /\ standing'[u] # Nobody => standing'[u] = standing[u] /\ v \notin {u, standing'[u].to}
                        /\ standing'[u].accepted => standing'[u] # Nobody
  BY <1>2 DEF OfParty, Nobody
<1>7. ASSUME alone'
      PROVE  /\ \A u \in Workers \ {w} : worker[u].pc = "idle"
             /\ ConsentInv' /\ JobInv(w)'
             /\ job.pc \notin Unsummed => (agg = Tally)'
             /\ status' = "active" /\ job.pc \notin Unspread => Materialized'
  <2>1. /\ ConsentInv /\ agg = Tally /\ \A u \in Workers \ {w} : worker[u].pc = "idle"
        /\ status = "active" => Materialized
    BY <1>1, <1>2, <1>3, <1>7, ActsAlone DEF Unsummed, Unspread
  <2>2. ConsentInv'
    BY <1>2, <1>6, <2>1 DEF ConsentInv
  <2>3. JobInv(w)'
    BY <1>1, <1>3, <1>5, <1>6 DEF JobInv, Leaving, Erased, Recomputing
  <2>4. ASSUME status = "active", job.pc \notin Unspread PROVE Materialized'
    <3>1. OfParty(v) = {}
      BY <1>1, <1>3, <2>4 DEF Unspread
    <3>2. standing' = standing
      BY <1>2, <3>1 DEF Inv, TypeOK
    <3> QED
      BY <1>2, <2>1, <2>4, <3>2, DataSame
  <2> QED
    BY <1>2, <2>1, <2>2, <2>3, <2>4, TallySame
<1> QED
  BY <1>2, <1>4, <1>7, CalmAfter

\* Nobody whom nobody delegates to is at the end of another's chain.
LEMMA NotReached ==
    ASSUME NEW g \in Graphs, NEW t \in Voters, \A u \in Voters : g[u] # t, NEW v \in Voters
    PROVE  t \notin Terminal(g, v)
<1> SUFFICES ASSUME t \in Terminal(g, v) PROVE FALSE
  OBVIOUS
<1>1. PICK w \in Walks(g, v) : t = w[MaxChain] /\ g[v] # NoOne /\ g[w[MaxChain]] = NoOne
  BY DEF Terminal
<1> DEFINE S == Voters \ {t}
<1>2. v \in S /\ \A u \in S : g[u] \in S \cup {NoOne}
  BY <1>1 DEF Graphs
<1>3. w[MaxChain] \in S
  <2>1. S \in SUBSET Voters
    OBVIOUS
  <2> HIDE DEF S
  <2>2. \A i \in 0 .. MaxChain : w[i] \in S
    BY <1>2, <2>1, WalkStays
  <2> QED
    BY <2>2, WalkIs
<1> QED
  BY <1>1, <1>3

\* Nobody's vote came from the one that is erased: the delegations are gone.
LEMMA EraseRowCalm ==
    ASSUME Inv, Calm, NEW w \in Workers, EraseRow(w)
    PROVE  Calm'
<1> DEFINE who == worker[w].who
           next == IF row[who] # NoVote THEN "count" ELSE "forget"
           job == [worker[w] EXCEPT !.then = "forget", !.pc = next]
<1>1. worker[w] \in Worker /\ worker[w].pc = "erase" /\ next \in {"count", "forget"}
      /\ (next = "forget" => row[who] = NoVote)
  BY DEF EraseRow, Inv, TypeOK
<1>2. Do(w, job) /\ Track /\ row' = [row EXCEPT ![who] = NoVote] /\ UNCHANGED <<status, overdue, consent, standing, agg>>
  BY DEF EraseRow
<1> HIDE DEF next
<1>3. /\ job.pc = next /\ job.then = "forget" /\ job.who = who
      /\ job.expect = worker[w].expect /\ job.speaker = worker[w].speaker /\ job.counts = worker[w].counts
  BY <1>1 DEF Worker
<1>4. Tidy(job)
  BY <1>1, <1>3 DEF Calm, Tidy, Recomputing
<1>5. worker'[w] = job
  BY <1>2 DEF Do, Inv, TypeOK
<1>6. TypeOK /\ TypeOK'
  BY EraseRowKeeps DEF Inv
<1> HIDE DEF job
<1>7. ASSUME alone'
      PROVE  /\ \A u \in Workers \ {w} : worker[u].pc = "idle"
             /\ ConsentInv' /\ JobInv(w)'
             /\ job.pc \notin Unsummed => (agg = Tally)'
             /\ status' = "active" /\ job.pc \notin Unspread => Materialized'
  <2>1. /\ ConsentInv /\ JobInv(w) /\ agg = Tally /\ \A u \in Workers \ {w} : worker[u].pc = "idle"
        /\ status = "active" => Materialized
    BY <1>1, <1>2, <1>3, <1>7, ActsAlone DEF Unsummed, Unspread
  <2>2. who \in Voters /\ \A u \in Voters : standing[u] # Nobody => who \notin {u, standing[u].to}
    BY <1>1, <2>1 DEF JobInv, Leaving, who
  <2> HIDE DEF who
  <2>3. row'[who] = NoVote /\ \A u \in Voters \ {who} : row'[u] = row[u]
    BY <1>2, <1>6, <2>2 DEF TypeOK
  <2>4. ConsentInv'
    BY <1>2, <2>1, <2>3 DEF ConsentInv
  <2>5. JobInv(w)'
    BY <1>1, <1>2, <1>3, <1>5, <2>2, <2>3 DEF JobInv, Leaving, Erased, Recomputing
  <2>6. ASSUME job.pc \notin Unsummed PROVE (agg = Tally)'
    <3>1. row' = row
      BY <1>1, <1>2, <1>3, <1>6, <2>6 DEF Unsummed, TypeOK
    <3> QED
      BY <1>2, <2>1, <3>1, TallySame
  <2>7. Due' = Due /\ Due[who] = NoOne
    <3>1. DelegationGraph' = DelegationGraph
      BY <1>2 DEF DelegationGraph
    <3>2. \A u \in Voters : DelegationGraph[u] # who
      BY <1>6, <2>2, GraphIs, NoOneAssumption
    <3>3. \A u \in Voters, t \in Voters : t \in Terminal(DelegationGraph, u) => t # who
      BY <1>6, <2>2, <3>2, GraphIs, NotReached
    <3>4. Due' = Due
      BY <1>2, <1>6, <2>3, <3>1, <3>3, DueSame DEF OwnVote
    <3>5. standing[who] = Nobody
      BY <2>2
    <3> QED
      BY <1>6, <2>2, <3>4, <3>5, DueOf DEF Nobody
  <2>8. ASSUME Materialized PROVE Materialized'
    <3> SUFFICES ASSUME NEW u \in Voters
                 PROVE  row'[u] = RowAfter(u, Due[u])' \/ (overdue' /\ row'[u] = RowAfter(u, NoOne)')
      BY DEF Materialized
    <3>1. CASE u = who
      <4>1. RowAfter(u, Due[u])' = NoVote
        BY <2>3, <2>7, <3>1 DEF RowAfter, OwnVote, NoVote
      <4> QED
        BY <2>3, <3>1, <4>1
    <3>2. CASE u # who
      BY <1>2, <2>3, <2>7, <2>8, <3>2 DEF Materialized, RowAfter, OwnVote
    <3> QED
      BY <3>1, <3>2
  <2> QED
    BY <1>2, <2>1, <2>4, <2>5, <2>6, <2>8
<1> QED
  BY <1>2, <1>4, <1>7, CalmAfter

LEMMA ForgetCalm ==
    ASSUME Inv, Calm, NEW w \in Workers, Forget(w)
    PROVE  Calm'
<1> DEFINE who == worker[w].who
<1>1. /\ worker[w].pc = "forget" /\ Do(w, Idle) /\ Track /\ consent' = [consent EXCEPT ![who] = FALSE]
      /\ UNCHANGED <<status, overdue, standing, row, agg>>
  BY DEF Forget
<1>2. TypeOK /\ TypeOK'
  BY ForgetKeeps DEF Inv
<1>3. ASSUME JobInv(w), ConsentInv, agg = Tally, status = "active" => Materialized
      PROVE  ConsentInv' /\ (agg = Tally)' /\ (status' = "active" => Materialized')
  <2>1. /\ who \in Voters /\ row[who] = NoVote
        /\ \A u \in Voters : standing[u] # Nobody => who \notin {u, standing[u].to}
    BY <1>1, <1>3 DEF JobInv, Leaving, Erased
  <2> HIDE DEF who
  <2>2. ~consent'[who] /\ \A u \in Voters \ {who} : consent'[u] = consent[u]
    BY <1>1, <1>2, <2>1 DEF TypeOK
  <2>3. \A u \in Voters : standing[u].accepted => standing[u].to \in Voters /\ standing[u] # Nobody
    BY <1>2, GraphIs
  <2>4. ConsentInv'
    BY <1>1, <1>3, <2>1, <2>2, <2>3 DEF ConsentInv
  <2>5. ASSUME NEW u \in Voters, DelegationGraph[u] # NoOne PROVE consent'[u] = consent[u]
    <3>1. standing[u] # Nobody
      BY <1>2, <2>5, GraphIs
    <3> QED
      BY <2>1, <2>2, <3>1
  <2>6. Due' = Due
    <3>1. DelegationGraph' = DelegationGraph
      BY <1>1 DEF DelegationGraph
    <3> QED
      BY <1>1, <1>2, <2>5, <3>1, DueSame DEF OwnVote
  <2> QED
    BY <1>1, <1>3, <2>4, <2>6, TallySame, MaterializedSame
<1>4. worker[w].pc \notin Unsummed /\ worker[w].pc \notin Unspread
  BY <1>1 DEF Unsummed, Unspread
<1> QED
  BY <1>1, <1>3, <1>4, IdleCalm

-----------------------------------------------------------------------------
(* One job at a time: the end of the poll *)

\* The clock may move within a job: it takes away from no promise.
LEMMA EndTimePassesCalm == ASSUME Inv, Calm, EndTimePasses PROVE Calm'
<1>1. overdue' /\ UNCHANGED <<status, consent, standing, row, agg, worker, alone>>
  BY DEF EndTimePasses
<1>2. DelegationGraph' = DelegationGraph
  BY <1>1 DEF DelegationGraph
<1>3. TypeOK /\ TypeOK'
  BY EndTimePassesKeeps DEF Inv
<1>4. Due' = Due
  BY <1>1, <1>2, <1>3, DueSame DEF OwnVote
<1>5. Tally' = Tally /\ (AtMostOneBusy => AtMostOneBusy') /\ (ConsentInv => ConsentInv')
  BY <1>1, TallySame DEF AtMostOneBusy, ConsentInv
<1>6. Materialized => Materialized'
  BY <1>1, <1>4 DEF Materialized, RowAfter, OwnVote
<1>7. \A w \in Workers : JobInv(w) => JobInv(w)'
  BY <1>1, <1>4, <1>5 DEF JobInv, Leaving, Erased
<1>8. \A w \in Workers : Tidy(worker[w]) => Tidy(worker[w])'
  BY <1>1 DEF Tidy
<1> QED
  BY <1>1, <1>5, <1>6, <1>7, <1>8 DEF Calm, CalmInv

LEMMA EndCalm == ASSUME Inv, Calm, End PROVE Calm'
<1>1. status' = "ended" /\ Track /\ UNCHANGED <<overdue, consent, standing, row, agg, worker>>
  BY DEF End
<1>2. ASSUME alone'
      PROVE  AllIdle /\ ConsentInv' /\ (agg = Tally)' /\ (status' = "active" => Materialized')
  BY <1>1, <1>2, AllAtRest, DataSame
<1> QED
  BY <1>1, <1>2, CalmRest

LEMMA FreezeReadCalm ==
    ASSUME Inv, Calm, NEW w \in Workers, FreezeRead(w)
    PROVE  Calm'
<1> DEFINE job == [Idle EXCEPT !.pc = "freeze"]
<1>1. job.pc = "freeze" /\ job.expect = Nothing /\ job.speaker = Nothing /\ job.counts = Zero
  BY DEF Idle
<1>2. Tidy(job)
  BY <1>1 DEF Tidy, Recomputing
<1>3. /\ Do(w, job) /\ Track /\ worker[w].pc = "idle" /\ status = "ended"
      /\ UNCHANGED <<status, overdue, consent, standing, row, agg>>
  BY DEF FreezeRead
<1>4. worker'[w] = job
  BY <1>3 DEF Do, Inv, TypeOK
<1> HIDE DEF job
<1>5. ASSUME alone'
      PROVE  /\ \A u \in Workers \ {w} : worker[u].pc = "idle"
             /\ ConsentInv' /\ JobInv(w)'
             /\ job.pc \notin Unsummed => (agg = Tally)'
             /\ status' = "active" /\ job.pc \notin Unspread => Materialized'
  <2>1. ConsentInv /\ agg = Tally /\ \A u \in Workers \ {w} : worker[u].pc = "idle"
    BY <1>1, <1>3, <1>5, ActsAlone DEF Unsummed
  <2>2. JobInv(w)'
    BY <1>1, <1>4 DEF JobInv, Leaving, Erased, Recomputing
  <2> QED
    BY <1>3, <2>1, <2>2, DataSame
<1> QED
  BY <1>2, <1>3, <1>5, CalmAfter

LEMMA FreezeCommitCalm ==
    ASSUME Inv, Calm, NEW w \in Workers, FreezeCommit(w)
    PROVE  Calm'
<1> DEFINE job == [Idle EXCEPT !.pc = "drop"]
<1>1. job.pc = "drop" /\ job.expect = Nothing /\ job.speaker = Nothing /\ job.counts = Zero
  BY DEF Idle
<1>2. Tidy(job)
  BY <1>1 DEF Tidy, Recomputing
<1>3. /\ Do(w, job) /\ Track /\ worker[w].pc = "freeze"
      /\ row' = [v \in Voters |-> NoVote] /\ UNCHANGED <<status, overdue, consent, standing, agg>>
  BY DEF FreezeCommit
<1>4. status = "ended"
  BY <1>3 DEF Inv, PurgeInv
<1>5. worker'[w] = job
  BY <1>3 DEF Do, Inv, TypeOK
<1> HIDE DEF job
<1>6. ASSUME alone'
      PROVE  /\ \A u \in Workers \ {w} : worker[u].pc = "idle"
             /\ ConsentInv' /\ JobInv(w)'
             /\ job.pc \notin Unsummed => (agg = Tally)'
             /\ status' = "active" /\ job.pc \notin Unspread => Materialized'
  <2>1. ConsentInv /\ \A u \in Workers \ {w} : worker[u].pc = "idle"
    BY <1>1, <1>3, <1>6, ActsAlone
  <2>2. JobInv(w)'
    BY <1>1, <1>3, <1>5 DEF JobInv, Leaving, Erased, Recomputing
  <2>3. ConsentInv'
    BY <1>3, <2>1 DEF ConsentInv
  <2> QED
    BY <1>1, <1>3, <1>4, <2>1, <2>2, <2>3 DEF Unsummed
<1> QED
  BY <1>2, <1>3, <1>6, CalmAfter

LEMMA DropKeysCalm ==
    ASSUME Inv, Calm, NEW w \in Workers, DropKeys(w)
    PROVE  Calm'
<1>1. /\ worker[w].pc = "drop" /\ Do(w, Idle) /\ Track /\ agg' = Zero
      /\ UNCHANGED <<status, overdue, consent, standing, row>>
  BY DEF DropKeys
<1>2. ASSUME JobInv(w) PROVE Tally = Zero
  <2>1. \A v \in Voters : row[v].option = NoOne
    BY <1>1, <1>2 DEF JobInv, NoVote
  <2>2. \A o \in Options : {v \in Voters : row[v].option = o} = {}
    BY <2>1, NoOneAssumption
  <2> QED
    BY <2>2, FS_EmptySet DEF Tally, Zero
<1>3. worker[w].pc \notin Unspread
  BY <1>1 DEF Unspread
<1> QED
  BY <1>1, <1>2, <1>3, DataSame, IdleCalm

LEMMA CrashCalm ==
    ASSUME Inv, Calm, NEW w \in Workers, Crash(w)
    PROVE  Calm'
<1>1. Tidy(Idle)
  BY DEF Idle, Tidy, Recomputing
<1> QED
  BY <1>1, CalmAfter DEF Crash

-----------------------------------------------------------------------------
(* One job at a time: the invariant and what follows from it *)

LEMMA InitCalm == ASSUME Init PROVE Calm
<1>1. /\ \A w \in Workers : worker[w] = Idle
      /\ \A v \in Voters : row[v] = NoVote /\ consent[v]
      /\ agg = Zero
  BY DEF Init
<1>2. \A w \in Workers : Tidy(worker[w]) /\ worker[w].pc = "idle"
  BY <1>1 DEF Idle, Tidy, Recomputing
<1>3. AtMostOneBusy /\ \A w \in Workers : JobInv(w)
  BY <1>2, NoJob DEF AtMostOneBusy
<1>4. TypeOK
  BY InitInv DEF Inv
<1>5. ConsentInv
  BY <1>1, <1>4, GraphIs DEF ConsentInv
<1>6. agg = Tally
  <2>1. \A o \in Options : {v \in Voters : row[v].option = o} = {}
    BY <1>1, NoOneAssumption DEF NoVote
  <2> QED
    BY <1>1, <2>1, FS_EmptySet DEF Tally, Zero
<1>7. Materialized
  <2> SUFFICES ASSUME NEW v \in Voters PROVE RowAfter(v, Due[v]) = NoVote
    BY <1>1 DEF Materialized
  <2>1. \A t \in Voters : OwnVote(t) = NoOne
    BY <1>1 DEF OwnVote, NoVote
  <2>2. {t \in Terminal(DelegationGraph, v) : OwnVote(t) # NoOne} = {}
    BY <2>1, TerminalIsVoter
  <2>3. Due[v] = NoOne
    BY <2>2 DEF Due, Spoken
  <2> QED
    BY <2>1, <2>3 DEF RowAfter
<1> QED
  BY <1>2, <1>3, <1>5, <1>6, <1>7 DEF Calm, CalmInv

LEMMA NextCalm == ASSUME Inv, Calm, [Next]_vars PROVE Calm'
<1>1. ASSUME NEW w \in Workers, Cast(w) PROVE Calm'
  BY <1>1, CastReadCalm, CastSameCalm, CastCommitCalm, DeltaCalm DEF Cast
<1>2. ASSUME NEW w \in Workers, Materialize(w) PROVE Calm'
  BY <1>2, ComputeReadCalm, ApplyCalm, CountReadCalm, CountStoreCalm DEF Materialize
<1>3. ASSUME NEW w \in Workers, Delegate(w) PROVE Calm'
  BY <1>3, AcceptCalm, RevokeCalm DEF Delegate
<1>4. ASSUME NEW w \in Workers, Erase(w) PROVE Calm'
  BY <1>4, EraseRowCalm, ForgetCalm, WithdrawCalm DEF Erase
<1>5. ASSUME NEW w \in Workers, Purge(w) PROVE Calm'
  BY <1>5, FreezeReadCalm, FreezeCommitCalm, DropKeysCalm DEF Purge
<1>6. CASE Ask
  BY <1>6, GrantCalm, CreateCalm DEF Ask
<1>7. CASE UNCHANGED vars
  <2>1. UNCHANGED <<row, standing, consent, overdue>> /\ UNCHANGED <<status, agg, worker, alone>>
    BY <1>7 DEF vars
  <2>2. Due' = Due /\ Tally' = Tally /\ (ConsentInv => ConsentInv') /\ (Materialized => Materialized')
    BY <2>1, DataSame
  <2>3. \A w \in Workers : JobInv(w) => JobInv(w)'
    BY <2>1, <2>2 DEF JobInv, Leaving, Erased
  <2>4. AtMostOneBusy => AtMostOneBusy'
    BY <2>1 DEF AtMostOneBusy
  <2> QED
    BY <2>1, <2>2, <2>3, <2>4 DEF Calm, CalmInv, Tidy
<1> QED
  BY <1>1, <1>2, <1>3, <1>4, <1>5, <1>6, <1>7, CrashCalm, EndTimePassesCalm, EndCalm,
     DeclineCalm DEF Next

\* While jobs run one at a time each leaves the rows, the aggregates, the
\* delegations and the consents in order for the next.
THEOREM CivicCalmHolds == Spec => []Calm
<1>1. Init => Calm
  BY InitCalm
<1>2. Inv /\ Calm /\ [Next]_vars => Calm'
  BY NextCalm
<1> QED
  BY <1>1, <1>2, CivicInvHolds, PTL DEF Spec

\* The aggregates in Redis are the sums of the rows after any sequence of votes,
\* delegations, erasures and the purge: the deltas of _apply_redis_delta, the
\* recounts and the dropped keys cancel out, for any number of profiles.
THEOREM AggregatesAreExact == Spec => []AggregatesExact
<1>1. Inv /\ Calm => AggregatesExact
  <2> SUFFICES ASSUME Calm, alone, AllIdle, NEW o \in Options
               PROVE  agg[o] = Cardinality({v \in Voters : row[v].option = o})
    BY DEF AggregatesExact
  <2>1. agg = Tally
    BY DEF Calm, CalmInv, AllIdle, Unsummed
  <2> QED
    BY <2>1 DEF Tally
<1> QED
  BY <1>1, CivicInvHolds, CivicCalmHolds, PTL

\* Withdrawing consent leaves no vote of the profile, its own or a delegate's,
\* and no delegation in force on either side, and no later job restores one.
THEOREM WithdrawalErases == Spec => []WithdrawnIsErased
<1>1. Calm => WithdrawnIsErased
  <2> SUFFICES ASSUME Calm, alone, NEW v \in Voters, ~consent[v]
               PROVE  row[v] = NoVote /\ \A u \in Voters : standing[u].accepted => v \notin {u, standing[u].to}
    BY DEF WithdrawnIsErased
  <2>1. ConsentInv
    BY DEF Calm, CalmInv
  <2>2. \A u \in Voters : standing[u].accepted => standing[u] # Nobody
    BY DEF Nobody
  <2> QED
    BY <2>1, <2>2 DEF ConsentInv
<1> QED
  BY <1>1, CivicCalmHolds, PTL

\* Who has not voted has the vote of the end of its chain of delegations as soon
\* as that one has voted, and none otherwise, after any sequence of votes,
\* acceptances, revocations and withdrawals: recompute_poll_materialization
\* leaves neither a row that has lost its delegation nor a chain unserved. When
\* the poll is overdue rows may have gone, and none has another vote.
THEOREM RowsAreOfTheChains == Spec => []RowsFollowDelegations
<1>1. Inv /\ Calm => RowsFollowDelegations
  <2> SUFFICES ASSUME Inv, Calm, alone, AllIdle, status = "active", NEW v \in Voters,
                      OwnVote(v) = NoOne, Cardinality(Chain(v)) - 1 <= MaxChain
               PROVE  LET votes == {OwnVote(u) : u \in {u \in Chain(v) : ~standing[u].accepted}} \ {NoOne}
                      IN  /\ row[v] # NoVote => row[v].via /\ row[v].option \in votes
                          /\ ~overdue /\ votes # {} => row[v] # NoVote
    BY DEF RowsFollowDelegations
  <2> DEFINE g == DelegationGraph
             votes == {OwnVote(u) : u \in {u \in Chain(v) : ~standing[u].accepted}} \ {NoOne}
             voted == {t \in Terminal(g, v) : OwnVote(t) # NoOne}
  <2>1. TypeOK /\ g \in Graphs /\ Chain(v) = OnChain(g, v) /\ OnChain(g, v) \in SUBSET Voters
    BY ChainIsOnChain, GraphIs, ChainIs DEF Inv
  <2>2. ConsentInv /\ Materialized
    BY DEF Calm, CalmInv, AllIdle, Unspread
  <2>3. \/ row[v] = IF Due[v] # NoOne THEN [option |-> Due[v], via |-> TRUE] ELSE NoVote
        \/ overdue /\ row[v] = NoVote
    BY <2>2 DEF Materialized, RowAfter
  <2>4. /\ Due[v] = IF Spoken[v] = NoOne THEN NoOne ELSE OwnVote(Spoken[v])
        /\ Spoken[v] = IF consent[v] /\ voted # {} THEN CHOOSE t \in voted : TRUE ELSE NoOne
    BY DEF Due, Spoken
  <2>5. NoOne \notin votes
    OBVIOUS
  <2>6. CASE standing[v].accepted
    <3>1. g[v] # NoOne /\ consent[v]
      BY <2>1, <2>2, <2>6, GraphIs, NoOneAssumption DEF ConsentInv
    <3>2. Terminal(g, v) = {u \in OnChain(g, v) : g[u] = NoOne}
      BY <2>1, <3>1, TerminalIs
    <3>3. \A u \in OnChain(g, v) : g[u] = NoOne <=> ~standing[u].accepted
      BY <2>1, GraphIs, NoOneAssumption
    <3>4. Terminal(g, v) = {u \in Chain(v) : ~standing[u].accepted}
      BY <2>1, <3>2, <3>3
    <3>5. /\ \A t \in voted : OwnVote(t) \in votes /\ t \in Voters
          /\ votes # {} => voted # {}
      BY <2>1, <3>2, <3>4
    <3> HIDE DEF votes, voted
    <3>6. CASE votes = {}
      <4>1. voted = {}
        BY <3>5, <3>6
      <4>2. row[v] = NoVote
        BY <2>3, <2>4, <4>1
      <4> QED
        BY <3>6, <4>2 DEF votes
    <3>7. CASE votes # {}
      <4>1. Spoken[v] \in voted
        BY <2>4, <3>1, <3>5, <3>7
      <4>2. Spoken[v] # NoOne
        BY <3>5, <4>1, NoOneAssumption
      <4>3. Due[v] \in votes
        BY <2>4, <3>5, <4>1, <4>2
      <4>4. Due[v] # NoOne
        BY <2>5, <4>3
      <4>5. row[v] = [option |-> Due[v], via |-> TRUE] \/ (overdue /\ row[v] = NoVote)
        BY <2>3, <4>4
      <4>6. [option |-> Due[v], via |-> TRUE] # NoVote
        BY DEF NoVote
      <4>7. /\ row[v] # NoVote => row[v].via /\ row[v].option \in votes
            /\ ~overdue /\ votes # {} => row[v] # NoVote
        BY <4>3, <4>5, <4>6
      <4> QED
        BY <4>7 DEF votes
    <3> QED
      BY <3>6, <3>7 DEF votes
  <2>7. CASE ~standing[v].accepted
    <3>1. Due[v] = NoOne
      BY <2>1, <2>7, DueOf
    <3>2. Chain(v) \subseteq {v}
      <4>1. {v} \in SUBSET Voters /\ v \in {v} /\ \A u \in {v} : g[u] \in {v} \cup {NoOne}
        BY <2>1, <2>7, GraphIs
      <4> HIDE DEF g, votes, voted
      <4>2. OnChain(g, v) \subseteq {v}
        BY <2>1, <4>1, ChainIs
      <4> QED
        BY <2>1, <4>2
    <3>3. votes = {}
      BY <3>2
    <3> QED
      BY <2>3, <3>1, <3>3
  <2> QED
    BY <2>6, <2>7
<1> QED
  BY <1>1, CivicInvHolds, CivicCalmHolds, PTL
=============================================================================
