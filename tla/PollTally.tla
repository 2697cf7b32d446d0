------------------------------ MODULE PollTally ------------------------------
(***************************************************************************)
(* The pure half of VotingService: how chains of per-poll delegations are  *)
(* checked when one is created and followed when the votes are counted.    *)
(* A delegation graph g maps each profile to its delegate, NoOne when it   *)
(* has no active delegation: one row per delegator (unique_together).      *)
(***************************************************************************)
EXTENDS Integers, FiniteSets

CONSTANTS
    Voters,     \* profiles in PollEligibleVoter
    Options,    \* PollOption rows
    NoOne,      \* no delegate, no ballot
    MaxChain    \* MAX_DELEGATION_CHAIN_LENGTH

ASSUME VotersAssumption == IsFiniteSet(Voters)
ASSUME NoOneAssumption == NoOne \notin Voters /\ NoOne \notin Options
ASSUME MaxChainAssumption == MaxChain \in Nat \ {0}

\* The loop that follows delegations from v, at most MaxChain of them: the
\* profile it is at after each round, the last one once it has ended.
Walks(g, v) ==
    {w \in [0 .. MaxChain -> Voters] :
        /\ w[0] = v
        /\ \A n \in 1 .. MaxChain :
              w[n] = IF g[w[n - 1]] = NoOne THEN w[n - 1] ELSE g[w[n - 1]]}

\* (faulty variant: one delegation too few is followed)
ChainEndsEarly(g, v) == \E w \in Walks(g, v) : g[w[MaxChain - 1]] = NoOne

\* check_can_delegate: walking on from v in the graph with the new delegation,
\* the walk meets neither a profile twice nor more than MaxChain delegations.
\* (A walk that runs into a circle never gets to a profile without a delegate.)
ChainEnds(g, v) == \E w \in Walks(g, v) : g[w[MaxChain]] = NoOne

\* resolve_delegations stops after MaxChain hops, wherever it is then, and
\* drops a delegator whose walk meets a profile it has already left.
Resolved(g, v) ==
    {w[MaxChain] : w \in
        {w \in Walks(g, v) :
            /\ g[v] # NoOne
            /\ \A i, j \in 0 .. MaxChain : i < j /\ w[i] = w[j] => g[w[i]] = NoOne}}

\* (faulty variant: a delegate's own delegation is not followed)
CountedForDirectDelegate(g, b, o) ==
    {v \in Voters : b[v] = o \/ (g[v] # NoOne /\ b[g[v]] = o)}

\* get_effective_votes: who counts for option o, itself or through a delegate.
CountedFor(g, b, o) ==
    {v \in Voters : b[v] = o \/ \E d \in Resolved(g, v) : b[d] = o}

\* The profiles on v's chain in g: the least set that holds v and the delegates
\* of its members.
OnChain(g, v) ==
    {w \in Voters : \A S \in SUBSET Voters :
        (v \in S /\ \A u \in S : g[u] \in S \cup {NoOne}) => w \in S}

\* No group of profiles hands its votes round within the group.
Acyclic(g) ==
    \A group \in (SUBSET Voters) \ {{}} : \E v \in group : g[v] \notin group
=============================================================================
