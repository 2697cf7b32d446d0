------------------------------ MODULE PollCount ------------------------------
(***************************************************************************)
(* Every delegation graph and every ballot box that one request after the  *)
(* other can produce, counted by the code's loops and by a definition that *)
(* walks nothing.                                                          *)
(***************************************************************************)
EXTENDS PollTally

VARIABLES graph, box

CountInit ==
    /\ graph = [v \in Voters |-> NoOne]
    /\ box = [v \in Voters |-> NoOne]

\* check_can_vote
PutVote(v, o) ==
    /\ box[v] = NoOne /\ graph[v] = NoOne
    /\ box' = [box EXCEPT ![v] = o]
    /\ UNCHANGED graph

\* check_can_delegate; a second delegation replaces the first
AddDelegation(v, d) ==
    /\ v # d /\ box[v] = NoOne
    /\ ChainEnds([graph EXCEPT ![v] = d], v)
    /\ graph' = [graph EXCEPT ![v] = d]
    /\ UNCHANGED box

EndDelegation(v) ==
    /\ graph[v] # NoOne
    /\ graph' = [graph EXCEPT ![v] = NoOne]
    /\ UNCHANGED box

CountNext ==
    \E v \in Voters :
        \/ \E o \in Options : PutVote(v, o)
        \/ \E d \in Voters : AddDelegation(v, d)
        \/ EndDelegation(v)

CountSpec == CountInit /\ [][CountNext]_<<graph, box>>

-----------------------------------------------------------------------------
ChainLength(g, v) == Cardinality(OnChain(g, v)) - 1

\* calculate_results counts a profile for an option when it chose the option
\* itself, or when its chain of at most MAX_DELEGATION_CHAIN_LENGTH delegations
\* leads to a profile that chose it, and for no other option.
TallyFollowsChains ==
    \A o \in Options :
        CountedFor(graph, box, o) =
            {v \in Voters : /\ ChainLength(graph, v) <= MaxChain
                            /\ \E w \in OnChain(graph, v) : box[w] = o}
            \cup {v \in Voters : box[v] = o}

\* check_can_delegate accepts a delegation exactly when it closes no circle and
\* leaves the delegator a chain of at most MAX_DELEGATION_CHAIN_LENGTH.
DelegationCheckIsExact ==
    \A v, d \in Voters :
        LET g == [graph EXCEPT ![v] = d]
        IN  v # d => (ChainEnds(g, v) <=> Acyclic(g) /\ ChainLength(g, v) <= MaxChain)
=============================================================================
