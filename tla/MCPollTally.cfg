SPECIFICATION CountSpec
CONSTANTS
    v1 = v1
    v2 = v2
    v3 = v3
    v4 = v4
    o1 = o1
    o2 = o2
    NoOne = NoOne
    Voters = {v1, v2, v3, v4}
    Options = {o1, o2}
    MaxChain = 2
INVARIANTS
    TallyFollowsChains
    DelegationCheckIsExact
CHECK_DEADLOCK FALSE
