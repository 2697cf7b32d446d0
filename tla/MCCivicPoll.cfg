SPECIFICATION Spec
CONSTANTS
    v1 = v1
    v2 = v2
    v3 = v3
    o1 = o1
    o2 = o2
    NoOne = NoOne
    w1 = w1
    w2 = w2
    Voters = {v1, v2, v3}
    Options = {o1, o2}
    MaxChain = 2
    Workers = {w1, w2}
    MaxRequests = 3
INVARIANTS
    TypeOK
    NoVoiceWithoutAgreement
    PurgedForGood
    RowsFollowDelegations
    AggregatesExact
    WithdrawnIsErased
PROPERTY
    OwnVotesWin
SYMMETRY Symmetry
CHECK_DEADLOCK FALSE
