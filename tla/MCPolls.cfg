SPECIFICATION FairSpec
CONSTANTS
    v1 = v1
    v2 = v2
    v3 = v3
    o1 = o1
    NoOne = NoOne
    r1 = r1
    r2 = r2
    c1 = c1
    Voters = {v1, v2, v3}
    Options = {o1}
    MaxChain = 2
    Requests = {r1, r2}
    Closers = {c1}
    MaxLog = 4
INVARIANTS
    TypeOK
    OneVoice
    NoCircle
    LockedEntriesNeverFork
    RootCoversBallots
PROPERTY
    BallotsFixedAfterEnd
    OverduePollEnds
CHECK_DEADLOCK FALSE
