SPECIFICATION Spec
CONSTANTS
    N = 2
    Paths = {1, 2}
    PathOf <- OwnFile
    Limit = 2
    CheckLimit = 1
    MaxFaults = 1
INVARIANTS
    TypeOK
    BatchHoldsItsEvents
PROPERTIES
    EventuallyAnchored
    NothingLeftBehind
