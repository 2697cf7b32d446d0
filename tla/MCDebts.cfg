SPECIFICATION Spec
CONSTANTS
    h1 = h1
    h2 = h2
    Handlers = {h1, h2}
    Amount = 2
    MaxRequests = 3
INVARIANTS
    TypeOK
    StatusMatchesRemaining
    NothingForgiven
    GraphMatchesDebt
SYMMETRY Symmetry
CHECK_DEADLOCK FALSE
