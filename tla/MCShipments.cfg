SPECIFICATION Spec
CONSTANTS
    Origin = Origin
    Destination = Destination
    NoHub = NoHub
    o1 = o1
    o2 = o2
    h1 = h1
    h2 = h2
    Hubs = {Origin, Destination}
    Offers = {o1, o2}
    Handlers = {h1, h2}
    MaxEvents = 5
INVARIANTS
    TypeOK
    TimelineTellsStatus
    CarriedBySomebody
PROPERTY
    OverdueIsCleared
CHECK_DEADLOCK FALSE
