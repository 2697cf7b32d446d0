SPECIFICATION Spec
CONSTANTS
    p1 = p1
    p2 = p2
    i1 = i1
    m1 = m1
    m2 = m2
    h1 = h1
    h2 = h2
    n1 = n1
    n2 = n2
    Nobody = Nobody
    Profiles = {p1}
    Invoices = {i1}
    Buyer <- BuyerOf
    Granted <- NoneGranted
    InvoiceDays = 2
    HostDays = 2
    RenewBelow = 1
    MaxDevices = 1
    Macs = {m1, m2}
    RowIds = {1, 2}
    Handlers = {h1, h2}
    Nodes = {n1, n2}
    Owner <- OwnerOf
    Terminator = n1
    MaxTime = 1
INVARIANTS
    TypeOK
    DeviceLimitHolds
PROPERTY
    KeepsLedger
SYMMETRY Symmetry
CHECK_DEADLOCK FALSE
