SPECIFICATION Spec
CONSTANTS
    p1 = p1
    p2 = p2
    i1 = i1
    h1 = h1
    h2 = h2
    n1 = n1
    m1 = m1
    Nobody = Nobody
    Profiles = {p1, p2}
    Invoices = {}
    Buyer <- BuyerOf
    Granted <- DayGranted
    InvoiceDays = 1
    HostDays = 1
    RenewBelow = 0
    MaxDevices = 1
    Macs = {m1}
    RowIds = {1, 2}
    Handlers = {h1, h2}
    Nodes = {n1}
    Owner <- OwnerOf
    Terminator = n1
    MaxTime = 2
PROPERTY
    SpeedFollowsPass
CHECK_DEADLOCK FALSE
