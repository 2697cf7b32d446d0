SPECIFICATION Spec
CONSTANTS
    v1 = v1
    v2 = v2
    h1 = h1
    h2 = h2
    d1 = d1
    d2 = d2
    NoViewer = NoViewer
    NoDevice = NoDevice
    Viewers = {v1, v2}
    Threads = {h1, h2}
    Devices = {d1, d2}
    Rails = {"spark"}
    Reward = 1
    Budgets = {1, 2}
    MaxClaims = 3
    MaxMishaps = 1
SYMMETRY Symmetry
CHECK_DEADLOCK FALSE
INVARIANT SentMeansPaid
