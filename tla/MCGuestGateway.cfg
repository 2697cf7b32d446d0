SPECIFICATION Spec
CONSTANTS
    Nodes = {1, 2, 3}
    OldFirmware = {3}
    VpnDown = {1}
    Fleet = 0
    MaxBeats = 2
    MaxChanges = 1
INVARIANTS
    TypeOK
    SettledInTwoRounds
CHECK_DEADLOCK FALSE
