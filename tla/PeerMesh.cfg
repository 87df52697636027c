CONSTANTS
    Ids = {1, 2, 3}
    Students = {1, 3}
    MaxPeers = 1
    MaxDials = 2
    MaxConns = 3
    MaxFailures = 1
SPECIFICATION FairSpec
CHECK_DEADLOCK FALSE
INVARIANTS
    NoGlare
    NoGhostSlots
PROPERTIES
    PairsUp
