SPECIFICATION FairSpec
CONSTANTS
    r1 = r1
    r2 = r2
    Keys <- TwoChunks
    Data = {d1}
    None = None
    Unknown = Unknown
    NoOp = NoOp
    Calls = {c1, c2}
INVARIANTS
    NoCallForgotten
PROPERTIES
    ReadsAreFresh
    EveryCallSettles
CHECK_DEADLOCK FALSE
