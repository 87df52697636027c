CONSTANTS
    handout = handout
    slides = slides
    Resources = {handout, slides}
    NoResource = NoResource
    ChunksOf <- MCChunksOf
    Peers = {p1}
    MaxStarts = 2
    MaxConnects = 1
SPECIFICATION Spec
CHECK_DEADLOCK FALSE
INVARIANTS
    AnnouncedIsStored
    OneScheduler
    DepartedForgotten
    ProgressIsStored
    CountersAgree
