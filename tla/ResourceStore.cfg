CONSTANTS
    Uploads = {u1, u2}
    Reads = {r1}
    NoUpload = NoUpload
    MaxCrashes = 2
SPECIFICATION Spec
CHECK_DEADLOCK FALSE
INVARIANTS
    ReadyRowHasFile
    ReadsFailOnlyByDeletion
    LeftoversExplained
PROPERTIES
    KeepsPromises
