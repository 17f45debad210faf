SPECIFICATION FairSpec

CONSTANTS
    c1 = c1
    Channels = {c1}
    NoChannel = NoChannel
    MaxMessage = 3
    WithMedia <- SecondHasMedia
    FillLimit = 2
    OrphanBatch = 2
    Faults = {"crash", "flood", "error"}

INVARIANTS
    TypeOK
    HolesAreExplained
    OrphansAreFound
PROPERTIES
    HeardIsQueued

CHECK_DEADLOCK FALSE
