SPECIFICATION FairSpec
CONSTANTS
    Worker = {k1, k2}
    Threshold = 1
    MaxLoad = 2
    MaxBacklog = 2
    MaxAccepts = 2
INVARIANTS
    TypeOK
    OnePlace
    AcceptSafe
PROPERTIES
    SuspensionKept
    KillEnds
    PauseEnds
