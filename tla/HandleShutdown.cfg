SPECIFICATION FairSpec
CONSTANTS
    Conn = {c1, c2}
    Nil = Nil
    MaxCalls = 3
INVARIANTS
    TypeOK
    HandleQuiet
    AbortSticks
PROPERTY ShutdownEnds
CHECK_DEADLOCK FALSE
