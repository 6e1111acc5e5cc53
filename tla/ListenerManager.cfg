SPECIFICATION FairSpec
CONSTANTS
    Entry = {l1, l2}
    NumConns = 2
    Nil = Nil
INVARIANTS
    TypeOK
    CameOutRight
PROPERTY StopEnds
CHECK_DEADLOCK FALSE
