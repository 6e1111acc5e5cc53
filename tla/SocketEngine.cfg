SPECIFICATION FairSpec
CONSTANTS
    Sock = {s1, s2}
    Thread = {t1}
    NoOne = NoOne
    Granularity = 2
    Lists = 2
    Second = 2
    Timeouts = {1, 6}
    MaxLag = 2
INVARIANTS
    TypeOK
    OneFuture
    StaleOnlyByKill
PROPERTIES
    TruthfulError
    WaitEnds
CHECK_DEADLOCK FALSE
