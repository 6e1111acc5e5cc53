SPECIFICATION Spec
CONSTANTS
    c1 = c1
    d1 = d1
    f1 = f1
    r1 = r1
    r2 = r2
    s1 = s1
    t1 = t1
    u1 = u1
    w1 = w1
    w2 = w2
    Event = {r1, f1, w1, d1}
    Kind <- MCKind
    PartialOK = {}
    Timed = {r1, f1, w1, d1}
    Worker = {k1, k2}
    App = app
    NoEvent = NoEvent
    NoThread = NoThread
    WaitForSubmit = FALSE
    Calls = {"kill", "write", "nomem"}
SYMMETRY Symmetry
INVARIANTS
    OrderPreserved
    SuccessIsTruthful
    NoStall
PROPERTIES
    KillEmptiesEngine
