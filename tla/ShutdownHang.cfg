SPECIFICATION FairSpec
CONSTANTS
    c1 = c1
    d1 = d1
    f1 = f1
    r1 = r1
    r2 = r2
    s1 = s1
    t1 = t1
    u1 = u1
    w1 = w1
    w2 = w2
    Event = {r1, r2, w1}
    Kind <- MCKind
    PartialOK = {}
    Timed = {r1, r2, w1}
    Worker = {k1}
    App = app
    NoEvent = NoEvent
    NoThread = NoThread
    WaitForSubmit = FALSE
    Calls = {"shutdown"}
PROPERTIES
    TransactionDelivered
