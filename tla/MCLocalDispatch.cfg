SPECIFICATION FairSpec
CONSTANTS
    c1 = c1
    c2 = c2
    kA = kA
    kB = kB
    w1 = w1
    w2 = w2
    Calls = {c1, c2}
    SyncCalls = {c1}
    Keys = {kA, kB}
    KeyChoices <- OneOrTwoKeys
    Workers = {w1, w2}
    QueueSize = 1
    Outcomes = {"ok", "failed", "refused"}
    NoCall = NoCall
INVARIANTS
    EachJobOnce
    SendSafe
    OwnResult
    SyncAnswered
PROPERTIES
    ImplementsService
    SyncReturns
    JobsServed
    PoolStops
CHECK_DEADLOCK FALSE
