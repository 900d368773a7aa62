SPECIFICATION FairSpec
CONSTANTS
    i1 = i1
    i2 = i2
    w1 = w1
    w2 = w2
    w3 = w3
    j1 = j1
    Instances = {i1, i2}
    Workers = {w1, w2, w3}
    Home <- TwoAndOne
    Jobs = {j1}
    Suspending = {j1}
    NoOne = NoOne
    MaxEntries = 7
    MaxFaults = 2
INVARIANTS
    NoJobLost
    NotRunTwice
PROPERTIES
    ImplementsService
    JobsSettle
    StreamDrains
CHECK_DEADLOCK FALSE
