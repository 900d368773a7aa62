SPECIFICATION FairSpec
CONSTANTS
    i1 = i1
    i2 = i2
    idA = idA
    idB = idB
    Instances = {i1, i2}
    Identity <- OwnIdentities
    NoOwner = NoOwner
    TTL = 3
    RenewInterval = 2
    MaxFaults = 2
INVARIANTS
    AtMostOneLeader
PROPERTIES
    LeaderElected
CHECK_DEADLOCK FALSE
