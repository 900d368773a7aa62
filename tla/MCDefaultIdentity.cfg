SPECIFICATION Spec
CONSTANTS
    i1 = i1
    i2 = i2
    idA = idA
    idB = idB
    Instances = {i1, i2}
    Identity <- DefaultIdentity
    NoOwner = NoOwner
    TTL = 3
    RenewInterval = 0
    MaxFaults = 0
INVARIANTS
    AtMostOneLeader
CHECK_DEADLOCK FALSE
