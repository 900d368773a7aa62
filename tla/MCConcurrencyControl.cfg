SPECIFICATION FairSpec
CONSTANTS
    r1 = r1
    r2 = r2
    r3 = r3
    wA = wA
    wB = wB
    Requests <- MCRequests
    Workflows <- MCWorkflows
    NoWorkflow = NoWorkflow
    Priorities = {0, 1}
    Configs <- MCConfigs
    MaxUpdates = 1
INVARIANTS
    TypeOK
    TokensBacked
    TokensExact
    LimitsRespected
    NoStrandedQueue
PROPERTIES
    NoOvertaking
    QueueDrains
CHECK_DEADLOCK FALSE
