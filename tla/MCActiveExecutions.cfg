SPECIFICATION FairActiveSpec
CONSTANTS
    r1 = r1
    r2 = r2
    r3 = r3
    wA = wA
    Requests <- MCRequests
    Workflows = {wA}
    NoWorkflow = NoWorkflow
    Priorities = {0}
    Configs <- MCConfigs
    MaxUpdates = 0
    ExecutionIds = {1, 2}
    ExecutionOf <- MCExecutionOf
    Nobody = Nobody
    NoJob = NoJob
INVARIANTS
    CountedAndPermitted
    StopAllReaches
PROPERTIES
    ImplementsAdmission
    AddReturns
CHECK_DEADLOCK FALSE
