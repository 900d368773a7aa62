CONSTANTS
    Ids = {e1, e2}
    Requested = {e1}
    MaxJobs <- TwoAndOne
    Outcomes = {"success", "error"}
    e1 = e1
    e2 = e2
    NoId = NoId
    MaxMishaps = 0
SPECIFICATION Spec
CHECK_DEADLOCK FALSE
PROPERTIES
    NoRerun
