SPECIFICATION Spec
CONSTANTS
    s = s
    a = a
    b = b
    j = j
    None = None
    Nodes = {s, a, b, j}
    Outputs = {0, 1}
    Inputs = {0, 1}
    Workflows <- FewWorkflows
    Requests <- FewRequests
INVARIANT SiblingsKept
CHECK_DEADLOCK FALSE
