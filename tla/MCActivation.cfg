SPECIFICATION FairSpec
CONSTANTS
    a = a
    b = b
    hooked = hooked
    plain = plain
    timedA = timedA
    timedB = timedB
    path = path
    nodeA = nodeA
    nodeB = nodeB
    r1 = r1
    r2 = r2
    None = None
    Workflows = {a, b}
    Contents = {hooked, plain, timedA, timedB}
    PathOf <- PathOfContents
    NodeOf <- NodeOfContents
    Scenes <- FourScenes
    Paths = {path}
    Nodes = {nodeA, nodeB}
    Requests = {r1, r2}
    ListCap = 1
    PageSize = 1
INVARIANTS
    ReconcilesRight
    RoutedRight
PROPERTIES
    SchedulesSettle
    IndexSettles
CHECK_DEADLOCK FALSE
