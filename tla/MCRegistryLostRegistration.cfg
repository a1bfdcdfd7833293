\* Register racing Unregister and pruning: a Register that created the route key can be lost.
CONSTANTS
    Keys = {k1}
    e1 = e1
    e2 = e2
    r1 = r1
    r2 = r2
    p1 = p1
    p2 = p2
    p3 = p3
    NoPool = NoPool
    Endpoints <- MCEndpoints
    Registrars = {r1}
    PoolIds = {p1, p2}
    EndpointSegment <- MCEndpointSegment
    IsolationSegments <- MCIsolationSegments
    RequestedStaleThreshold <- MCRequestedStaleThreshold
    ApplicationId <- MCApplicationId
    PrivateInstanceIndex <- MCPrivateInstanceIndex
    ProcessId <- MCProcessId
    RoutingTableShardingMode = "shared-and-segments"
    DropletStaleThreshold = 2
    EmptyPoolTimeout = 0
    EmptyPoolResponseCode503 = FALSE
    MaxTime = 3
SYMMETRY MCPoolSymmetry
SPECIFICATION Spec
INVARIANT RegistrationVisible
