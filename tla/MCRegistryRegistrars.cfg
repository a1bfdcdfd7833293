\* Only concurrent Register calls: two registrars racing to create the same route key, e2 outside the router's shard.
CONSTANTS
    Keys = {k1}
    e1 = e1
    e2 = e2
    r1 = r1
    r2 = r2
    p1 = p1
    p2 = p2
    p3 = p3
    NoPool = NoPool
    Endpoints <- MCEndpoints
    Registrars <- MCRegistrars
    PoolIds <- MCPoolIds
    EndpointSegment <- MCEndpointSegment
    IsolationSegments = {}
    RequestedStaleThreshold <- MCRequestedStaleThreshold
    ApplicationId <- MCApplicationId
    PrivateInstanceIndex <- MCPrivateInstanceIndex
    ProcessId <- MCProcessId
    RoutingTableShardingMode = "shared-and-segments"
    DropletStaleThreshold = 2
    EmptyPoolTimeout = 0
    EmptyPoolResponseCode503 = FALSE
    MaxTime = 3
SYMMETRY MCSymmetry
SPECIFICATION RegistrarsOnlySpec
INVARIANT RegistrationVisible
PROPERTY RefinesAbstract
