\* Two concurrent registrars: the time of last update written after a lock release.
CONSTANTS
    Keys = {k1}
    e1 = e1
    e2 = e2
    r1 = r1
    r2 = r2
    p1 = p1
    p2 = p2
    p3 = p3
    NoPool = NoPool
    Endpoints <- MCEndpoints
    Registrars <- MCRegistrars
    PoolIds <- MCPoolIds
    EndpointSegment <- MCEndpointSegment
    IsolationSegments <- MCIsolationSegments
    RequestedStaleThreshold <- MCRequestedStaleThreshold
    ApplicationId <- MCApplicationId
    PrivateInstanceIndex <- MCPrivateInstanceIndex
    ProcessId <- MCProcessId
    RoutingTableShardingMode = "shared-and-segments"
    DropletStaleThreshold = 2
    EmptyPoolTimeout = 0
    EmptyPoolResponseCode503 = FALSE
    MaxTime = 3
SYMMETRY MCSymmetry
SPECIFICATION RegistrarsOnlySpec
PROPERTY TimeOfLastUpdateMonotonic
