\* Liveness: a backend heartbeating and stopping, its frames lost, reordered or malformed, while the registry prunes, NATS goes up and down and the clock never stops.
CONSTANTS
    k1 = k1
    e1 = e1
    e1z = e1z
    e2 = e2
    e2z = e2z
    r1 = r1
    p1 = p1
    p2 = p2
    NoPool = NoPool
    Keys = {k1}
    Endpoints <- MCEndpointsOne
    Announced <- MCAnnouncedOne
    AppUris <- MCAppUris
    PortZeroed <- MCPortZeroed
    FrameErrors = {"none", "syntax", "badPort"}
    Registrars = {r1}
    Subscriber = r1
    PoolIds = {p1, p2}
    MaxQueue = 1
    EndpointSegment <- MCEndpointSegment
    IsolationSegments = {}
    RequestedStaleThreshold <- MCRequestedStaleThreshold
    ApplicationId <- MCApplicationId
    PrivateInstanceIndex <- MCPrivateInstanceIndex
    ProcessId <- MCProcessId
    RoutingTableShardingMode = "shared-and-segments"
    DropletStaleThreshold = 1
    EmptyPoolTimeout = 0
    EmptyPoolResponseCode503 = FALSE
    MaxTime = 2
SPECIFICATION CLiveSpec
VIEW MCLiveView
PROPERTY StoppedBackendUnrouted
PROPERTY StaleEventuallyPruned
