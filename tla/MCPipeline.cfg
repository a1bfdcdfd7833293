\* Requests through request-id, lookup and proxy while the routing table changes.
CONSTANTS
    e1 = e1
    e2 = e2
    c1 = c1
    c2 = c2
    Endpoints = {e1, e2}
    Clients = {c1, c2}
    RouteKeys <- MCRouteKeys
    Requests <- MCRequests
    AppRoute <- MCAppRoute
    ApplicationId <- MCApplicationId
    PrivateInstanceIndex <- MCPrivateInstanceIndex
    ProcessId <- MCProcessId
    ClientRequests <- MCClientRequests
    MaxConnsPerBackend = 1
    MaxTries = 2
    EmptyPoolResponseCode503 = TRUE
    TraceInfoMayFail = TRUE
SPECIFICATION PSpec
INVARIANT LookupAgreesWithReference
INVARIANT ForwardedRequestsCarryId
INVARIANT InstanceRoutingHonoured
PROPERTY EveryRequestAnswered
PROPERTY NoBodyReplay
