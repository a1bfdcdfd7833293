------------------------------ MODULE Registry ------------------------------
(***************************************************************************)
(* The route registry of src/registry/registry.go: the table from route    *)
(* keys to endpoint pools, fed by Register/Unregister calls that run       *)
(* concurrently with each other and with the pruning goroutine.            *)
(*                                                                         *)
(* Locking.  Every step below is one critical section of the code: the    *)
(* RWMutex makes each section atomic with respect to the writers, and the *)
(* points where RouteRegistry.register releases its read lock (to call    *)
(* insertRouteKey, and after it) are the boundaries between the steps     *)
(* RegisterMiss, RegisterInsert and RegisterPut of one registrar.          *)
(*                                                                         *)
(* Data.  A route key is a model value (the normalised uri; the trie and  *)
(* wildcard matching are abstracted to an exact-key table).  A pool is a  *)
(* reference: it can outlive its place in the table, which is what the    *)
(* registrar that holds it between two critical sections sees.  Time is a *)
(* discrete clock.                                                         *)
(***************************************************************************)
EXTENDS Integers, FiniteSets, Functions

CONSTANTS
    Keys,                      \* normalised route keys (uri.RouteKey())
    Endpoints,                 \* endpoint identities (canonical address)
    PoolIds,                   \* references to EndpointPool objects
    NoPool,                    \* nil *EndpointPool
    Registrars,                \* goroutines that call Register concurrently
    EndpointSegment,           \* [Endpoints -> segment]; "" is the shared one
    RoutingTableShardingMode,  \* "all", "segments" or "shared-and-segments"
    IsolationSegments,         \* the router's isolation segments
    DropletStaleThreshold,     \* c.DropletStaleThreshold, in ticks
    RequestedStaleThreshold,   \* [Endpoints -> ticks]: stale_threshold_in_seconds of the frame
    EmptyPoolTimeout,          \* c.EmptyPoolTimeout, in ticks
    EmptyPoolResponseCode503,  \* c.EmptyPoolResponseCode503
    ApplicationId,             \* [Endpoints -> app guid]
    PrivateInstanceIndex,      \* [Endpoints -> instance index]
    ProcessId,                 \* [Endpoints -> process guid]
    MaxTime                    \* bound on the clock

ASSUME
    /\ NoPool \notin PoolIds
    /\ EndpointSegment \in [Endpoints -> STRING]
    /\ RoutingTableShardingMode \in {"all", "segments", "shared-and-segments"}
    /\ DropletStaleThreshold \in Nat \ {0}
    /\ RequestedStaleThreshold \in [Endpoints -> Nat]
    /\ EmptyPoolTimeout \in Nat
    /\ EmptyPoolResponseCode503 \in BOOLEAN
    /\ MaxTime \in Nat
    /\ ApplicationId \in [Endpoints -> STRING]
    /\ PrivateInstanceIndex \in [Endpoints -> STRING]
    /\ ProcessId \in [Endpoints -> STRING]

CONNECTED == "CONNECTED"
DISCONNECTED == "DISCONNECTED"
NoTime == -1                   \* time.Time{}: the zero time

Time == 0..MaxTime

VARIABLES
    now,               \* the clock
    byURI,             \* [Keys -> PoolIds \cup {NoPool}]: the trie
    members,           \* [PoolIds -> SUBSET Endpoints]: each pool's endpoints
    updated,           \* [PoolIds -> [Endpoints -> Time]]: endpoint `updated`
    lastUpdated,       \* [PoolIds -> Time]: pool LastUpdated()
    pruningStatus,     \* r.pruningStatus
    natsDown,          \* what r.suspendPruning() returns
    timeOfLastUpdate,  \* r.timeOfLastUpdate
    reg,               \* [Registrars -> register call in progress]
    heard,             \* history: [PoolIds -> [Endpoints -> Time]] time of the last Put
    registered,        \* history: pairs <<k, e>> whose Register returned and
                       \* that no Unregister or prune has removed since
    lastPrune          \* history: what the last prune tick saw, and the
                       \* endpoints it removed with how long each was silent

vars == <<now, byURI, members, updated, lastUpdated, pruningStatus, natsDown,
          timeOfLastUpdate, reg, heard, registered, lastPrune>>

RegState == [pc : {"idle", "insert", "put"}, key : Keys, ep : Endpoints,
             t : Time, pool : PoolIds \cup {NoPool}]

IdleReg == [pc |-> "idle", key |-> CHOOSE k \in Keys : TRUE,
            ep |-> CHOOSE e \in Endpoints : TRUE, t |-> 0, pool |-> NoPool]

TypeOK ==
    /\ now \in Time
    /\ byURI \in [Keys -> PoolIds \cup {NoPool}]
    /\ members \in [PoolIds -> SUBSET Endpoints]
    /\ updated \in [PoolIds -> [Endpoints -> Time]]
    /\ lastUpdated \in [PoolIds -> Time]
    /\ pruningStatus \in {CONNECTED, DISCONNECTED}
    /\ natsDown \in BOOLEAN
    /\ timeOfLastUpdate \in Time \cup {NoTime}
    /\ reg \in [Registrars -> RegState]
    /\ \A r \in Registrars : reg[r].pc = "put" => reg[r].pool \in PoolIds
    /\ heard \in [PoolIds -> [Endpoints -> Time]]
    /\ registered \subseteq Keys \X Endpoints
    /\ lastPrune \in [sawDown : BOOLEAN, afterDown : BOOLEAN,
                      removed : SUBSET (Endpoints \X Time)]

-----------------------------------------------------------------------------
(* Helpers                                                                 *)

\* Mutation: the shared-and-segments test written with || instead of &&.
EndpointInRouterShardOr(e) ==
    \/ RoutingTableShardingMode = "all"
    \/ RoutingTableShardingMode = "shared-and-segments" \/ EndpointSegment[e] = ""
    \/ EndpointSegment[e] \in IsolationSegments

\* endpointInRouterShard
EndpointInRouterShard(e) ==
    \/ RoutingTableShardingMode = "all"
    \/ RoutingTableShardingMode = "shared-and-segments" /\ EndpointSegment[e] = ""
    \/ EndpointSegment[e] \in IsolationSegments

\* Mutation: the clamp without the "unset" case, so a frame without a
\* stale_threshold_in_seconds keeps a threshold of 0.
EffectiveStaleThresholdUnsetKept(e) ==
    IF RequestedStaleThreshold[e] > DropletStaleThreshold
    THEN DropletStaleThreshold
    ELSE RequestedStaleThreshold[e]

\* The clamp in register: a threshold that is unset or above the default
\* becomes the default.
EffectiveStaleThreshold(e) ==
    IF RequestedStaleThreshold[e] > DropletStaleThreshold
       \/ RequestedStaleThreshold[e] = 0
    THEN DropletStaleThreshold
    ELSE RequestedStaleThreshold[e]

\* Pools that are reachable: indexed by the trie, or held by a registrar
\* between two of its critical sections.  Any other pool is garbage and its
\* reference may be reused for a new pool.
PoolsInUse ==
    (Range(byURI) \ {NoPool}) \cup {reg[r].pool : r \in Registrars}

\* Mutation: the empty-pool policy forgotten, an empty pool always deleted.
MayDeleteEmptyPoolAlways(p) == TRUE

\* The empty-pool policy shared by unregister and pruneStaleDroplets: with
\* EmptyPoolResponseCode503 and a timeout, an empty pool stays in the table
\* until the timeout has passed since its last update.
MayDeleteEmptyPool(p) ==
    IF EmptyPoolResponseCode503 /\ EmptyPoolTimeout > 0
    THEN now - lastUpdated[p] > EmptyPoolTimeout
    ELSE TRUE

\* EndpointPool.Put: add or refresh the endpoint, refresh the pool.
PutEndpoint(p, e) ==
    /\ members' = [members EXCEPT ![p] = @ \cup {e}]
    /\ updated' = [updated EXCEPT ![p][e] = now]
    /\ heard' = [heard EXCEPT ![p][e] = now]
    /\ lastUpdated' = [lastUpdated EXCEPT ![p] = now]

-----------------------------------------------------------------------------
(* Register                                                                *)

\* register, first critical section, when the route key already has a pool:
\* Find, clamp, Put and SetTimeOfLastUpdate all under the read lock.
RegisterHit(r, k, e) ==
    /\ reg[r].pc = "idle"
    /\ EndpointInRouterShard(e)
    /\ byURI[k] # NoPool
    /\ PutEndpoint(byURI[k], e)
    /\ timeOfLastUpdate' = now
    /\ registered' = registered \cup {<<k, e>>}
    /\ UNCHANGED <<now, byURI, pruningStatus, natsDown, reg, lastPrune>>

\* register, first critical section, when Find returns nil: the time t is
\* taken, and the read lock is released to call insertRouteKey.
RegisterMiss(r, k, e) ==
    /\ reg[r].pc = "idle"
    /\ EndpointInRouterShard(e)
    /\ byURI[k] = NoPool
    /\ reg' = [reg EXCEPT ![r] = [pc |-> "insert", key |-> k, ep |-> e,
                                  t |-> now, pool |-> NoPool]]
    /\ UNCHANGED <<now, byURI, members, updated, lastUpdated, pruningStatus,
                   natsDown, timeOfLastUpdate, heard, registered, lastPrune>>

\* Mutation: insertRouteKey without the double check under the write lock;
\* it always creates and indexes a fresh pool.
RegisterInsertNoRecheck(r) ==
    LET k == reg[r].key IN
    /\ reg[r].pc = "insert"
    /\ \E p \in PoolIds \ PoolsInUse :
          /\ byURI' = [byURI EXCEPT ![k] = p]
          /\ members' = [members EXCEPT ![p] = {}]
          /\ updated' = [updated EXCEPT ![p] = [e \in Endpoints |-> 0]]
          /\ heard' = [heard EXCEPT ![p] = [e \in Endpoints |-> 0]]
          /\ lastUpdated' = [lastUpdated EXCEPT ![p] = now]
          /\ reg' = [reg EXCEPT ![r].pc = "put", ![r].pool = p]
    /\ UNCHANGED <<now, pruningStatus, natsDown, timeOfLastUpdate, registered,
                   lastPrune>>

\* Mutation: the new pool assigned to a shadowed variable (`pool :=` inside
\* the if), so insertRouteKey indexes the pool but returns nil.
RegisterInsertShadowed(r) ==
    LET k == reg[r].key IN
    /\ reg[r].pc = "insert"
    /\ \/ /\ byURI[k] # NoPool
          /\ reg' = [reg EXCEPT ![r].pc = "put", ![r].pool = byURI[k]]
          /\ UNCHANGED <<byURI, members, updated, lastUpdated, heard>>
       \/ /\ byURI[k] = NoPool
          /\ \E p \in PoolIds \ PoolsInUse :
                /\ byURI' = [byURI EXCEPT ![k] = p]
                /\ members' = [members EXCEPT ![p] = {}]
                /\ updated' = [updated EXCEPT ![p] = [e \in Endpoints |-> 0]]
                /\ heard' = [heard EXCEPT ![p] = [e \in Endpoints |-> 0]]
                /\ lastUpdated' = [lastUpdated EXCEPT ![p] = now]
                /\ reg' = [reg EXCEPT ![r].pc = "put", ![r].pool = NoPool]
    /\ UNCHANGED <<now, pruningStatus, natsDown, timeOfLastUpdate, registered,
                   lastPrune>>

\* insertRouteKey, under the write lock: look the key up again and create
\* the pool only if it is still missing.  NewPool starts empty, updated now.
RegisterInsert(r) ==
    LET k == reg[r].key IN
    /\ reg[r].pc = "insert"
    /\ \/ /\ byURI[k] # NoPool
          /\ reg' = [reg EXCEPT ![r].pc = "put", ![r].pool = byURI[k]]
          /\ UNCHANGED <<byURI, members, updated, lastUpdated, heard>>
       \/ /\ byURI[k] = NoPool
          /\ \E p \in PoolIds \ PoolsInUse :
                /\ byURI' = [byURI EXCEPT ![k] = p]
                /\ members' = [members EXCEPT ![p] = {}]
                /\ updated' = [updated EXCEPT ![p] = [e \in Endpoints |-> 0]]
                /\ heard' = [heard EXCEPT ![p] = [e \in Endpoints |-> 0]]
                /\ lastUpdated' = [lastUpdated EXCEPT ![p] = now]
                /\ reg' = [reg EXCEPT ![r].pc = "put", ![r].pool = p]
    /\ UNCHANGED <<now, pruningStatus, natsDown, timeOfLastUpdate, registered,
                   lastPrune>>

\* register, second read-locked section: Put into the pool insertRouteKey
\* returned, whether or not the table still holds it, and record the time
\* taken before the lock was released.
RegisterPut(r) ==
    /\ reg[r].pc = "put"
    /\ PutEndpoint(reg[r].pool, reg[r].ep)
    /\ timeOfLastUpdate' = reg[r].t
    /\ registered' = registered \cup {<<reg[r].key, reg[r].ep>>}
    /\ reg' = [reg EXCEPT ![r] = IdleReg]
    /\ UNCHANGED <<now, byURI, pruningStatus, natsDown, lastPrune>>

-----------------------------------------------------------------------------
(* Unregister, under the write lock.  A key without a pool is a no-op.     *)

Unregister(k, e) ==
    LET p == byURI[k]
        left == members[p] \ {e}
    IN
    /\ EndpointInRouterShard(e)
    /\ p # NoPool
    /\ members' = [members EXCEPT ![p] = left]
    /\ updated' = [updated EXCEPT ![p][e] = 0]
    /\ heard' = [heard EXCEPT ![p][e] = 0]
    /\ byURI' = IF left = {} /\ MayDeleteEmptyPool(p)
                THEN [byURI EXCEPT ![k] = NoPool] ELSE byURI
    /\ registered' = registered \ {<<k, e>>}
    /\ UNCHANGED <<now, lastUpdated, pruningStatus, natsDown,
                   timeOfLastUpdate, reg, lastPrune>>

-----------------------------------------------------------------------------
(* pruneStaleDroplets, one tick of the pruning goroutine, under the write  *)
(* lock.                                                                   *)

\* Mutation: a suspended tick that does not record the disconnection.
PruneSuspendedNoStatus ==
    /\ natsDown
    /\ lastPrune' = [sawDown |-> TRUE, afterDown |-> lastPrune.sawDown,
                     removed |-> {}]
    /\ UNCHANGED <<now, byURI, members, updated, lastUpdated, pruningStatus,
                   natsDown, timeOfLastUpdate, reg, heard, registered>>

\* Pruning suspended: NATS is unavailable.
PruneSuspended ==
    /\ natsDown
    /\ pruningStatus' = DISCONNECTED
    /\ lastPrune' = [sawDown |-> TRUE, afterDown |-> lastPrune.sawDown,
                     removed |-> {}]
    /\ UNCHANGED <<now, byURI, members, updated, lastUpdated, natsDown,
                   timeOfLastUpdate, reg, heard, registered>>

\* The pools the trie indexes (EachNodeWithPool).
IndexedPools == Range(byURI) \ {NoPool}

\* Mutation: freshenRoutes run on every tick, not only on the first one
\* after a disconnection.
FreshenedAlways ==
    [p \in PoolIds |-> [e \in Endpoints |->
        IF p \in IndexedPools /\ e \in members[p] THEN now ELSE updated[p][e]]]

\* The endpoint times a tick prunes against: after a tick that found NATS
\* unavailable, freshenRoutes first marks every endpoint of every indexed
\* pool updated now.
Freshened ==
    IF pruningStatus = DISCONNECTED
    THEN [p \in PoolIds |-> [e \in Endpoints |->
            IF p \in IndexedPools /\ e \in members[p] THEN now ELSE updated[p][e]]]
    ELSE updated

\* Pruning runs: every indexed pool drops the endpoints whose (freshened)
\* updated time is before now - StaleThreshold, and a pool left empty is
\* snipped under the empty-pool policy.
PruneStale ==
    LET fresh == Freshened
        stale(p, e) == fresh[p][e] < now - EffectiveStaleThreshold(e)
        kept == [p \in PoolIds |-> IF p \in IndexedPools
                                   THEN {e \in members[p] : ~stale(p, e)}
                                   ELSE members[p]]
    IN
    /\ ~natsDown
    /\ pruningStatus' = CONNECTED
    /\ members' = kept
    /\ updated' = [p \in PoolIds |-> [e \in Endpoints |->
                     IF e \in kept[p] THEN fresh[p][e] ELSE 0]]
    /\ heard' = [p \in PoolIds |-> [e \in Endpoints |->
                   IF e \in kept[p] THEN heard[p][e] ELSE 0]]
    /\ byURI' = [k \in Keys |->
                   IF byURI[k] # NoPool /\ kept[byURI[k]] = {}
                      /\ MayDeleteEmptyPool(byURI[k])
                   THEN NoPool ELSE byURI[k]]
    /\ registered' = {ke \in registered :
                        byURI[ke[1]] = NoPool \/ ke[2] \in kept[byURI[ke[1]]]}
    /\ lastPrune' = [sawDown |-> FALSE, afterDown |-> lastPrune.sawDown,
                     removed |-> UNION {{<<e, now - heard[p][e]>> :
                                           e \in members[p] \ kept[p]} : p \in IndexedPools}]
    /\ UNCHANGED <<now, lastUpdated, natsDown, timeOfLastUpdate, reg>>

-----------------------------------------------------------------------------
(* Lookups: read-only, under the read lock.  A lookup result is a pool     *)
(* reference for Lookup; for the instance lookups, which build a fresh     *)
(* pool, it is the set of endpoints of that pool, {} standing for nil (a   *)
(* fresh pool is never empty).                                             *)

\* lookup: the pool of the route key.  MatchUri's longest-prefix search and
\* the NextWildcard loop are abstracted: a key is looked up exactly.
Lookup(k) == byURI[k]

\* LookupWithAppInstance: Each visits the pool and, for every endpoint
\* whose app guid and index match, replaces surgicalPool by a fresh pool
\* holding that endpoint alone: the last match wins.  The pool's iteration
\* order is not modelled, so the set of possible results is returned.
LookupWithAppInstance(k, appID, appIndex) ==
    LET p == Lookup(k)
        matches == IF p = NoPool THEN {}
                   ELSE {e \in members[p] : /\ ApplicationId[e] = appID
                                            /\ PrivateInstanceIndex[e] = appIndex}
    IN IF matches = {} THEN {{}} ELSE {{e} : e \in matches}

\* LookupWithProcessInstance: one fresh pool collects every endpoint of the
\* process whose index matches, any index when processIndex is "".
LookupWithProcessInstance(k, processID, processIndex) ==
    LET p == Lookup(k) IN
    IF p = NoPool THEN {}
    ELSE {e \in members[p] :
            /\ ProcessId[e] = processID
            /\ PrivateInstanceIndex[e] = processIndex \/ processIndex = ""}

-----------------------------------------------------------------------------
(* Environment: the clock and the NATS connection.                         *)

Tick ==
    /\ now < MaxTime
    /\ now' = now + 1
    /\ UNCHANGED <<byURI, members, updated, lastUpdated, pruningStatus,
                   natsDown, timeOfLastUpdate, reg, heard, registered, lastPrune>>

\* For checking liveness the clock must not stop.  Once it reaches MaxTime
\* every recorded time moves one tick into the past instead (a time at 0
\* stays there, "long ago").  Only differences now - t up to the largest
\* threshold or timeout are ever compared, so while MaxTime exceeds those
\* every comparison the code makes keeps its outcome.
Earlier(t) == IF t > 0 THEN t - 1 ELSE t

TickShifted ==
    /\ now = MaxTime
    /\ updated' = [p \in PoolIds |-> [e \in Endpoints |-> Earlier(updated[p][e])]]
    /\ heard' = [p \in PoolIds |-> [e \in Endpoints |-> Earlier(heard[p][e])]]
    /\ lastUpdated' = [p \in PoolIds |-> Earlier(lastUpdated[p])]
    /\ reg' = [r \in Registrars |-> [reg[r] EXCEPT !.t = Earlier(@)]]
    /\ timeOfLastUpdate' = Earlier(timeOfLastUpdate)
    /\ UNCHANGED <<now, byURI, members, pruningStatus, natsDown, registered,
                   lastPrune>>

NatsConnectionChange ==
    /\ natsDown' = ~natsDown
    /\ UNCHANGED <<now, byURI, members, updated, lastUpdated, pruningStatus,
                   timeOfLastUpdate, reg, heard, registered, lastPrune>>

-----------------------------------------------------------------------------

Init ==
    /\ now = 0
    /\ byURI = [k \in Keys |-> NoPool]
    /\ members = [p \in PoolIds |-> {}]
    /\ updated = [p \in PoolIds |-> [e \in Endpoints |-> 0]]
    /\ lastUpdated = [p \in PoolIds |-> 0]
    /\ pruningStatus = CONNECTED
    /\ natsDown = FALSE
    /\ timeOfLastUpdate = NoTime
    /\ reg = [r \in Registrars |-> IdleReg]
    /\ heard = [p \in PoolIds |-> [e \in Endpoints |-> 0]]
    /\ registered = {}
    /\ lastPrune = [sawDown |-> FALSE, afterDown |-> FALSE, removed |-> {}]

RegistrarNext ==
    \/ \E r \in Registrars, k \in Keys, e \in Endpoints :
          RegisterHit(r, k, e) \/ RegisterMiss(r, k, e)
    \/ \E r \in Registrars : RegisterInsert(r) \/ RegisterPut(r)

Next ==
    \/ RegistrarNext
    \/ \E k \in Keys, e \in Endpoints : Unregister(k, e)
    \/ PruneSuspended
    \/ PruneStale
    \/ Tick
    \/ NatsConnectionChange

Spec == Init /\ [][Next]_vars

\* Only registrars (and the clock) run: concurrent Register calls alone.
RegistrarsOnlySpec == Init /\ [][RegistrarNext \/ Tick]_vars

-----------------------------------------------------------------------------
(* Refinement: the table, seen through Lookup, and the Register calls in   *)
(* progress are those of RegistryAbstract.                                 *)

AbsRoutes == [k \in Keys |-> IF byURI[k] = NoPool THEN {} ELSE members[byURI[k]]]

AbsPending == [r \in Registrars |->
                 IF reg[r].pc = "idle" THEN <<>> ELSE <<reg[r].key, reg[r].ep>>]

Abstract == INSTANCE RegistryAbstract WITH routes <- AbsRoutes, pending <- AbsPending

-----------------------------------------------------------------------------
(* Properties                                                              *)

\* A Register call that has returned is visible in the table: its endpoint
\* is in the pool the route key maps to, until an Unregister of it or a
\* prune removes it.  This is what register's double-checked insert and the
\* re-acquired read lock are for; it is what a Lookup after Register relies on.
RegistrationVisible ==
    \A ke \in registered :
        /\ byURI[ke[1]] # NoPool
        /\ ke[2] \in members[byURI[ke[1]]]

\* The stale threshold the registry promises: the frame's threshold, or the
\* registry default when the frame's is unset or larger.
PromisedStaleThreshold(e) ==
    IF RequestedStaleThreshold[e] \in 1..DropletStaleThreshold
    THEN RequestedStaleThreshold[e] ELSE DropletStaleThreshold

\* pruneStaleDroplets only evicts a backend that has not been registered
\* (heartbeated) for longer than its promised stale threshold.
PrunedWereExpired ==
    \A es \in lastPrune.removed : es[2] > PromisedStaleThreshold(es[1])

\* The first prune tick after a tick that found NATS unavailable evicts
\* nothing: freshenRoutes gives every route one grace period, however long
\* the router went without heartbeats while disconnected.
PruneGraceAfterReconnect ==
    lastPrune.afterDown /\ ~lastPrune.sawDown => lastPrune.removed = {}

\* Under EmptyPoolResponseCode503 with an EmptyPoolTimeout, unregister and
\* pruneStaleDroplets remove a route from the table only when its pool is
\* empty and EmptyPoolTimeout has passed since the pool was last updated;
\* before that a lookup finds the empty pool (and answers 503, not 404).
EmptyPoolRetained ==
    [][\A k \in Keys :
         byURI[k] # NoPool /\ byURI'[k] = NoPool =>
            /\ members'[byURI[k]] = {}
            /\ now - lastUpdated[byURI[k]] > EmptyPoolTimeout]_vars

\* The time of last update, reported as MSSinceLastUpdate, never moves
\* backwards.
TimeOfLastUpdateMonotonic ==
    [][timeOfLastUpdate' >= timeOfLastUpdate]_timeOfLastUpdate

\* An endpoint whose heartbeats stop (no Put for longer than its stale
\* threshold) while it is in the table is eventually removed from it by
\* pruneStaleDroplets, unless NATS goes down (pruning is then suspended)
\* or a heartbeat arrives.  freshenRoutes after a reconnect only delays it
\* by one threshold.
Silent(k, e) ==
    /\ byURI[k] # NoPool
    /\ e \in members[byURI[k]]
    /\ heard[byURI[k]][e] < now - EffectiveStaleThreshold(e)

StaleEventuallyPruned ==
    \A k \in Keys, e \in Endpoints : Silent(k, e) ~> (~Silent(k, e) \/ natsDown)

\* Concurrent Register calls are linearizable and respect the router's
\* shard: the table changes only as RegistryAbstract allows, each Register
\* taking effect at one instant between its call and its return, and
\* Unregister and pruning only removing endpoints.
RefinesAbstract == Abstract!ASpec

=============================================================================
