# TLA+ models of gorouter's route registry, registration consumer, request path, router drain and test doubles

This directory holds the TLA+ project kept next to `src/`. It models the parts of gorouter whose correctness depends on concurrency:

- the route registry (`src/registry/registry.go`), with an abstract specification it refines and its route-matching algorithm;
- the registration consumer that feeds the registry from NATS (`src/router/router.go`), composed with the registry;
- the router's connection tracking and graceful drain (`src/router/router.go`).
- the request path: the request-id handler (`src/handlers/request_id.go`), the lookup handler and the proxy's endpoint selection and retry, composed with the routing table;
- the counterfeiter test doubles (`src/registry/fakes`, `src/metrics/fakes`) and their locking.

The files are:

- `PROJECT.json`: the machine-readable index of components, runs, mutants, the source map, findings and hazards.
- The modules and their `.cfg` files, described below.

## The system

gorouter is an HTTP reverse proxy. Backends announce themselves over NATS; `router.go` subscribes to `router.register` and `router.unregister`.

- **Registration consumer** (`Router.SubscribeRegister`, `SubscribeUnregister`, `subscribeRegistry`): decodes each frame and calls `Register` or `Unregister` on the registry once per URI.
- **Route registry** (`RouteRegistry`):
  - State:
    - a trie from route key (host plus context path) to an endpoint pool;
    - the pruning status (CONNECTED/DISCONNECTED);
    - the time of the last update.
  - Operations:
    - `Register`, `Unregister`;
    - the three lookups (`Lookup`, `LookupWithAppInstance`, `LookupWithProcessInstance`);
    - the pruning goroutine `StartPruningCycle` → `pruneStaleDroplets`;
    - `SuspendPruning`, which the NATS connection handlers call.
  - Locking: a `sync.RWMutex`. `register` takes the read lock, drops it to run `insertRouteKey` under the write lock, then takes the read lock again to `Put`.
- **Endpoint pool and trie** (`route/`, `registry/container/`): not in `src/`. They are modelled from `spec.md`, as far as the registry uses them.
- **Router** (`Router.Run`, `Drain`, `Stop`, `close`): runs an `http.Server`.
  - The server's `ConnState` callback keeps `activeConns` (a `uint32`) and `idleConns` under `connLock`.
  - `Drain` closes the listener, closes idle connections, and waits until the callback sees `activeConns == 0` or a timeout fires.
- **Middleware and proxy**: each request runs a negroni chain on its own goroutine: `setVcapRequestIdHeader` (`handlers/request_id.go`, in `src/`), the lookup handler (not in `src/`; spec §4.3 and `handlers/lookup_test.go`), then the proxy engine (not in `src/`; spec §4.4), which picks an endpoint with `NextEndpoint`, dials it and retries on dial failures.
- **Test doubles** (`registry/fakes/fake_registry.go`, `metrics/fakes/fake_monitorreporter.go`): counterfeiter-generated fakes that tests hand to the code under test. Each faked method records its calls under its own `sync.RWMutex` and also in one `invocations` map under `invocationsMutex`.
- **Start-up, greeting, active-apps publishing**: `NewRouter`, `HandleGreetings`, `SendStartMessage`, `flushApps`. These only build and publish messages.

How the parts interact:

- NATS callbacks (many goroutines) → registry writes.
- The pruning ticker → registry writes and deletions.
- Proxy requests → registry reads.
- The http.Server's connection goroutines → the ConnState callback.
- The signal handler → Drain/Stop.


## Modules

### `Registry.tla` (with `MCRegistry.tla`)

**Abstractions.**

- The trie becomes `byURI : Keys -> PoolIds ∪ {NoPool}`. Route keys are model values: longest-prefix matching and wildcards are modelled separately, in `RouteMatch.tla`.
- A pool is a *reference*. `members[p]`, `updated[p][e]` and `lastUpdated[p]` are indexed by a pool id, and an id may outlive its trie entry. This is exactly what the code's pointers allow, and it is what makes the lost-registration race visible.
- Pool ids not referenced by the trie or by an in-flight `register` are recycled. This is the garbage collector.
- Time is an integer clock `now ∈ 0..MaxTime` advanced by `Tick`. For liveness, `TickShifted` lets time go on at `now = MaxTime` by moving every stored time one unit into the past (flooring at 0). Only differences `now - t` are compared with thresholds, and `MaxTime` exceeds every threshold (after `register`'s clamp) and timeout, so no comparison changes its outcome except for times older than every threshold, which stay older.

**State and actions.** Each concurrent `Register` call is a registrar process `reg[r]`. It has the fields pc, key, endpoint, the time `t` read at entry, and the pool it found or created. Its steps are the three critical sections of `register`:

| Action | Code |
|---|---|
| `RegisterHit` | key found under RLock: Put, SetTimeOfLastUpdate (116-140 with the pool found) |
| `RegisterMiss` | key not found: RUnlock (116-126) |
| `RegisterInsert` | `insertRouteKey` under the write lock, with its double check (142-165) |
| `RegisterPut` | RLock again, clamp the stale threshold, `Put`, `SetTimeOfLastUpdate(t)` (128-139) |
| `Unregister` | `unregister` including the empty-pool policy (167-209) |
| `PruneSuspended` / `PruneStale` | `pruneStaleDroplets`: the DISCONNECTED branch freshens every route; otherwise stale endpoints are removed and empty pools snipped under the same policy (378-438) |
| `NatsConnectionChange` | `SuspendPruning` as driven by the NATS disconnect and reconnect handlers (426-430) |

`Lookup`, `LookupWithAppInstance` and `LookupWithProcessInstance` are operators, because reads do not change state. `LookupWithAppInstance` keeps the code's "last match wins" behaviour: it returns the set of possible results, because map iteration order is unspecified.

History variables:

- `registered`: endpoints whose `Register` returned and which were not since unregistered or pruned.
- `heard`: the time of the last heartbeat per endpoint.
- `lastPrune`: what the last prune saw and removed.


### `RegistryAbstract.tla`: what the registry promises

A table `routes : Keys -> SUBSET Endpoints` and, per registrar, the `Register` call it has invoked and not yet returned from (`pending`). `Register` is an operation with an invocation and a response that takes effect at one instant in between (`Invoke`, `Respond`, or `RegisterAtomic`); it adds the endpoint only if the sharding rule `Admitted` accepts it. `Remove` is `Unregister`; `Prune` only removes endpoints.

`Registry` is shown to implement it: `Abstract == INSTANCE RegistryAbstract WITH routes <- AbsRoutes, pending <- AbsPending`, where `AbsRoutes[k]` is the membership of the pool the trie holds for `k` (empty without one) and `AbsPending` is the key and endpoint of each registrar in the middle of `register`. `RefinesAbstract == Abstract!ASpec` is checked as a property: `RegisterHit` and `RegisterPut` are the linearization point (`Respond`), `RegisterMiss` and `RegisterInsert` are invocation or stuttering steps.

### `Consumer.tla` (with `MCConsumer.tla`): NATS frames into the registry

`Consumer` EXTENDS `Registry` and adds the two subscriptions of `router.go` (`SubscribeRegister`, `SubscribeUnregister`, `subscribeRegistry`).

**The bus.** NATS delivers each subscription's messages in order, on one goroutine per subscription, so:

- `regQ` and `unregQ` are two FIFO queues, bounded by `MaxQueue`, and not ordered with respect to each other;
- every `Register` call comes from the one registrar `Subscriber`; its next frame is taken only when the previous frame's loop, including the whole `Register` call, is done;
- `LoseFrame` drops any frame in flight (at-most-once delivery), and a frame published while NATS is down (`natsDown`) never arrives.

**The callback.** `ReceiveRegister` / `ReceiveUnregister` take a frame and json-decode it (`Decode`), as `json.Unmarshal` does:

- well formed: the frame's uris and endpoint;
- not JSON at all (`"syntax"`): nothing is decoded, `Uris` stays empty, and the callback does nothing;
- a field of the wrong type (`"badPort"`): the field is skipped and the rest decoded, so the uris are kept and `makeEndpoint` builds the same host with port 0 (`PortZeroed`).

The error is only logged in both cases. `RegisterUri(k)` / `UnregisterUri(k)` are one iteration of the per-uri loop: an endpoint outside the shard returns at once; otherwise the first critical section of `register` (or the whole of `unregister`) runs.

**The backends.** Each announced backend publishes register frames (`Heartbeat`) while it runs, and one unregister frame when it stops (`StopBackend`). A frame may be well formed or malformed, as `FrameErrors` allows.

### `RouteMatch.tla`: lookup's match algorithm

`RouteRegistry.lookup` (`registry.go:220-232`) asks the trie for the longest-prefix match of the request's route key and, while there is none, retries with `Uri.NextWildcard`. The trie and `Uri` are not in `src/`; they are modelled from `spec.md`:

- a host is a sequence of labels, and a route's host may begin with the label `"*"`;
- `MatchUri(u)` returns the route under `u`'s exact host whose context path is the longest prefix of `u`'s path;
- `NextWildcard(u)` drops a leading `"*"`, then the leftmost label, and puts `"*"` in front; once a single label is left it reports exhaustion. So `a.b.c` → `*.b.c` → `*.c` → end.

`Lookup` is the loop as a `RECURSIVE` operator. The state is the set of route keys that hold a pool; `InsertRoute` (`insertRouteKey`) and `DeleteRoute` (the deletion in `unregister` and pruning) change it. The property compares `Lookup` with a declarative reference: among the routes whose host matches (exactly, or as a wildcard suffix) and whose path is a prefix of the request's, the one with the most specific host and then the longest path. `RouteMatch` is checked as part of `Pipeline`, whose requests look routes up through it.

### `Pipeline.tla` (with `MCPipeline.tla`): the request path

`Pipeline` EXTENDS `RouteMatch`. Each client is one request on its own goroutine, with state `rq[q]` (pc, the request, whether it carries a request id, the pool bound to it, the endpoint chosen, the attempts used, the status written). The routing table is `routed` from `RouteMatch` plus `up`, the endpoints registered under the one application route `AppRoute`; every other route's pool stays empty. `conns` counts each endpoint's live connections, and `failed` holds the endpoints in their failure cool-down.

| Action | Code |
|---|---|
| `VcapRequestId` | `setVcapRequestIdHeader.ServeHTTP` (`request_id.go:25-48`): set the header and call next, or, without request or trace info, return with nothing written |
| `LookupHandler` (with `Rejected`, `Bind`) | spec §4.3: empty Host or malformed headers → 400; process header before app header; `LookupWithProcessInstance` / `LookupWithAppInstance` (`registry.go:252-306`, a surgical snapshot) or plain `Lookup` (a reference to the table's pool); none → 404 or 400; empty route → 503 or 404; every endpoint at the cap → 503 (`lookup_test.go`); otherwise bind and call next |
| `SelectEndpoint` | `NextEndpoint`: an endpoint neither cooling down nor at `MaxConnsPerBackend`; 503 when all are at the cap, 502 when none is left |
| `Dial` | the connection opens (counted), or fails: the endpoint cools down, and the request retries while attempts remain and its body is nil or unread, else 502 |
| `Send` | the request is written, reading its body; or the connection is found dead: dropped, the endpoint cools down, and the request is retried only without a body, else 502 |
| `Relay` | the response is relayed and the connection released |
| `RegisterEndpoint`, `UnregisterEndpoint`, `DeletePool`, `InsertRoute` | the registry changing the table under the requests (environment); a request still holding a deleted pool keeps an empty orphan |
| `CoolDown` | `RetryAfterFailure` running out (environment) |

A status of 0 (`Unwritten`) is the request-id handler's early return: no handler wrote, so net/http answers 200 with an empty body.

### `RouterDrain.tla` (with `MCRouterDrain.tla`)

**Environment.** net/http's per-connection state machine is the environment:

- unborn → new → active / closed
- active → idle / hijacked / closed
- idle → active / closed

`state` is where net/http is, and `hooked` is the state the callback last ran for. net/http makes a move (`ServerMove`: accept, read a request, write the response, hijack, close) and then calls the callback on the connection's goroutine. The callback takes `connLock` itself (`router.go:133`), so it may wait while Drain or Stop holds the lock, and its case is a step of its own. The connection makes no further move until its callback returns. Serve runs the StateNew callback before it accepts again, so once Serve has returned no StateNew callback is pending (`ServeInAccept`). A request is read only from a socket the router has not closed.

**Actions.**

- Callback cases, each one step under `connLock` for the move just made: `ConnNew`, `ConnActive`, `ConnIdle`, `ConnGone`. `ConnGone` covers the shared Hijacked/Closed case. Each case ends with the drain-done check (`SignalDrain`).
- `ClientsMayCloseUnused` enables the new → closed edge. This is a client that connects and never sends a byte, such as a health checker or a load-balancer probe.
- `Drain` is split into three steps:
  - `DrainStopAccepting`: close the listener and wait for Serve;
  - `DrainClose`: under `connLock`, `r.close()` plus the choice between closing `drained` now or handing it to the callback;
  - `DrainReturn` or `DrainTimedOut`: the select.
- `Stop` is one step.
- `activeConns` is kept modulo `2^CounterWidth`, so the uint32 wrap shows.


### `CounterfeiterFake.tla` (with `MCCounterfeiterFake.tla`): the test doubles

Both fakes are generated from one template, and the module models the template. It is parameterised by the faked `Methods`, the `Returning` ones among them, and the order in which `Invocations()` takes the method mutexes.

- **State.** Each mutex has a `writer` and a set of `readers`. Each method has `argsForCall`, `stub`, `returns`, `returnsOnCall` (a Go map from call index to result) and its entry of the `invocations` map.
- **Goroutines.** Each goroutine runs a `Script` of calls on the fake: the code under test calls the faked methods; the test configures the fake and inspects it.

| Action | Code (`fake_registry.go`) |
|---|---|
| `CallLock` | `fake.lookupMutex.Lock()` (65-66) |
| `CallRecord` (with `RecordInvocation`) | under the method mutex: `returnsOnCall` at the call's index, append the arguments, copy the stub and result; `recordInvocation` takes `invocationsMutex` (338-348); unlock; the copied stub, specific or default result (67-81) |
| `CallStub` | a void method calls `fake.RegisterStub`, read again after the unlock; a nil there panics (261-263) |
| `Returns`, `ReturnsOnCall`, `Calls` | configure under the method mutex; the first two clear the stub (90-124) |
| `CallCount`, `ArgsForCall` | read under the read lock; an index not yet recorded panics (84-101) |
| `InvocationsRLock`, `InvocationsCopy` | `Invocations()`: read-lock `invocationsMutex`, then every method mutex in declaration order, copy, release (318-336) |

A lock acquisition is a step of its own wherever the goroutine already holds another lock. A critical section that takes no further lock is one step. RWMutex writer preference is left out; it only adds blocking.

## Runs

| Run | cfg | Checks | Result |
|---|---|---|---|
| registry_core | `MCRegistry.cfg` | `TypeOK`, `PrunedWereExpired`, `PruneGraceAfterReconnect`, `EmptyPoolRetained` | pass |
| registry_concurrent_registrars | `MCRegistryRegistrars.cfg` | `RegistrationVisible` among registrars alone; `RefinesAbstract` | pass |
| registry_lost_registration | `MCRegistryLostRegistration.cfg` | `RegistrationVisible` with Unregister and pruning | **violation** |
| registry_update_time_regress | `MCRegistryUpdateTime.cfg` | `TimeOfLastUpdateMonotonic` | **violation** |
| router_conn_bookkeeping | `MCRouterDrain.cfg` | `ActiveConnsCounted`, `DrainSignalledWhenQuiet`, `IdleClosedAfterShutdown`, `DrainedOnlyWhenCounted` | pass |
| router_hook_race | `MCRouterDrainHookRace.cfg` | `DrainedOnlyWhenQuiet` | **violation** |
| router_unused_close_underflow | `MCRouterDrainUnusedClose.cfg` | `DrainedOnlyWhenCounted` with unused connections | **violation** |
| router_new_conn_after_drain | `MCRouterDrainNewConn.cfg` | `NoRequestAfterDrain` | **violation** |
| consumer_liveness | `MCConsumer.cfg` | `StoppedBackendUnrouted`, `StaleEventuallyPruned` | pass |
| consumer_bad_port_frame | `MCConsumerBadFrame.cfg` | `OnlyAnnouncedRouted` with bad-port frames | **violation** |
| request_pipeline | `MCPipeline.cfg` | `LookupAgreesWithReference`, `ForwardedRequestsCarryId`, `InstanceRoutingHonoured`, `NoBodyReplay`, `EveryRequestAnswered` | pass |
| fake_invocations_deadlock | `MCCounterfeiterFake.cfg` | `EveryCallReturns` | **violation** |

What the properties say:

- `PrunedWereExpired`: every endpoint a prune removes had been silent longer than the stale threshold it registered with. Unset or too large thresholds fall back to the default.
- `PruneGraceAfterReconnect`: the first prune after a NATS outage removes nothing.
- `EmptyPoolRetained`: under `EmptyPoolResponseCode503` a route disappears only once it is empty and `EmptyPoolTimeout` has passed.
- `RegistrationVisible`: every endpoint whose `Register` returned is found by `Lookup`, until it is unregistered or pruned.
- `RefinesAbstract`: the registry with concurrent registrars implements `RegistryAbstract`; every `Register` is linearizable and respects the shard.
- `StaleEventuallyPruned`: an endpoint in the table whose last heartbeat is older than its threshold is eventually removed or heard from again, unless NATS is down.
- `StoppedBackendUnrouted`: a backend that stopped is eventually no longer routed to, whatever became of its frames (lost, reordered across the two subjects, malformed).
- `OnlyAnnouncedRouted`: only endpoints some backend announced, and which are in this router's shard, are routed to.
- `LookupAgreesWithReference`: lookup's fallback loop returns the most specific host's longest matching context path.
- `ForwardedRequestsCarryId`: no request reaches the lookup handler or a backend without `X-Vcap-Request-Id`.
- `InstanceRoutingHonoured`: a request naming a process (and index) or an app instance is only sent to that instance, with the process header winning over the app header, even while the instance is unregistered and re-registered.
- `NoBodyReplay`: once a send has read a request's body, the request is never dialed again (spec §4.4: retries must not replay bodies).
- `EveryRequestAnswered`: every request is eventually answered, however often dials fail and whatever the table does.
- `ActiveConnsCounted`: the callback's counters match the moves the callback has been told of.
- `DrainSignalledWhenQuiet`: no lost wake-up of Drain.
- `DrainedOnlyWhenCounted`: `drained` is closed only when, by the callbacks that have run, no request is in progress.
- `DrainedOnlyWhenQuiet`: `drained` is closed only when net/http has no request in progress.
- `IdleClosedAfterShutdown`: no idle keep-alive connection survives shutdown.
- `EveryCallReturns`: every goroutine's calls on a fake return, so no lock order of the fake can hang a test.

Every property of a passing run has a mutant in `PROJECT.json`. The mutant is a plausible bug in the mapped code, and TLC finds the property violated under the run's cfg.

### Findings

1. **Lost registration** (`registry.go:126-135`).
   - `register` releases the write lock between `insertRouteKey` and `Put`.
   - An `Unregister` of another endpoint of the key, or a prune, can delete the freshly created empty pool in that gap.
   - `Put` then adds the endpoint to a pool no longer in the trie.
   - The endpoint is invisible until its next heartbeat.
2. **Time of last update regresses** (`registry.go:120,137`). `t` is read before the lock is dropped and written after, so a concurrent register's later time is overwritten.
3. **Drain returns while a request it has not yet counted is in progress** (`router.go:133`), `router_hook_race`.
   - net/http reads a request and only then calls the ConnState callback, which waits on `connLock` while Drain holds it.
   - Drain finds `activeConns = 0` and closes `drained`, so Drain returns nil and the process exits during the request.
   - The trace: c1 is accepted, its StateNew callback runs, c1 reads a request, Drain closes the listener and, under `connLock`, sees no active connection.
   - If the connection was idle before the request, it is still in `idleConns`, and `r.close()` closes its socket under the request.
4. **`activeConns` underflow** (`router.go:149-154`), `router_unused_close_underflow`.
   - A connection closed in `StateNew` is decremented although it was never counted.
   - Drain can return while a request is in progress.
   - With more such closes than active requests, the `uint32` wraps.
5. **Connections in `StateNew` escape Drain** (`router.go:198-206`). Drain neither closes nor waits for them, so one can serve a request after Drain returned nil.
6. **A malformed register frame adds a route to port 0** (`router.go:349-355`). `subscribeRegistry` logs the `json.Unmarshal` error and runs the callback anyway. For a frame whose port has the wrong type, `Unmarshal` has already decoded the uris and host, so `Register` adds `host:0` to every uri of the frame: an endpoint nobody announced, which requests are routed to until it is pruned.
7. **The counterfeiter fakes can deadlock** (`fake_registry.go:343`, `Invocations` at 318-330).
   - A faked call holds its method mutex while `recordInvocation` takes `invocationsMutex` for writing.
   - `Invocations()` read-locks `invocationsMutex` first and then the method mutexes.
   - The trace: the handler locks `registerMutex`; the test's `Invocations()` read-locks `invocationsMutex` and `lookupMutex` and waits for `registerMutex`; the handler waits for `invocationsMutex`.
   - `fake_monitorreporter.go` has the same template and the same cycle. No test in `src/` calls `Invocations()`, so the deadlock is latent.

### Bounds and why they suffice

**Registry.**

- One key and two endpoints:
  - e1: no isolation segment, requested stale threshold 0, so unset.
  - e2: segment "is1", threshold 1.
- `DropletStaleThreshold = 2` and `MaxTime = 3`. Every stale comparison can come out both ways, including the boundary `fresh = now - threshold`, and a disconnect/reconnect fits before the clock stops.
- The core run: sharding mode `shared-and-segments` with segment `is1`, so both endpoints are admitted; one registrar and two pool ids, so an old orphaned pool and a new one can coexist; `EmptyPoolResponseCode503` with `EmptyPoolTimeout = 1`, so an empty pool can be both kept and removed.
- The registrar run: two registrars and three pool ids (the racing creation), and no isolation segment served, so e2 is outside the shard and the refinement's `Admitted` is exercised both ways.
- Pool ids are symmetric; registrars are symmetric where the endpoints are not.
- The lost-registration trace needs one registrar, two endpoints and two pool ids.

**Consumer.**

- One key, one registrar (the `router.register` goroutine), two pool ids, `MaxQueue = 1` per subject.
- Liveness run: one announced backend e1 and its port-0 twin e1z, every frame error; `DropletStaleThreshold = 1` and `MaxTime = 2` with `TickShifted`, so time never stops.
- Safety runs: also e2 in a segment this router does not serve (and its twin e2z), so a frame of another shard arrives. `consumer_bad_port_frame` allows well-formed, non-JSON and bad-port frames. With the bad-port frame left out, `OnlyAnnouncedRouted` holds in the same instance.
- Every endpoint requests a stale threshold (5) larger than the default, so the cap in `register` decides the threshold. The requested value is never compared with a time: only the clamped threshold (1) is, and `MaxTime = 2` exceeds it.
- `VIEW` drops what no action reads: `timeOfLastUpdate`, the registrar's entry time `t` (it only feeds `timeOfLastUpdate`), and the history variables `registered`, `lastPrune` and `heard`. No property of these runs reads them, except `heard`, which the liveness run's view keeps.

**Pipeline and RouteMatch.**

- Route keys `a.b.c/`, `a.b.c/p`, `*.b.c/p` and `*.c/`: all 16 tables are reached. `LookupAgreesWithReference` is checked for 16 request uris: hosts `a.b.c`, `x.b.c` (only wildcards serve it), `b.c` and `c`, with paths `/`, `/p`, `/q` and `/p/q`. This covers an exact route beating a wildcard with a longer path, a longer path under the exact host beating the root, two wildcard levels, and exhaustion at a single label.
- Two clients, so one request can hold a connection while the other selects (the cap and the overloaded 503), and the table can change between one request's lookup and its dial.
- Two endpoints of one process, indexes 0 and 1, so a process header with and without an index, an app header, and a request with both headers (naming different instances) all have a right and a wrong answer. c1's plain request for `a.b.c/p/q` is answered from `a.b.c/` or, once `a.b.c/p` exists, meets its empty pool.
- `MaxConnsPerBackend = 1` and `MaxTries = 2`: the cap is reachable and a retry happens before the budget runs out.
- c1's plain request has a body and the others have none, so a failed send is retried for one and answered 502 for the other.

**RouterDrain.**

- Three connections (symmetric), which is enough for one active, one idle and one new or closing connection at drain time.
- `CounterWidth = 2` keeps the wrap reachable.
- `CHECK_DEADLOCK FALSE`: the router does stop. After Drain returns or Stop runs, and all connections are closed, nothing is left to do.
- The passing run has clients that always send a request. The unused close only decrements the counter; `IdleClosedAfterShutdown` reads `idleConns`, which it leaves as it was. It appears in the underflow run.
- The passing run's properties are stated over `hooked`, what the callbacks have told the router. `DrainedOnlyWhenQuiet`, stated over net/http's `state`, is the hook-race run. `DrainedOnlyWhenCounted` separates the counter's underflow from that race: it fails only when the count is wrong.

**CounterfeiterFake.**

- Two goroutines and two `FakeRegistry` methods: `Lookup` (returning) and `Register` (void). That is the smallest instance with a method mutex on each side of the cycle.
- The handler calls `Lookup`, then `Register`. The test calls `LookupReturns`, `LookupReturnsOnCall(0, …)`, `RegisterCalls`, `LookupCallCount` and then `Invocations()`.
- `ArgsForCall` is left out of the script: called before the call it names, it panics, which is a bug of the test rather than of the fake.
- `CHECK_DEADLOCK FALSE`: the scripts end, and a goroutine blocked forever shows as a violation of `EveryCallReturns`.

### Fairness

Only `consumer_liveness` assumes fairness (`CLiveSpec` in `Consumer.tla`), all of it weak:

- each subscription goroutine handles a frame it has been handed (`ReceiveRegister`, `RegisterUri`, `ReceiveUnregister`, `UnregisterUri`) and a `Register` call it started finishes (`RegisterInsert`, `RegisterPut`): a NATS callback runs to completion;
- `PruneStale`: the ticker of `StartPruningCycle` fires for as long as the process runs, and a goroutine waiting in `Lock()` is not starved by readers, because a waiting writer blocks new `RLock` calls;
- time advances (`Tick`, `TickShifted`).

The backends, the bus and the NATS connection get no fairness: a backend may stop heartbeating at any time, frames may all be lost, and NATS may stay down. This is why both liveness properties conclude "or NATS is down".

`fake_invocations_deadlock` (`FairSpec`) assumes weak fairness of each goroutine: the Go scheduler runs a runnable goroutine, and the scripts are finite, so a mutex that stays free is eventually taken.

`request_pipeline` (`PSpec` in `Pipeline.tla`) assumes weak fairness of each request's steps. A request has a goroutine of its own; a dial ends within `EndpointDialTimeout`, and a backend's response within the request timeout. Whether a dial succeeds is not assumed: it may fail every time. The table, the cool-down and the backends get no fairness.

## Not modelled, and why

- Start-up, greeting, `flushApps` and the NATS frames' JSON text: pure I/O. The start-up delay (`StartResponseDelayInterval`) exists so that backends register before the router listens. Checking it would need the backends' answer to `router.start`, which neither `src/` nor the spec describes.
- `splitHostAndContextPath` (`registry.go:440-455`): it sets the new pool's host and context path, which only logging and the surgical pools' attributes read. No modelled behaviour depends on them.
- Metrics, logging, `MarshalJSON`, `NumUris`: read-only reporting.
- The tests themselves. Of the fakes, only `FakeRegistry`'s `Lookup` and `Register` are instantiated: the other methods repeat the same template, and so do `FakeMonitorReporter`'s.
- Which of two endpoints sharing an app guid and index `LookupWithAppInstance` returns (`registry.go:264`, last match wins). It is fixed by the pool's order, which is not in `src/`, and the spec promises only a single-endpoint pool. `InstanceRoutingHonoured` checks that the chosen endpoint is the named instance.
- Of the proxy engine: TLS and SAN checks, HTTP/2, WebSockets, body streaming and the load-balancing order. They are I/O, or they choose among outcomes the model already has: a handshake failure is a dial failure, and the balancing order is any choice among the available endpoints.
- The spec's `NextEndpoint` checks the cap under the pool's lock, but the connection is counted only when the dial succeeds. So two requests can pass the check for the same endpoint, and the model allows that (`conns` may exceed the cap). No property states the cap as a hard bound, because the spec does not say that the selection reserves a connection.

## Plan for the next sittings

1. A nil stub set while a void call is in flight (`fake_registry.go:262`): `CallStub` already models the second read; it needs a run of its own.
2. The TLS SAN eviction policy (spec: two consecutive handshake failures evict an endpoint): a handshake step between `Dial` and `Send`.
