------------------------------ MODULE Pipeline ------------------------------
(***************************************************************************)
(* The request path, composed with the routing table of RouteMatch: each  *)
(* client request runs the negroni chain                                   *)
(*                                                                         *)
(*   setVcapRequestIdHeader -> lookup handler -> proxy engine             *)
(*                                                                         *)
(* on a goroutine of its own, while Register, Unregister and pruning      *)
(* change the table.  request_id.go is in src/handlers; the lookup        *)
(* handler (spec 4.3, src/handlers/lookup_test.go) and the proxy engine's *)
(* endpoint selection, dial and retry (spec 4.4, the pool's NextEndpoint) *)
(* follow the specification.                                               *)
(*                                                                         *)
(* One route, AppRoute, holds the application's endpoints; every other    *)
(* route key has an empty pool when it is in the table.  A pool bound to  *)
(* a request is either the table's own pool (a reference: later Put and   *)
(* Unregister calls show through it) or a surgical pool built by the      *)
(* instance lookups (a snapshot).                                          *)
(***************************************************************************)
EXTENDS RouteMatch

CONSTANTS
    Endpoints, AppRoute,
    ApplicationId, PrivateInstanceIndex, ProcessId,
    Clients,
    ClientRequests,            \* [Clients -> set of requests]: what each may send;
                               \* a request is [uri, emptyHost, app, proc], and an
                               \* instance header [kind : {"none", "bad", "ok"},
                               \* id, idx] with idx "" when it names none
    MaxConnsPerBackend,        \* 0: unlimited
    MaxTries,                  \* the proxy's attempts per request
    EmptyPoolResponseCode503,
    TraceInfoMayFail           \* ContextRequestInfo / ProvideTraceInfo can fail

ASSUME
    /\ AppRoute \in RouteKeys
    /\ MaxConnsPerBackend \in Nat /\ MaxTries \in Nat \ {0}

\* Answered status 0: the chain returned without writing, so net/http
\* sends 200 with an empty body.
Unwritten == 0

VARIABLES
    up,        \* endpoints registered under AppRoute
    conns,     \* [Endpoints -> Nat]: live connections (NumberConnections)
    failed,    \* endpoints whose last failure is within RetryAfterFailure
    rq         \* [Clients -> request state]

pvars == <<routed, up, conns, failed, rq>>

\* The pool a request is bound to.
Binding == [live : BOOLEAN, key : RouteKeys \cup {NoRoute}, eps : SUBSET Endpoints]

Unbound == [live |-> FALSE, key |-> NoRoute, eps |-> {}]

PTypeOK ==
    /\ routed \subseteq RouteKeys
    /\ up \subseteq Endpoints
    /\ conns \in [Endpoints -> 0..Cardinality(Clients)]
    /\ failed \subseteq Endpoints
    /\ \A q \in Clients :
          /\ rq[q].pc \in {"id", "lookup", "select", "dial", "send", "relay", "done"}
          /\ rq[q].req \in ClientRequests[q]
          /\ rq[q].id \in BOOLEAN
          /\ rq[q].bodyRead \in BOOLEAN
          /\ rq[q].pool \in Binding
          /\ rq[q].ep \in Endpoints
          /\ rq[q].tries \in 0..MaxTries
          /\ rq[q].status \in {Unwritten, 200, 400, 404, 502, 503}

-----------------------------------------------------------------------------
(* Pools                                                                   *)

Members(k) == IF k = AppRoute /\ k \in routed THEN up ELSE {}

PoolOf(b) == IF b.live THEN Members(b.key) ELSE b.eps

AtCap(e) == MaxConnsPerBackend > 0 /\ conns[e] >= MaxConnsPerBackend

\* EndpointPool.IsOverloaded: every endpoint at its connection cap.
Overloaded(eps) == eps # {} /\ \A e \in eps : AtCap(e)

\* LookupWithAppInstance: a fresh pool for every matching endpoint, the
\* last one kept; the pool's order is not modelled, so any match.
AppInstanceChoices(u, h) ==
    LET m == {e \in Members(Lookup(u)) :
                ApplicationId[e] = h.id /\ PrivateInstanceIndex[e] = h.idx}
    IN IF m = {} THEN {{}} ELSE {{e} : e \in m}

\* LookupWithProcessInstance: one fresh pool with every endpoint of the
\* process, of the index asked for or of any index.
ProcessInstancePool(u, h) ==
    {e \in Members(Lookup(u)) :
        ProcessId[e] = h.id /\ (PrivateInstanceIndex[e] = h.idx \/ h.idx = "")}

-----------------------------------------------------------------------------
(* The chain, one request per client.                                      *)

Answer(q, s) ==
    /\ rq' = [rq EXCEPT ![q].pc = "done", ![q].status = s]
    /\ UNCHANGED <<routed, up, conns, failed>>

\* Mutation: the failure is logged and next called all the same.
VcapRequestIdNoReturn(q) ==
    /\ rq[q].pc = "id"
    /\ \/ /\ rq' = [rq EXCEPT ![q].pc = "lookup", ![q].id = TRUE]
          /\ UNCHANGED <<routed, up, conns, failed>>
       \/ /\ TraceInfoMayFail
          /\ rq' = [rq EXCEPT ![q].pc = "lookup"]
          /\ UNCHANGED <<routed, up, conns, failed>>

\* setVcapRequestIdHeader.ServeHTTP: without request info or trace info it
\* logs and returns, calling neither next nor the response writer;
\* otherwise it sets X-Vcap-Request-Id and calls next.
VcapRequestId(q) ==
    /\ rq[q].pc = "id"
    /\ \/ /\ rq' = [rq EXCEPT ![q].pc = "lookup", ![q].id = TRUE]
          /\ UNCHANGED <<routed, up, conns, failed>>
       \/ TraceInfoMayFail /\ Answer(q, Unwritten)

\* Rules 1-3: an empty Host, or a malformed instance header, is a 400.
Rejected(r) == r.emptyHost \/ r.app.kind = "bad" \/ r.proc.kind = "bad"

\* Rules 5-7 and the connection-limit check on the pool found: none is the
\* given status, an empty route 503 or 404, an overloaded pool 503;
\* otherwise the pool is bound to the request and next is called.
Bind(q, b, missing) ==
    LET eps == PoolOf(b) IN
    CASE ~b.live /\ eps = {}  -> Answer(q, missing)
      [] b.key = NoRoute /\ b.live -> Answer(q, missing)
      [] eps = {}             -> Answer(q, IF EmptyPoolResponseCode503 THEN 503 ELSE 404)
      [] Overloaded(eps)      -> Answer(q, 503)
      [] OTHER -> /\ rq' = [rq EXCEPT ![q].pc = "select", ![q].pool = b]
                  /\ UNCHANGED <<routed, up, conns, failed>>

\* Mutation: the app-instance header looked at before the process one.
LookupHandlerAppFirst(q) ==
    LET r == rq[q].req IN
    /\ rq[q].pc = "lookup"
    /\ \/ Rejected(r) /\ Answer(q, 400)
       \/ /\ ~Rejected(r) /\ r.app.kind = "ok"
          /\ \E s \in AppInstanceChoices(r.uri, r.app) :
                Bind(q, [Unbound EXCEPT !.eps = s], 400)
       \/ /\ ~Rejected(r) /\ r.app.kind = "none" /\ r.proc.kind = "ok"
          /\ Bind(q, [Unbound EXCEPT !.eps = ProcessInstancePool(r.uri, r.proc)], 400)
       \/ /\ ~Rejected(r) /\ r.app.kind = "none" /\ r.proc.kind = "none"
          /\ Bind(q, [live |-> TRUE, key |-> Lookup(r.uri), eps |-> {}], 404)

\* The lookup handler: the process-instance header beats the app-instance
\* header; without either, the plain Lookup.
LookupHandler(q) ==
    LET r == rq[q].req IN
    /\ rq[q].pc = "lookup"
    /\ \/ Rejected(r) /\ Answer(q, 400)
       \/ /\ ~Rejected(r) /\ r.proc.kind = "ok"
          /\ Bind(q, [Unbound EXCEPT !.eps = ProcessInstancePool(r.uri, r.proc)], 400)
       \/ /\ ~Rejected(r) /\ r.proc.kind = "none" /\ r.app.kind = "ok"
          /\ \E s \in AppInstanceChoices(r.uri, r.app) :
                Bind(q, [Unbound EXCEPT !.eps = s], 400)
       \/ /\ ~Rejected(r) /\ r.proc.kind = "none" /\ r.app.kind = "none"
          /\ Bind(q, [live |-> TRUE, key |-> Lookup(r.uri), eps |-> {}], 404)

\* NextEndpoint under the pool's lock: an endpoint neither in its failure
\* cool-down nor at the cap; exhausted (503) when every endpoint is at the
\* cap; nothing left to try is a 502.
SelectEndpoint(q) ==
    LET eps == PoolOf(rq[q].pool)
        avail == {e \in eps : e \notin failed /\ ~AtCap(e)}
    IN /\ rq[q].pc = "select"
       /\ \/ \E e \in avail :
                /\ rq' = [rq EXCEPT ![q].pc = "dial", ![q].ep = e]
                /\ UNCHANGED <<routed, up, conns, failed>>
          \/ avail = {} /\ Overloaded(eps) /\ Answer(q, 503)
          \/ avail = {} /\ ~Overloaded(eps) /\ Answer(q, 502)

\* The body can be sent again only while none of it has been read.
Replayable(q) == ~rq[q].req.body \/ ~rq[q].bodyRead

\* Mutation: a failed dial goes back to selection without using up an
\* attempt.
DialNoBudget(q) ==
    LET e == rq[q].ep IN
    /\ rq[q].pc = "dial"
    /\ \/ /\ conns' = [conns EXCEPT ![e] = @ + 1]
          /\ rq' = [rq EXCEPT ![q].pc = "send"]
          /\ UNCHANGED <<routed, up, failed>>
       \/ /\ failed' = failed \cup {e}
          /\ rq' = [rq EXCEPT ![q].pc = "select"]
          /\ UNCHANGED <<routed, up, conns>>

\* Dial: the connection opens and counts against the cap, or the dial
\* fails: the endpoint is marked failed and, within the retry budget, the
\* request goes back to selection, provided its body is nil or unread,
\* else it is a 502.
Dial(q) ==
    LET e == rq[q].ep IN
    /\ rq[q].pc = "dial"
    /\ \/ /\ conns' = [conns EXCEPT ![e] = @ + 1]
          /\ rq' = [rq EXCEPT ![q].pc = "send"]
          /\ UNCHANGED <<routed, up, failed>>
       \/ /\ failed' = failed \cup {e}
          /\ LET retry == rq[q].tries + 1 < MaxTries /\ Replayable(q) IN
             rq' = [rq EXCEPT ![q].tries = @ + 1,
                              ![q].pc = IF retry THEN "select" ELSE "done",
                              ![q].status = IF retry THEN @ ELSE 502]
          /\ UNCHANGED <<routed, up, conns>>

\* Mutation: a failed send retried whether or not the body was read.
SendRetryAlways(q) ==
    LET e == rq[q].ep
        retry == rq[q].tries + 1 < MaxTries
    IN /\ rq[q].pc = "send"
       /\ \/ /\ rq' = [rq EXCEPT ![q].pc = "relay", ![q].bodyRead = rq[q].req.body]
             /\ UNCHANGED <<routed, up, conns, failed>>
          \/ /\ conns' = [conns EXCEPT ![e] = @ - 1]
             /\ failed' = failed \cup {e}
             /\ rq' = [rq EXCEPT ![q].tries = @ + 1, ![q].bodyRead = rq[q].req.body,
                                 ![q].pc = IF retry THEN "select" ELSE "done",
                                 ![q].status = IF retry THEN @ ELSE 502]
             /\ UNCHANGED <<routed, up>>

\* The request is written to the connection, reading its body.  It goes
\* through, or the connection turns out dead (a reused keep-alive
\* connection the backend closed): the connection is dropped, the
\* endpoint marked failed, and the request retried only if its body can
\* be sent again and attempts remain, else 502.
Send(q) ==
    LET e == rq[q].ep
        retry == rq[q].tries + 1 < MaxTries /\ ~rq[q].req.body
    IN /\ rq[q].pc = "send"
       /\ \/ /\ rq' = [rq EXCEPT ![q].pc = "relay", ![q].bodyRead = rq[q].req.body]
             /\ UNCHANGED <<routed, up, conns, failed>>
          \/ /\ conns' = [conns EXCEPT ![e] = @ - 1]
             /\ failed' = failed \cup {e}
             /\ rq' = [rq EXCEPT ![q].tries = @ + 1, ![q].bodyRead = rq[q].req.body,
                                 ![q].pc = IF retry THEN "select" ELSE "done",
                                 ![q].status = IF retry THEN @ ELSE 502]
             /\ UNCHANGED <<routed, up>>

\* The backend's response is relayed and the connection released.
Relay(q) ==
    LET e == rq[q].ep IN
    /\ rq[q].pc = "relay"
    /\ conns' = [conns EXCEPT ![e] = @ - 1]
    /\ rq' = [rq EXCEPT ![q].pc = "done", ![q].status = 200]
    /\ UNCHANGED <<routed, up, failed>>

-----------------------------------------------------------------------------
(* The routing table changes under the requests (environment).             *)

\* Register of an application endpoint: the route's pool is created if
\* missing, and the endpoint put into it.
RegisterEndpoint(e) ==
    /\ e \notin up
    /\ routed' = routed \cup {AppRoute}
    /\ up' = up \cup {e}
    /\ UNCHANGED <<conns, failed, rq>>

\* Unregister, or a prune of the endpoint.
UnregisterEndpoint(e) ==
    /\ e \in up
    /\ up' = up \ {e}
    /\ UNCHANGED <<routed, conns, failed, rq>>

\* An empty pool leaves the trie (at once, or after EmptyPoolTimeout).  A
\* request holding it keeps an orphan that stays empty.
DeletePool(k) ==
    /\ DeleteRoute(k)
    /\ Members(k) = {}
    /\ rq' = [q \in Clients |->
                IF rq[q].pool.live /\ rq[q].pool.key = k
                THEN [rq[q] EXCEPT !.pool = Unbound] ELSE rq[q]]
    /\ UNCHANGED <<up, conns, failed>>

\* The failure cool-down (RetryAfterFailure) of an endpoint runs out.
CoolDown(e) ==
    /\ e \in failed
    /\ failed' = failed \ {e}
    /\ UNCHANGED <<routed, up, conns, rq>>

-----------------------------------------------------------------------------

PInit ==
    /\ routed = {}
    /\ up = {}
    /\ conns = [e \in Endpoints |-> 0]
    /\ failed = {}
    /\ rq \in [Clients -> [pc : {"id"}, req : UNION {ClientRequests[q] : q \in Clients},
                           id : {FALSE}, bodyRead : {FALSE}, pool : {Unbound}, ep : {CHOOSE e \in Endpoints : TRUE},
                           tries : {0}, status : {Unwritten}]]
    /\ \A q \in Clients : rq[q].req \in ClientRequests[q]

RequestStep(q) ==
    \/ VcapRequestId(q)
    \/ LookupHandler(q)
    \/ SelectEndpoint(q)
    \/ Dial(q)
    \/ Send(q)
    \/ Relay(q)

PNext ==
    \/ \E q \in Clients : RequestStep(q)
    \/ \E k \in RouteKeys : InsertRoute(k) /\ UNCHANGED <<up, conns, failed, rq>>
    \/ \E k \in RouteKeys : DeletePool(k)
    \/ \E e \in Endpoints : RegisterEndpoint(e) \/ UnregisterEndpoint(e) \/ CoolDown(e)

\* Each request is served by its own goroutine, and every step of it ends:
\* the dial has EndpointDialTimeout and the backend's response is bounded
\* by the request timeout.  The table, the backends and the cool-down get
\* no fairness.
PSpec == PInit /\ [][PNext]_pvars /\ \A q \in Clients : WF_pvars(RequestStep(q))

-----------------------------------------------------------------------------
(* Properties                                                              *)

\* Every request that reaches the lookup handler or a backend carries an
\* X-Vcap-Request-Id: setVcapRequestIdHeader returns, rather than calling
\* next, when it has no request or trace info.
ForwardedRequestsCarryId ==
    \A q \in Clients :
        rq[q].pc \in {"lookup", "select", "dial", "send", "relay"} \/ rq[q].status = 200
            => rq[q].id

\* An endpoint a request may be sent to is the instance its headers name:
\* the process (and index) of X-CF-Process-Instance, which beats
\* X-CF-App-Instance, or else the app guid and index of the latter, even
\* when the instance was unregistered or re-registered meanwhile and after
\* retries on other endpoints of the surgical pool.
Honours(r, e) ==
    CASE r.proc.kind = "ok" ->
            ProcessId[e] = r.proc.id
            /\ (r.proc.idx = "" \/ PrivateInstanceIndex[e] = r.proc.idx)
      [] r.app.kind = "ok" ->
            ApplicationId[e] = r.app.id /\ PrivateInstanceIndex[e] = r.app.idx
      [] OTHER -> TRUE

InstanceRoutingHonoured ==
    \A q \in Clients :
        rq[q].pc \in {"dial", "send", "relay"} \/ rq[q].status = 200
            => Honours(rq[q].req, rq[q].ep)

\* A request body is never sent twice: once a send has read the body, the
\* request is never dialed again (spec 4.4, retries must not replay bodies).
NoBodyReplay ==
    [][\A q \in Clients :
          rq'[q].pc = "dial" /\ rq[q].pc # "dial" => ~(rq[q].req.body /\ rq[q].bodyRead)]_pvars

\* Every request is answered, however often dials fail and whatever the
\* table does meanwhile: the retry budget bounds the attempts.
EveryRequestAnswered == \A q \in Clients : <>(rq[q].pc = "done")

====
