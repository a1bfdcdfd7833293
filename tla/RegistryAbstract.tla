-------------------------- MODULE RegistryAbstract --------------------------
(***************************************************************************)
(* What the route registry promises its callers, without locks, pools or  *)
(* a trie: a table from route key to the set of endpoints a Lookup finds. *)
(*                                                                         *)
(* A Register call is an operation with an invocation and a response; it  *)
(* takes effect atomically at one instant in between (it is linearizable) *)
(* and, when it responds, its endpoint is in the table, provided the      *)
(* endpoint belongs to the router's shard.  Unregister removes exactly    *)
(* its own endpoint from its own key.  A prune only removes endpoints.    *)
(***************************************************************************)
EXTENDS FiniteSets

CONSTANTS
    Keys,
    Endpoints,
    Registrars,
    EndpointSegment,
    RoutingTableShardingMode,
    IsolationSegments

VARIABLES
    routes,    \* [Keys -> SUBSET Endpoints]: what Lookup(k) finds
    pending    \* [Registrars -> Keys \X Endpoints \cup {Idle}]: the Register
               \* call each registrar has invoked and not yet returned from

avars == <<routes, pending>>

Idle == <<>>

\* The sharding rule of the router configuration: which endpoints this
\* router accepts at all.
Admitted(e) ==
    CASE RoutingTableShardingMode = "all" -> TRUE
      [] RoutingTableShardingMode = "segments" -> EndpointSegment[e] \in IsolationSegments
      [] RoutingTableShardingMode = "shared-and-segments" ->
            EndpointSegment[e] = "" \/ EndpointSegment[e] \in IsolationSegments

ATypeOK ==
    /\ routes \in [Keys -> SUBSET Endpoints]
    /\ pending \in [Registrars -> (Keys \X Endpoints) \cup {Idle}]

\* A Register call's effect on the table.
Added(k, e) ==
    IF Admitted(e) THEN [routes EXCEPT ![k] = @ \cup {e}] ELSE routes

\* Register(k, e) is invoked; the table is not changed yet.
Invoke(r, k, e) ==
    /\ pending[r] = Idle
    /\ pending' = [pending EXCEPT ![r] = <<k, e>>]
    /\ UNCHANGED routes

\* The pending call takes effect and returns.
Respond(r) ==
    /\ pending[r] # Idle
    /\ routes' = Added(pending[r][1], pending[r][2])
    /\ pending' = [pending EXCEPT ![r] = Idle]

\* A Register call that takes effect and returns in one step.
RegisterAtomic(r, k, e) ==
    /\ pending[r] = Idle
    /\ routes' = Added(k, e)
    /\ UNCHANGED pending

\* Unregister(k, e).
Remove(k, e) ==
    /\ routes' = [routes EXCEPT ![k] = @ \ {e}]
    /\ UNCHANGED pending

\* A prune tick: any endpoints may go (the abstract table does not know
\* their heartbeats), none is added.
Prune ==
    /\ \E gone \in [Keys -> SUBSET Endpoints] :
          routes' = [k \in Keys |-> routes[k] \ gone[k]]
    /\ UNCHANGED pending

AInit ==
    /\ routes = [k \in Keys |-> {}]
    /\ pending = [r \in Registrars |-> Idle]

ANext ==
    \/ \E r \in Registrars, k \in Keys, e \in Endpoints :
          Invoke(r, k, e) \/ RegisterAtomic(r, k, e)
    \/ \E r \in Registrars : Respond(r)
    \/ \E k \in Keys, e \in Endpoints : Remove(k, e)
    \/ Prune

ASpec == AInit /\ [][ANext]_avars

=============================================================================
