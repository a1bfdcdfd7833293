------------------------------ MODULE Consumer ------------------------------
(***************************************************************************)
(* The registration consumer of src/router/router.go composed with the    *)
(* route registry: Router.SubscribeRegister and SubscribeUnregister       *)
(* subscribe subscribeRegistry's callback to router.register and          *)
(* router.unregister; for each frame the callback json-decodes a          *)
(* registryMessage and calls Register (Unregister) once per uri.          *)
(*                                                                         *)
(* The bus.  NATS delivers each subscription's messages in order on one  *)
(* goroutine of its own, so all Register calls come from one registrar    *)
(* (Subscriber) and all Unregister calls from another goroutine, and the  *)
(* two subjects are not ordered with respect to each other.  Delivery is  *)
(* at most once: a frame may be lost, and a frame published while the     *)
(* router is disconnected never arrives.                                  *)
(*                                                                         *)
(* The backends.  Each announced backend publishes register heartbeats    *)
(* while it runs and one unregister frame when it stops.  A frame is well *)
(* formed, not JSON at all, or JSON with a field of the wrong type (here  *)
(* the port).                                                             *)
(***************************************************************************)
EXTENDS Registry, Sequences, SequencesExt

CONSTANTS
    Announced,      \* backends that publish frames
    AppUris,        \* [Announced -> SUBSET Keys]: the uris of their frames
    PortZeroed,     \* [Announced -> Endpoints]: makeEndpoint of a frame whose
                    \* port failed to decode (same host, port 0)
    FrameErrors,    \* what a frame may be: "none", "syntax", "badPort"
    Subscriber,     \* the router.register subscription goroutine
    MaxQueue        \* bound on the frames in flight per subject

ASSUME
    /\ Announced \subseteq Endpoints
    /\ AppUris \in [Announced -> SUBSET Keys]
    /\ PortZeroed \in [Announced -> Endpoints \ Announced]
    /\ FrameErrors \subseteq {"none", "syntax", "badPort"}
    /\ Subscriber \in Registrars
    /\ MaxQueue \in Nat \ {0}

Frame == [uris : SUBSET Keys, ep : Announced, err : FrameErrors]

\* A decoded registryMessage: the uris and the endpoint makeEndpoint builds.
Decoded == [uris : SUBSET Keys, ep : Endpoints]

NoWork == [uris |-> {}, ep |-> CHOOSE e \in Endpoints : TRUE]

VARIABLES
    regQ,        \* router.register frames published and not yet delivered
    unregQ,      \* router.unregister frames published and not yet delivered
    regTodo,     \* uris the register callback has still to Register, and the endpoint
    unregTodo,   \* the same for the unregister callback
    running      \* backends still publishing heartbeats

cvars == <<regQ, unregQ, regTodo, unregTodo, running>>
allvars == <<vars, cvars>>

-----------------------------------------------------------------------------
(* subscribeRegistry's callback: json.Unmarshal, then successCallback.     *)

\* json.Unmarshal into a zero registryMessage.  Input that is not valid
\* JSON is rejected before anything is decoded, so Uris stays empty; a
\* value of the wrong type is skipped and the rest decoded, so the message
\* keeps its uris and gets port 0.  Either way the error is only logged and
\* the callback runs.
Decode(f) ==
    CASE f.err = "syntax"  -> NoWork
      [] f.err = "badPort" -> [uris |-> f.uris, ep |-> PortZeroed[f.ep]]
      [] f.err = "none"    -> [uris |-> f.uris, ep |-> f.ep]

\* The router.register goroutine takes the next frame once the previous
\* frame's loop is done.
ReceiveRegister ==
    /\ regTodo.uris = {}
    /\ reg[Subscriber].pc = "idle"
    /\ regQ # <<>>
    /\ regTodo' = Decode(Head(regQ))
    /\ regQ' = Tail(regQ)
    /\ UNCHANGED <<vars, unregQ, unregTodo, running>>

\* One iteration of SubscribeRegister's loop: Register(uri, endpoint).  An
\* endpoint outside the shard returns at once; otherwise register's first
\* critical section runs, and the loop goes on once the call has returned.
RegisterUri(k) ==
    LET e == regTodo.ep IN
    /\ k \in regTodo.uris
    /\ reg[Subscriber].pc = "idle"
    /\ \/ EndpointInRouterShard(e) /\ RegisterHit(Subscriber, k, e)
       \/ EndpointInRouterShard(e) /\ RegisterMiss(Subscriber, k, e)
       \/ ~EndpointInRouterShard(e) /\ UNCHANGED vars
    /\ regTodo' = [regTodo EXCEPT !.uris = @ \ {k}]
    /\ UNCHANGED <<regQ, unregQ, unregTodo, running>>

ReceiveUnregister ==
    /\ unregTodo.uris = {}
    /\ unregQ # <<>>
    /\ unregTodo' = Decode(Head(unregQ))
    /\ unregQ' = Tail(unregQ)
    /\ UNCHANGED <<vars, regQ, regTodo, running>>

\* One iteration of SubscribeUnregister's loop: Unregister(uri, endpoint),
\* a no-op outside the shard or when the key has no pool.
UnregisterUri(k) ==
    LET e == unregTodo.ep IN
    /\ k \in unregTodo.uris
    /\ \/ Unregister(k, e)
       \/ ~(EndpointInRouterShard(e) /\ byURI[k] # NoPool) /\ UNCHANGED vars
    /\ unregTodo' = [unregTodo EXCEPT !.uris = @ \ {k}]
    /\ UNCHANGED <<regQ, unregQ, regTodo, running>>

-----------------------------------------------------------------------------
(* The backends and the bus (environment).                                 *)

\* A running backend publishes a register frame; published while the
\* router is disconnected, it never arrives.
Heartbeat(e, err) ==
    /\ e \in running
    /\ Len(regQ) < MaxQueue
    /\ regQ' = IF natsDown THEN regQ
               ELSE Append(regQ, [uris |-> AppUris[e], ep |-> e, err |-> err])
    /\ UNCHANGED <<vars, unregQ, regTodo, unregTodo, running>>

\* A backend stops: it publishes its unregister frame and no more frames.
StopBackend(e, err) ==
    /\ e \in running
    /\ Len(unregQ) < MaxQueue
    /\ unregQ' = IF natsDown THEN unregQ
                 ELSE Append(unregQ, [uris |-> AppUris[e], ep |-> e, err |-> err])
    /\ running' = running \ {e}
    /\ UNCHANGED <<vars, regQ, regTodo, unregTodo>>

\* At-most-once delivery: a frame in flight is lost.
LoseFrame ==
    /\ \/ \E i \in 1..Len(regQ) :
             regQ' = RemoveAt(regQ, i) /\ UNCHANGED unregQ
       \/ \E i \in 1..Len(unregQ) :
             unregQ' = RemoveAt(unregQ, i) /\ UNCHANGED regQ
    /\ UNCHANGED <<vars, regTodo, unregTodo, running>>

-----------------------------------------------------------------------------

CInit ==
    /\ Init
    /\ regQ = <<>>
    /\ unregQ = <<>>
    /\ regTodo = NoWork
    /\ unregTodo = NoWork
    /\ running = Announced

\* The registry's own steps: the rest of a Register call, pruning, the
\* clock and the NATS connection.
RegistryStep ==
    /\ \/ \E r \in Registrars : RegisterInsert(r) \/ RegisterPut(r)
       \/ PruneSuspended
       \/ PruneStale
       \/ Tick
       \/ NatsConnectionChange
    /\ UNCHANGED cvars

CNext ==
    \/ ReceiveRegister
    \/ \E k \in Keys : RegisterUri(k)
    \/ ReceiveUnregister
    \/ \E k \in Keys : UnregisterUri(k)
    \/ \E e \in Announced, err \in FrameErrors : Heartbeat(e, err) \/ StopBackend(e, err)
    \/ LoseFrame
    \/ RegistryStep

CSpec == CInit /\ [][CNext]_allvars

\* Each subscription goroutine handles a frame it has been handed.  The
\* pruning goroutine's ticker fires for as long as the process runs, and
\* the pruner's Lock() cannot be starved by readers (a waiting writer
\* blocks new RLock calls), so a tick that can run eventually runs; real
\* time always advances.  The backends, the bus and the NATS connection
\* get no fairness.
CLiveSpec ==
    /\ CInit
    /\ [][CNext \/ (TickShifted /\ UNCHANGED cvars)]_allvars
    /\ WF_allvars(ReceiveRegister)
    /\ WF_allvars(\E k \in Keys : RegisterUri(k))
    /\ WF_allvars(\E r \in Registrars : (RegisterInsert(r) \/ RegisterPut(r)) /\ UNCHANGED cvars)
    /\ WF_allvars(ReceiveUnregister)
    /\ WF_allvars(\E k \in Keys : UnregisterUri(k))
    /\ WF_allvars(PruneStale /\ UNCHANGED cvars)
    /\ WF_allvars((Tick \/ TickShifted) /\ UNCHANGED cvars)

-----------------------------------------------------------------------------
(* Properties                                                              *)

\* e is in a pool the table indexes: a Lookup can route to it.
Routed(e) == \E k \in Keys : byURI[k] # NoPool /\ e \in members[byURI[k]]

\* A backend that has stopped is eventually no longer routed to, whatever
\* happened to its frames: its unregister frame lost or handled before a
\* register frame still in flight (the two subjects are not ordered), a
\* frame with a bad port unregistering another endpoint.  Pruning is the
\* fallback; it is suspended while NATS is down.
StoppedBackendUnrouted ==
    \A e \in Announced :
        (e \notin running /\ ~natsDown) ~> (~Routed(e) \/ natsDown)

\* Only endpoints that a backend announced, and that belong to this
\* router's shard, are routed to: a frame the callback could not decode,
\* or one for another shard, adds no route.
OnlyAnnouncedRouted ==
    \A e \in Endpoints : Routed(e) => e \in Announced /\ Abstract!Admitted(e)

=============================================================================
