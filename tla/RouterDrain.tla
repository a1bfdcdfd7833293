----------------------------- MODULE RouterDrain -----------------------------
(***************************************************************************)
(* Connection tracking and graceful drain of src/router/router.go.        *)
(*                                                                         *)
(* The http.Server calls the ConnState callback of Router.Run on every    *)
(* state change of every connection; the callback keeps activeConns (a    *)
(* uint32) and the idleConns set under connLock.  Drain and Stop close the *)
(* listener, then, under connLock, set closeConnections and close every    *)
(* idle connection; Drain then waits until a callback sees activeConns = 0 *)
(* or its timeout fires.                                                   *)
(*                                                                         *)
(* The server's side is the environment: it moves each connection along   *)
(* net/http's state machine (StateNew, then StateActive or StateClosed;    *)
(* StateActive to StateIdle, StateHijacked or StateClosed; StateIdle to    *)
(* StateActive or StateClosed).  net/http first makes the move (reads the  *)
(* request, writes the response, ...) and then calls the callback on the  *)
(* connection's goroutine; the callback takes connLock itself, so it may  *)
(* wait while Drain or Stop holds it.  The connection makes no further    *)
(* move until its callback has returned.                                   *)
(***************************************************************************)
EXTENDS Integers, FiniteSets

CONSTANTS
    Conns,                  \* connections the listener may accept
    CounterWidth,           \* width of activeConns (uint32 in the code)
    ClientsMayCloseUnused   \* a client may close a connection before sending
                            \* any byte (StateNew -> StateClosed)

ASSUME
    /\ CounterWidth \in Nat \ {0}
    /\ ClientsMayCloseUnused \in BOOLEAN

CounterModulus == 2 ^ CounterWidth

\* What net/http reports of a connection; "unborn" is not yet accepted.
ConnStates == {"unborn", "new", "active", "idle", "hijacked", "closed"}

\* The moves net/http makes on its own: accept, read a request, finish the
\* response and keep the connection alive, hand it to a hijacker, close it.
ServerMoves ==
    {<<"unborn", "new">>, <<"new", "active">>, <<"idle", "active">>,
     <<"active", "idle">>, <<"active", "hijacked">>, <<"active", "closed">>,
     <<"idle", "closed">>}
    \cup (IF ClientsMayCloseUnused THEN {<<"new", "closed">>} ELSE {})

VARIABLES
    state,             \* [Conns -> ConnStates]: where net/http is
    hooked,            \* [Conns -> ConnStates]: the state the callback last ran for
    sockClosed,        \* connections whose socket the router has closed
    activeConns,       \* r.activeConns
    idleConns,         \* r.idleConns
    closeConnections,  \* r.closeConnections
    listening,         \* the listener is open and Serve accepts
    drainDone,         \* r.drainDone != nil
    drained,           \* Drain's `drained` channel is closed
    sd                 \* the shutdown goroutine: where Drain / Stop is

vars == <<state, hooked, sockClosed, activeConns, idleConns, closeConnections,
          listening, drainDone, drained, sd>>
router == <<sockClosed, activeConns, idleConns, closeConnections, listening,
            drainDone, drained, sd>>

TypeOK ==
    /\ state \in [Conns -> ConnStates]
    /\ hooked \in [Conns -> ConnStates]
    /\ sockClosed \subseteq Conns
    /\ activeConns \in 0..(CounterModulus - 1)
    /\ idleConns \subseteq Conns
    /\ closeConnections \in BOOLEAN
    /\ listening \in BOOLEAN
    /\ drainDone \in BOOLEAN
    /\ drained \in BOOLEAN
    /\ sd \in {"running", "draining", "waiting", "drained", "timedout", "stopped"}

\* The callback for the connection's last move has not run yet.
HookPending(c) == hooked[c] # state[c]

-----------------------------------------------------------------------------
(* net/http                                                                *)

\* Serve runs the StateNew callback on its own goroutine before it accepts
\* again: it is back in Accept (or has returned, closing r.serveDone) only
\* when no accepted connection waits for that callback.
ServeInAccept == \A c \in Conns : ~(state[c] = "new" /\ HookPending(c))

\* A move of the connection's goroutine (of Serve's, for the accept).  A
\* request is read only from a socket the router has not closed.
ServerMove(c, to) ==
    /\ ~HookPending(c)
    /\ <<state[c], to>> \in ServerMoves
    /\ to = "new" => listening /\ ServeInAccept
    /\ to = "active" => c \notin sockClosed
    /\ state' = [state EXCEPT ![c] = to]
    /\ UNCHANGED <<hooked, router>>

-----------------------------------------------------------------------------
(* The ConnState callback, one step under connLock, for the move net/http *)
(* has just made.                                                          *)

\* Mutation: the callback never releases a waiting Drain.
SignalDrainNever(count) == UNCHANGED <<drainDone, drained>>

\* The tail of the callback: a drain waiting for activeConns to reach 0 is
\* released, and r.drainDone reset.
SignalDrain(count) ==
    IF drainDone /\ count = 0
    THEN drainDone' = FALSE /\ drained' = TRUE
    ELSE UNCHANGED <<drainDone, drained>>

\* The callback has run for the connection's current state.
Hooked(c) == hooked' = [hooked EXCEPT ![c] = state[c]]

\* http.StateNew: no case of the switch matches.
ConnNew(c) ==
    /\ HookPending(c) /\ state[c] = "new"
    /\ Hooked(c)
    /\ SignalDrain(activeConns)
    /\ UNCHANGED <<state, sockClosed, activeConns, idleConns, closeConnections,
                   listening, sd>>

\* http.StateActive: a request has been read.
ConnActive(c) ==
    LET count == (activeConns + 1) % CounterModulus IN
    /\ HookPending(c) /\ state[c] = "active"
    /\ Hooked(c)
    /\ activeConns' = count
    /\ idleConns' = idleConns \ {c}
    /\ SignalDrain(count)
    /\ UNCHANGED <<state, sockClosed, closeConnections, listening, sd>>

\* Mutation: StateIdle ignores closeConnections.
ConnIdleNoClose(c) ==
    LET count == (activeConns - 1) % CounterModulus IN
    /\ HookPending(c) /\ state[c] = "idle"
    /\ Hooked(c)
    /\ activeConns' = count
    /\ idleConns' = idleConns \cup {c}
    /\ SignalDrain(count)
    /\ UNCHANGED <<state, sockClosed, closeConnections, listening, sd>>

\* http.StateIdle: the response is written, the connection kept alive; once
\* the router is shutting down it closes the connection at once.
ConnIdle(c) ==
    LET count == (activeConns - 1) % CounterModulus IN
    /\ HookPending(c) /\ state[c] = "idle"
    /\ Hooked(c)
    /\ activeConns' = count
    /\ idleConns' = idleConns \cup {c}
    /\ sockClosed' = IF closeConnections THEN sockClosed \cup {c} ELSE sockClosed
    /\ SignalDrain(count)
    /\ UNCHANGED <<state, closeConnections, listening, sd>>

\* Mutation: the shared case decrements activeConns without asking whether
\* the connection was idle.
ConnGoneAlwaysDecrement(c) ==
    LET count == (activeConns - 1) % CounterModulus IN
    /\ HookPending(c) /\ state[c] \in {"hijacked", "closed"}
    /\ Hooked(c)
    /\ idleConns' = idleConns \ {c}
    /\ activeConns' = count
    /\ SignalDrain(count)
    /\ UNCHANGED <<state, sockClosed, closeConnections, listening, sd>>

\* http.StateHijacked and http.StateClosed share one case: the connection
\* leaves idleConns, and activeConns is decremented when it was not there.
ConnGone(c) ==
    LET count == IF c \in idleConns THEN activeConns
                 ELSE (activeConns - 1) % CounterModulus
    IN
    /\ HookPending(c) /\ state[c] \in {"hijacked", "closed"}
    /\ Hooked(c)
    /\ idleConns' = idleConns \ {c}
    /\ activeConns' = count
    /\ SignalDrain(count)
    /\ UNCHANGED <<state, sockClosed, closeConnections, listening, sd>>

-----------------------------------------------------------------------------
(* Drain and Stop.                                                         *)

\* r.close(), with connLock held.
CloseIdle ==
    /\ closeConnections' = TRUE
    /\ sockClosed' = sockClosed \cup idleConns

\* Drain: listener.Close(), then <-r.serveDone: no accept happens after.
DrainStopAccepting ==
    /\ sd = "running"
    /\ ServeInAccept
    /\ listening' = FALSE
    /\ sd' = "draining"
    /\ UNCHANGED <<state, hooked, sockClosed, activeConns, idleConns,
                   closeConnections, drainDone, drained>>

\* Mutation: Drain closes `drained` without looking at activeConns.
DrainCloseNoCheck ==
    /\ sd = "draining"
    /\ CloseIdle
    /\ drained' = TRUE
    /\ UNCHANGED drainDone
    /\ sd' = "waiting"
    /\ UNCHANGED <<state, hooked, activeConns, idleConns, listening>>

\* Drain, under connLock: close idle connections, then either close
\* `drained` at once or leave it in r.drainDone for the callback.
DrainClose ==
    /\ sd = "draining"
    /\ CloseIdle
    /\ IF activeConns = 0
       THEN drained' = TRUE /\ UNCHANGED drainDone
       ELSE drainDone' = TRUE /\ UNCHANGED drained
    /\ sd' = "waiting"
    /\ UNCHANGED <<state, hooked, activeConns, idleConns, listening>>

\* Drain's select: `drained` is closed, Drain returns nil.
DrainReturn ==
    /\ sd = "waiting"
    /\ drained
    /\ sd' = "drained"
    /\ UNCHANGED <<state, hooked, sockClosed, activeConns, idleConns,
                   closeConnections, listening, drainDone, drained>>

\* Drain's select: time.After(drainTimeout) fires first, DrainTimeout.
DrainTimedOut ==
    /\ sd = "waiting"
    /\ sd' = "timedout"
    /\ UNCHANGED <<state, hooked, sockClosed, activeConns, idleConns,
                   closeConnections, listening, drainDone, drained>>

\* Stop: close the listener, wait for Serve, close idle connections.
Stop ==
    /\ sd = "running"
    /\ ServeInAccept
    /\ listening' = FALSE
    /\ CloseIdle
    /\ sd' = "stopped"
    /\ UNCHANGED <<state, hooked, activeConns, idleConns, drainDone, drained>>

-----------------------------------------------------------------------------

Init ==
    /\ state = [c \in Conns |-> "unborn"]
    /\ hooked = [c \in Conns |-> "unborn"]
    /\ sockClosed = {}
    /\ activeConns = 0
    /\ idleConns = {}
    /\ closeConnections = FALSE
    /\ listening = TRUE
    /\ drainDone = FALSE
    /\ drained = FALSE
    /\ sd = "running"

Next ==
    \/ \E c \in Conns, to \in ConnStates : ServerMove(c, to)
    \/ \E c \in Conns :
          \/ ConnNew(c)
          \/ ConnActive(c)
          \/ ConnIdle(c)
          \/ ConnGone(c)
    \/ DrainStopAccepting
    \/ DrainClose
    \/ DrainReturn
    \/ DrainTimedOut
    \/ Stop

Spec == Init /\ [][Next]_vars

-----------------------------------------------------------------------------
(* Properties                                                              *)

\* The callback's bookkeeping matches the moves it has been told of:
\* activeConns is the number of connections whose last callback was
\* StateActive, idleConns the set of those whose last was StateIdle.
\* Drain's decision and r.close() read nothing else.
ActiveConnsCounted ==
    /\ activeConns = Cardinality({c \in Conns : hooked[c] = "active"})
    /\ idleConns = {c \in Conns : hooked[c] = "idle"}

\* Once shutdown has begun no connection is left idle and open: those idle
\* when r.close() ran are closed by it, those that go idle later by the
\* StateIdle case, so a keep-alive client cannot hold the router.
IdleClosedAfterShutdown ==
    closeConnections => idleConns \subseteq sockClosed

\* No lost wake-up: once Drain waits and the callbacks have seen every
\* request end, the `drained` channel is already closed.
DrainSignalledWhenQuiet ==
    sd = "waiting" /\ (\A c \in Conns : hooked[c] # "active") => drained

\* Drain's `drained` channel is closed (by Drain itself or by the callback)
\* only when no request is in progress as far as the callbacks have told
\* the router: Drain's decision is right about what it has been told.
DrainedOnlyWhenCounted ==
    [][~drained /\ drained' => \A c \in Conns : hooked'[c] # "active"]_vars

\* Drain's `drained` channel is closed only at a moment when net/http has
\* no request in progress: Drain waits for the requests it may cut.
DrainedOnlyWhenQuiet ==
    [][~drained /\ drained' => \A c \in Conns : state'[c] # "active"]_vars

\* Once Drain has returned nil the router serves no further request: no
\* connection becomes active afterwards (the process exits after Drain).
NoRequestAfterDrain ==
    [][sd = "drained" => \A c \in Conns : state'[c] = "active" => state[c] = "active"]_vars

=============================================================================
