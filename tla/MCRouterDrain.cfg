\* Connections that always send a request: bookkeeping, drain decision and wake-up.
CONSTANTS
    c1 = c1
    c2 = c2
    c3 = c3
    Conns <- MCConns
    CounterWidth = 2
    ClientsMayCloseUnused = FALSE
SYMMETRY MCSymmetry
SPECIFICATION Spec
CHECK_DEADLOCK FALSE
INVARIANT ActiveConnsCounted
INVARIANT DrainSignalledWhenQuiet
INVARIANT IdleClosedAfterShutdown
PROPERTY DrainedOnlyWhenCounted
