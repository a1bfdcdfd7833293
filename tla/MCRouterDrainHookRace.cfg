\* A request read while Drain holds connLock: its callback waits, Drain sees activeConns = 0.
CONSTANTS
    c1 = c1
    c2 = c2
    c3 = c3
    Conns <- MCConns
    CounterWidth = 2
    ClientsMayCloseUnused = FALSE
SYMMETRY MCSymmetry
SPECIFICATION Spec
CHECK_DEADLOCK FALSE
PROPERTY DrainedOnlyWhenQuiet
