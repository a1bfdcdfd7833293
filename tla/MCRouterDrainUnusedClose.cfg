\* A client closes a connection before sending a byte: activeConns wraps below zero.
CONSTANTS
    c1 = c1
    c2 = c2
    c3 = c3
    Conns <- MCConns
    CounterWidth = 2
    ClientsMayCloseUnused = TRUE
SYMMETRY MCSymmetry
SPECIFICATION Spec
CHECK_DEADLOCK FALSE
PROPERTY DrainedOnlyWhenCounted
