---------------------------- MODULE MCRouterDrain ----------------------------
(* Model-checking instance of RouterDrain: three connections, which is     *)
(* enough for one to be idle, one active and one not yet read when Drain   *)
(* starts.  activeConns is a uint32; the model keeps the wrap-around but   *)
(* with width 2, which holds every count three connections can reach and   *)
(* wraps on a decrement of 0 exactly as 32 bits do.                        *)
EXTENDS RouterDrain, TLC

CONSTANTS c1, c2, c3

MCConns == {c1, c2, c3}

MCSymmetry == Permutations(MCConns)
=============================================================================
