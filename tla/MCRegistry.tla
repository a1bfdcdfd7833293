----------------------------- MODULE MCRegistry -----------------------------
(* Model-checking instance of Registry: one route key, two endpoints (one  *)
(* in the shared segment, one in the router's isolation segment, with a    *)
(* requested stale threshold unset and one below the default), two         *)
(* concurrent registrars and three pool references, enough for each        *)
(* registrar to hold a pool the table no longer indexes.                  *)
EXTENDS Registry, TLC

CONSTANTS e1, e2, r1, r2, p1, p2, p3

MCEndpoints == {e1, e2}
MCRegistrars == {r1, r2}
MCPoolIds == {p1, p2, p3}

\* e1 is in the shared segment, e2 in the router's segment "is1".
MCEndpointSegment == (e1 :> "") @@ (e2 :> "is1")
MCIsolationSegments == {"is1"}

\* e1's frame leaves the threshold unset (0); e2 asks for 1 tick.
MCRequestedStaleThreshold == (e1 :> 0) @@ (e2 :> 1)

\* Both endpoints are index "0" of one app and one process: an old and a
\* new instance overlapping during a restart.
MCApplicationId == (e1 :> "app") @@ (e2 :> "app")
MCPrivateInstanceIndex == (e1 :> "0") @@ (e2 :> "0")
MCProcessId == (e1 :> "proc") @@ (e2 :> "proc")

\* Registrars and pool references are interchangeable.
MCSymmetry == Permutations(MCRegistrars) \cup Permutations(MCPoolIds)
MCPoolSymmetry == Permutations({p1, p2})
=============================================================================
