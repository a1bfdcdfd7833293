----------------------------- MODULE RouteMatch -----------------------------
(***************************************************************************)
(* Route matching: RouteRegistry.lookup (src/registry/registry.go) looks  *)
(* the request's route key up with the trie's longest-prefix MatchUri      *)
(* and, while nothing matches, retries with Uri.NextWildcard.  The trie    *)
(* and NextWildcard are not in src/ and follow the specification: a host  *)
(* is a sequence of labels, a route host may start with the label "*",    *)
(* and NextWildcard drops a leading "*", then the leftmost label, and     *)
(* puts "*" in front, until a single label is left.                       *)
(*                                                                         *)
(* The state is the set of route keys that have a pool; Register of a new *)
(* key and the removal of a key change it.  The check is that, for every  *)
(* table reached and every request uri, lookup returns the route the      *)
(* specification defines declaratively: the most specific host, then the  *)
(* longest context path.                                                   *)
(***************************************************************************)
EXTENDS Integers, Sequences, FiniteSets

CONSTANTS
    RouteKeys,   \* route keys that may be registered: [host : Seq, path : Seq]
    Requests     \* request uris (normalised): [host : Seq, path : Seq]

Wild == "*"

NoRoute == [host |-> <<>>, path |-> <<>>]

VARIABLE routed   \* route keys whose trie node holds a pool

TypeOK == routed \subseteq RouteKeys

-----------------------------------------------------------------------------

\* Trie.MatchUri: under the uri's host, the longest prefix of its path
\* that is a route.
MatchUri(u) ==
    LET lens == {n \in 0..Len(u.path) :
                   [host |-> u.host, path |-> SubSeq(u.path, 1, n)] \in routed}
    IN IF lens = {} THEN NoRoute
       ELSE LET n == CHOOSE m \in lens : \A l \in lens : l <= m
            IN [host |-> u.host, path |-> SubSeq(u.path, 1, n)]

\* Uri.NextWildcard: the next coarser wildcard host, or NoRoute once no
\* dot is left ("no next wildcard available").
NextWildcard(u) ==
    LET h == IF u.host # <<>> /\ Head(u.host) = Wild THEN Tail(u.host) ELSE u.host
    IN IF Len(h) < 2 THEN NoRoute
       ELSE [u EXCEPT !.host = <<Wild>> \o Tail(h)]

\* Mutation: lookup without the wildcard loop.
LookupNoFallback(u) == MatchUri(u)

\* lookup: pool := MatchUri(uri); for pool == nil && err == nil { uri, err =
\* uri.NextWildcard(); pool = MatchUri(uri) }.
RECURSIVE Lookup(_)
Lookup(u) ==
    LET m == MatchUri(u) IN
    IF m # NoRoute THEN m
    ELSE LET w == NextWildcard(u) IN
         IF w = NoRoute THEN NoRoute ELSE Lookup(w)

-----------------------------------------------------------------------------
(* The table changes: a Register call for a key without a pool creates   *)
(* one (insertRouteKey); unregister or a prune tick deletes a key's pool. *)

InsertRoute(k) ==
    /\ k \notin routed
    /\ routed' = routed \cup {k}

DeleteRoute(k) ==
    /\ k \in routed
    /\ routed' = routed \ {k}

Init == routed = {}

Next == \E k \in RouteKeys : InsertRoute(k) \/ DeleteRoute(k)

Spec == Init /\ [][Next]_routed

-----------------------------------------------------------------------------
(* The reference.                                                          *)

IsPrefix(s, t) == Len(s) <= Len(t) /\ SubSeq(t, 1, Len(s)) = s

\* How specifically a route host matches a request host: the exact host
\* beats every wildcard, and "*.b.c" beats "*.c"; 0 for no match.
HostRank(rh, h) ==
    IF rh = h THEN Len(h) + 1
    ELSE IF rh # <<>> /\ Head(rh) = Wild /\ 1 <= Len(rh) - 1 /\ Len(rh) - 1 < Len(h)
            /\ Tail(rh) = SubSeq(h, Len(h) - Len(rh) + 2, Len(h))
         THEN Len(rh) - 1
         ELSE 0

\* Lookup returns the route matching the request with the most specific
\* host and, under that host, the longest context path that is a prefix of
\* the request's path; none when no route matches.  This is what a client
\* sees: a wildcard route never takes a request that an exact route of its
\* host would serve, whatever its path.
LookupAgreesWithReference ==
    \A u \in Requests :
        LET cands == {k \in routed : HostRank(k.host, u.host) > 0 /\ IsPrefix(k.path, u.path)}
            better(a, b) == \/ HostRank(a.host, u.host) > HostRank(b.host, u.host)
                            \/ /\ HostRank(a.host, u.host) = HostRank(b.host, u.host)
                               /\ Len(a.path) > Len(b.path)
        IN IF cands = {} THEN Lookup(u) = NoRoute
           ELSE /\ Lookup(u) \in cands
                /\ ~\E k \in cands : better(k, Lookup(u))

=============================================================================
