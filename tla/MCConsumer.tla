----------------------------- MODULE MCConsumer -----------------------------
(* Model-checking instance of Consumer: one route key; backend e1 in the  *)
(* shared segment and e2 in a segment this router does not serve; e1z and *)
(* e2z are the endpoints a frame with a bad port turns them into; the     *)
(* register subscription is the only registrar.                           *)
EXTENDS Consumer, TLC

CONSTANTS k1, e1, e1z, e2, e2z, r1, p1, p2

MCEndpoints == {e1, e1z, e2, e2z}
MCAnnounced == {e1, e2}
\* Without e2, for the liveness run.
MCEndpointsOne == {e1, e1z}
MCAnnouncedOne == {e1}
MCAppUris == [e \in Announced |-> {k1}]
MCPortZeroed == [e \in Announced |-> IF e = e1 THEN e1z ELSE e2z]

\* e1's frames ask for a stale threshold above the default, which register
\* clamps.  A bad port leaves the other fields as they were.
MCEndpointSegment == [e \in Endpoints |-> IF e \in {e1, e1z} THEN "" ELSE "other"]
MCRequestedStaleThreshold == [e \in Endpoints |-> 5]
MCApplicationId == [e \in Endpoints |-> "app"]
MCPrivateInstanceIndex == [e \in Endpoints |-> IF e \in {e1, e1z} THEN "0" ELSE "1"]
MCProcessId == [e \in Endpoints |-> "proc"]

\* The history variables (heard, registered, lastPrune), the time of last
\* update and the time a registrar took for it never enable or disable a
\* step; states that differ only in them are merged.
MCView == <<now, byURI, members, updated, lastUpdated, pruningStatus, natsDown,
            [r \in Registrars |-> [reg[r] EXCEPT !.t = 0]], cvars>>

\* For properties about heartbeats, heard is kept.
MCLiveView == <<MCView, heard>>
=============================================================================
