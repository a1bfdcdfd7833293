---------------------------- MODULE MCPipeline -----------------------------
(***************************************************************************)
(* Two clients against the route a.b.c/ of an application with two       *)
(* instances of one process (e1 index 0, e2 index 1), while the table     *)
(* also gains and loses the routes a.b.c/p, *.b.c/p and *.c/, whose pools *)
(* stay empty.  Client c1 sends a plain request for a.b.c/p/q (found via  *)
(* the longest prefix), with a body, or one that names process P index 0 together with  *)
(* app A index 1; c2 names app A index 0, process P with no index, sends  *)
(* a malformed app header, or has no Host.  One connection per backend    *)
(* and two attempts per request.                                          *)
(***************************************************************************)
EXTENDS Pipeline, TLC

CONSTANTS e1, e2, c1, c2

Root == <<>>

ABC == <<"a", "b", "c">>

MCRouteKeys ==
    {[host |-> ABC, path |-> Root], [host |-> ABC, path |-> <<"p">>],
     [host |-> <<Wild, "b", "c">>, path |-> <<"p">>], [host |-> <<Wild, "c">>, path |-> Root]}

MCRequests ==
    [host : {ABC, <<"x", "b", "c">>, <<"b", "c">>, <<"c">>},
     path : {Root, <<"p">>, <<"q">>, <<"p", "q">>}]

MCAppRoute == [host |-> ABC, path |-> Root]

MCApplicationId == [e \in {e1, e2} |-> "A"]
MCPrivateInstanceIndex == (e1 :> "0" @@ e2 :> "1")
MCProcessId == [e \in {e1, e2} |-> "P"]

NoHdr == [kind |-> "none", id |-> "", idx |-> ""]

Hdr(i, x) == [kind |-> "ok", id |-> i, idx |-> x]

Req(path, empty, app, proc) ==
    [uri |-> [host |-> ABC, path |-> path], emptyHost |-> empty, app |-> app, proc |-> proc,
     body |-> FALSE]

MCClientRequests ==
    (c1 :> {[Req(<<"p", "q">>, FALSE, NoHdr, NoHdr) EXCEPT !.body = TRUE],
            Req(Root, FALSE, Hdr("A", "1"), Hdr("P", "0"))})
    @@ (c2 :> {Req(Root, FALSE, Hdr("A", "0"), NoHdr),
               Req(Root, FALSE, NoHdr, Hdr("P", "")),
               Req(Root, FALSE, [NoHdr EXCEPT !.kind = "bad"], NoHdr),
               Req(Root, TRUE, NoHdr, NoHdr)})

=============================================================================
