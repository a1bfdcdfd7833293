------------------------ MODULE MCCounterfeiterFake -------------------------
(* A handler under test calls Lookup and then Register on a FakeRegistry  *)
(* while the test goroutine sets canned results and a stub, counts calls *)
(* and reads Invocations(), the way a test of concurrent code uses it.   *)
EXTENDS CounterfeiterFake

CONSTANTS handler, test

Call(m, a) == [op |-> "call", m |-> m, a |-> a, i |-> 0]
Config(kind, m, a, i) == [op |-> kind, m |-> m, a |-> a, i |-> i]
Inspect(kind, m) == [op |-> kind, m |-> m, a |-> Nil, i |-> 0]

\* Invocations() locks the mutexes in the order the fields are declared.
MCMethodOrder == <<"Lookup", "Register">>

MCScript ==
    handler :> << Call("Lookup", "uri"), Call("Register", "uri") >>
 @@ test :> << Config("returns", "Lookup", "pool", 0),
               Config("returnsOnCall", "Lookup", "surgicalPool", 0),
               Config("calls", "Register", "stub", 0),
               Inspect("callCount", "Lookup"),
               Inspect("invocations", "Lookup") >>
=============================================================================
