-------------------------- MODULE CounterfeiterFake --------------------------
(***************************************************************************)
(* The counterfeiter test doubles (src/registry/fakes/fake_registry.go,   *)
(* src/metrics/fakes/fake_monitorreporter.go): every faked method has its *)
(* own sync.RWMutex guarding its recorded arguments, stub and canned      *)
(* results, and one invocationsMutex guards the map of all invocations.   *)
(*                                                                         *)
(* A faked call takes its method mutex, records the call and, still       *)
(* holding it, takes invocationsMutex in recordInvocation; Invocations()  *)
(* takes invocationsMutex for reading first and then every method mutex  *)
(* in declaration order.  Goroutines run scripts: the code under test     *)
(* calls the faked methods, the test configures the fake and inspects it.*)
(*                                                                         *)
(* Each lock acquisition is a step of its own wherever a goroutine can    *)
(* block holding another lock; a critical section that takes no further  *)
(* lock is one step.  RWMutex writer preference (a waiting Lock blocks   *)
(* new RLocks) is left out: it only adds blocking.                       *)
(***************************************************************************)
EXTENDS Integers, Sequences, TLC

CONSTANTS
    Methods,      \* the faked methods
    Returning,    \* those with a result (Lookup); the others are void (Register)
    MethodOrder,  \* the order in which Invocations() takes the method mutexes
    Goroutines,
    Script,       \* [Goroutines -> Seq(Ops)]: the fake calls each goroutine makes
    Args,         \* call arguments
    Values        \* canned results and stubs (a stub is the value it returns)

ASSUME /\ Returning \subseteq Methods
       /\ MethodOrder \in Seq(Methods)

InvocationsMutex == "invocationsMutex"
Mutexes == Methods \cup {InvocationsMutex}
Nobody == "nobody"
Nil == "nil"         \* a nil stub, and the zero result
Panicked == -1       \* step of a goroutine that panicked

VARIABLES
    writer,         \* [Mutexes -> Goroutines \cup {Nobody}]
    readers,        \* [Mutexes -> SUBSET Goroutines]
    argsForCall,    \* [Methods -> Seq(Args)]: fake.<m>ArgsForCall
    invocations,    \* [Methods -> Seq(Args)]: fake.invocations[<m>]
    stub,           \* [Methods -> Values \cup {Nil}]: fake.<M>Stub
    returns,        \* [Methods -> Values \cup {Nil}]: fake.<m>Returns
    returnsOnCall,  \* [Methods -> partial function Nat -> Values]
    ip,             \* [Goroutines -> Nat]: the script entry being run
    step,           \* [Goroutines -> Int]: the step within it
    result          \* [Goroutines -> ...]: what the last entry returned

vars == <<writer, readers, argsForCall, invocations, stub, returns,
          returnsOnCall, ip, step, result>>
fake == <<argsForCall, invocations, stub, returns, returnsOnCall>>

FTypeOK ==
    /\ writer \in [Mutexes -> Goroutines \cup {Nobody}]
    /\ readers \in [Mutexes -> SUBSET Goroutines]
    /\ argsForCall \in [Methods -> Seq(Args)]
    /\ invocations \in [Methods -> Seq(Args)]
    /\ stub \in [Methods -> Values \cup {Nil}]
    /\ ip \in [Goroutines -> Nat]

Op(g) == Script[g][ip[g]]
Running(g, kind) == ip[g] <= Len(Script[g]) /\ Op(g).op = kind /\ step[g] # Panicked
Done(g) == ip[g] > Len(Script[g])

Free(mu) == writer[mu] = Nobody /\ readers[mu] = {}
NoWriter(mu) == writer[mu] = Nobody

\* The goroutine goes on with its next script entry.
NextEntry(g, r) ==
    /\ ip' = [ip EXCEPT ![g] = @ + 1]
    /\ step' = [step EXCEPT ![g] = 0]
    /\ result' = [result EXCEPT ![g] = r]

-----------------------------------------------------------------------------
(* A faked call, e.g. Lookup(arg1) and Register(arg1, arg2).               *)

\* fake.<m>Mutex.Lock()
CallLock(g) ==
    LET m == Op(g).m IN
    /\ Running(g, "call") /\ step[g] = 0
    /\ Free(m)
    /\ writer' = [writer EXCEPT ![m] = g]
    /\ step' = [step EXCEPT ![g] = 1]
    /\ UNCHANGED <<readers, fake, ip, result>>

\* recordInvocation: under invocationsMutex for writing, append the call to
\* the method's entry of the invocations map.
RecordInvocation(m, a) ==
    /\ Free(InvocationsMutex)
    /\ invocations' = [invocations EXCEPT ![m] = Append(@, a)]

\* Under the method mutex: read returnsOnCall at the call's index, append
\* the arguments, copy the stub and the canned result, recordInvocation,
\* and release the method mutex.  Outside the locks a returning method calls the copied stub
\* or returns the copied result; a void method calls fake.<M>Stub afresh.
CallRecord(g) ==
    LET m == Op(g).m
        n == Len(argsForCall[m])
        r == IF stub[m] # Nil THEN stub[m]
             ELSE IF n \in DOMAIN returnsOnCall[m] THEN returnsOnCall[m][n]
             ELSE returns[m]
    IN
    /\ Running(g, "call") /\ step[g] = 1
    /\ argsForCall' = [argsForCall EXCEPT ![m] = Append(@, Op(g).a)]
    /\ RecordInvocation(m, Op(g).a)
    /\ writer' = [writer EXCEPT ![m] = Nobody]
    /\ IF m \in Returning \/ stub[m] = Nil
       THEN NextEntry(g, IF m \in Returning THEN r ELSE Nil)
       ELSE step' = [step EXCEPT ![g] = 2] /\ UNCHANGED <<ip, result>>
    /\ UNCHANGED <<readers, stub, returns, returnsOnCall>>

\* A void method's `fake.<M>Stub(arg1, ...)`: the field is read again,
\* without the lock, after the copy was found non-nil.
CallStub(g) ==
    /\ Running(g, "call") /\ step[g] = 2
    /\ IF stub[Op(g).m] = Nil
       THEN step' = [step EXCEPT ![g] = Panicked] /\ UNCHANGED <<ip, result>>
       ELSE NextEntry(g, Nil)
    /\ UNCHANGED <<writer, readers, fake>>

-----------------------------------------------------------------------------
(* The test configures the fake: <M>Returns, <M>ReturnsOnCall, <M>Calls,  *)
(* each under the method mutex for writing.                                *)

Returns(g) ==
    LET m == Op(g).m IN
    /\ Running(g, "returns") /\ m \in Returning
    /\ Free(m)
    /\ stub' = [stub EXCEPT ![m] = Nil]
    /\ returns' = [returns EXCEPT ![m] = Op(g).a]
    /\ NextEntry(g, Nil)
    /\ UNCHANGED <<writer, readers, argsForCall, invocations, returnsOnCall>>

ReturnsOnCall(g) ==
    LET m == Op(g).m IN
    /\ Running(g, "returnsOnCall") /\ m \in Returning
    /\ Free(m)
    /\ stub' = [stub EXCEPT ![m] = Nil]
    /\ returnsOnCall' = [returnsOnCall EXCEPT ![m] = (Op(g).i :> Op(g).a) @@ @]
    /\ NextEntry(g, Nil)
    /\ UNCHANGED <<writer, readers, argsForCall, invocations, returns>>

Calls(g) ==
    LET m == Op(g).m IN
    /\ Running(g, "calls")
    /\ Free(m)
    /\ stub' = [stub EXCEPT ![m] = Op(g).a]
    /\ NextEntry(g, Nil)
    /\ UNCHANGED <<writer, readers, argsForCall, invocations, returns, returnsOnCall>>

\* <M>CallCount and <M>ArgsForCall(i), under the method mutex for reading;
\* an index not yet recorded panics (index out of range).
CallCount(g) ==
    /\ Running(g, "callCount")
    /\ NoWriter(Op(g).m)
    /\ NextEntry(g, Len(argsForCall[Op(g).m]))
    /\ UNCHANGED <<writer, readers, fake>>

ArgsForCall(g) ==
    LET m == Op(g).m IN
    /\ Running(g, "argsForCall")
    /\ NoWriter(m)
    /\ IF Op(g).i < Len(argsForCall[m])
       THEN NextEntry(g, argsForCall[m][Op(g).i + 1])
       ELSE step' = [step EXCEPT ![g] = Panicked] /\ UNCHANGED <<ip, result>>
    /\ UNCHANGED <<writer, readers, fake>>

-----------------------------------------------------------------------------
(* Invocations(): RLock invocationsMutex, then RLock each method mutex in *)
(* order, copy the map, and release everything (the deferred RUnlocks).   *)

\* Step 0 takes invocationsMutex; step k takes MethodOrder[k].
InvocationsRLock(g) ==
    LET mu == IF step[g] = 0 THEN InvocationsMutex ELSE MethodOrder[step[g]] IN
    /\ Running(g, "invocations") /\ 0 <= step[g] /\ step[g] <= Len(MethodOrder)
    /\ NoWriter(mu)
    /\ readers' = [readers EXCEPT ![mu] = @ \cup {g}]
    /\ step' = [step EXCEPT ![g] = @ + 1]
    /\ UNCHANGED <<writer, fake, ip, result>>

InvocationsCopy(g) ==
    /\ Running(g, "invocations") /\ step[g] = Len(MethodOrder) + 1
    /\ readers' = [mu \in Mutexes |-> readers[mu] \ {g}]
    /\ NextEntry(g, invocations)
    /\ UNCHANGED <<writer, fake>>

-----------------------------------------------------------------------------

Init ==
    /\ writer = [mu \in Mutexes |-> Nobody]
    /\ readers = [mu \in Mutexes |-> {}]
    /\ argsForCall = [m \in Methods |-> <<>>]
    /\ invocations = [m \in Methods |-> <<>>]
    /\ stub = [m \in Methods |-> Nil]
    /\ returns = [m \in Methods |-> Nil]
    /\ returnsOnCall = [m \in Methods |-> <<>>]
    /\ ip = [g \in Goroutines |-> 1]
    /\ step = [g \in Goroutines |-> 0]
    /\ result = [g \in Goroutines |-> Nil]

Step(g) ==
    \/ CallLock(g) \/ CallRecord(g) \/ CallStub(g)
    \/ Returns(g) \/ ReturnsOnCall(g) \/ Calls(g)
    \/ CallCount(g) \/ ArgsForCall(g)
    \/ InvocationsRLock(g) \/ InvocationsCopy(g)

Next == \E g \in Goroutines : Step(g)

\* The Go scheduler runs every runnable goroutine, and a sync.RWMutex that
\* stays free is eventually acquired by a goroutine waiting for it.
FairSpec == Init /\ [][Next]_vars /\ \A g \in Goroutines : WF_vars(Step(g))

-----------------------------------------------------------------------------

\* Every script runs to its end: no call on the fake blocks forever (the
\* fake guards its state with mutexes so that the code under test may call
\* it from several goroutines while the test inspects it).
EveryCallReturns == \A g \in Goroutines : <>Done(g)

=============================================================================
