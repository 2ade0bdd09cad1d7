------------------------------- MODULE Results -------------------------------
(***************************************************************************)
(* Result, in its two versions (domain/common/result.ts and application/   *)
(* result.ts): a chain of calls on one Result, as use cases write them.    *)
(* What the callbacks return is the environment's; one that throws ends    *)
(* the chain with its exception, which no call of Result catches.          *)
(***************************************************************************)
EXTENDS Naturals, Sequences

CONSTANTS
    Val,            \* values
    Err,            \* errors
    MaxCalls        \* bound: calls in a chain

ASSUME ResultsAssumption == MaxCalls \in Nat

VARIABLES
    chain,          \* the calls made, each with what its callback would return
    past,           \* the Results they were made on, and the last one
    ran             \* positions in chain of the calls whose callback ran

resultVars == <<chain, past, ran>>

Ok(v) == [ok |-> TRUE, is |-> v]
Failed(e) == [ok |-> FALSE, is |-> e]
Result == [ok : {TRUE}, is : Val] \cup [ok : {FALSE}, is : Err]

\* What the callback of each call gives: one Result, or none if it is a predicate
\* that holds, or a tap, whose result nobody looks at.
Calls ==
    [name : {"map"}, gives : {{Ok(v)} : v \in Val}] \cup
    [name : {"flatMap"}, gives : {{r} : r \in Result}] \cup
    [name : {"mapError"}, gives : {{Failed(e)} : e \in Err}] \cup
    [name : {"filter"}, gives : {{Failed(e)} : e \in Err} \cup {{}}] \cup
    [name : {"tap", "tapError"}, gives : {{}}]

ResultsTypeOK ==
    /\ chain \in Seq(Calls)
    /\ past \in Seq(Result)
    /\ Len(past) = Len(chain) + 1
    /\ ran \subseteq DOMAIN chain

\* ok, fail, fromNullable and try make the first Result.
ResultsInit ==
    /\ chain = <<>>
    /\ \E r \in Result : past = <<r>>
    /\ ran = {}

Res == past[Len(past)]

\* Mutant: filter asks its predicate whatever the Result is.
CallsBackFilter(name, r) ==
    IF name \in {"mapError", "tapError"} THEN ~r.ok ELSE r.ok \/ name = "filter"

\* map, flatMap, filter and tap call back on a success, mapError and tapError
\* on a failure.
CallsBack(name, r) ==
    IF name \in {"mapError", "tapError"} THEN ~r.ok ELSE r.ok

\* The Result a call returns.
After(call, r) ==
    IF CallsBack(call.name, r) /\ call.gives # {} THEN CHOOSE s \in call.gives : TRUE ELSE r

CallResult(call) ==
    /\ Len(chain) < MaxCalls
    /\ chain' = Append(chain, call)
    /\ past' = Append(past, After(call, Res))
    /\ ran' = IF CallsBack(call.name, Res) THEN ran \cup {Len(chain) + 1} ELSE ran

ResultsNext == \E call \in Calls : CallResult(call)

ResultsSpec == ResultsInit /\ [][ResultsNext]_resultVars

\* combine of the application layer: the first failure or all values.
Combine(rs) ==
    LET failed == {i \in 1..Len(rs) : ~rs[i].ok}
    IN IF failed = {}
       THEN Ok([i \in 1..Len(rs) |-> rs[i].is])
       ELSE Failed(rs[CHOOSE i \in failed : \A j \in failed : i <= j].is)

-----------------------------------------------------------------------------
\* The errors that came into a chain, and where: the first Result, or what a
\* flatMap or a filter gave.
Entering ==
    (IF past[1].ok THEN {} ELSE {0}) \cup
    {i \in DOMAIN chain : /\ chain[i].name \in {"flatMap", "filter"}
                          /\ \E r \in chain[i].gives : ~r.ok}

Came(first) == IF first = 0 THEN {past[1]} ELSE chain[first].gives

\* The mapErrors behind it.
Renamings(first) == {i \in DOMAIN chain : i > first /\ chain[i].name = "mapError"}

\* Behind the first failure only the callbacks for an error run.
OnlyErrorCallbacks(first) ==
    \A i \in DOMAIN chain :
        i > first => (i \in ran <=> chain[i].name \in {"mapError", "tapError"})

\* A chain fails exactly if an error came into it, and then with the first one,
\* as the mapErrors behind it have renamed it: no later failure takes its
\* place and no callback for a value runs behind it (map, flatMap, filter, tap
\* of both versions).  combine() of its Results says the same, with the error
\* as it came in.
FirstFailureStands ==
    IF Entering = {} THEN Res.ok /\ Combine(past).ok
    ELSE LET first == CHOOSE i \in Entering : \A j \in Entering : i <= j
             renamed == Renamings(first)
             last == CHOOSE i \in renamed : \A j \in renamed : j <= i
         IN /\ {Res} = IF renamed = {} THEN Came(first) ELSE chain[last].gives
            /\ {Combine(past)} = Came(first)
            /\ OnlyErrorCallbacks(first)

\* What the Results of a chain have been since its first failure.
FailedSince(first) ==
    /\ \A i \in DOMAIN past : past[i].ok <=> i <= first
    /\ Came(first) = {past[first + 1]}
    /\ Renamings(first) = {} => Res = past[first + 1]
    /\ Renamings(first) # {} =>
        \E last \in Renamings(first) :
            (\A j \in Renamings(first) : j <= last) /\ {Res} = chain[last].gives
    /\ OnlyErrorCallbacks(first)

\* The inductive invariant: of every Result so far, not of the last one alone.
ResultsIInv ==
    /\ ResultsTypeOK
    /\ Entering = {} => \A i \in DOMAIN past : past[i].ok
    /\ Entering # {} =>
        \E first \in Entering : (\A j \in Entering : first <= j) /\ FailedSince(first)

=============================================================================
