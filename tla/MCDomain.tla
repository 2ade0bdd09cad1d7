------------------------------ MODULE MCDomain ------------------------------
(* UserAggregate, the use cases, Result and pagination, one of them in     *)
(* each behaviour: they share no state.                                    *)
EXTENDS UserAggregate, UseCases, Results, Paging, TLC

VARIABLE part

vars == <<aggregateVars, useCaseVars, resultVars, pagingVars, part>>

MCInit ==
    /\ part \in {"aggregate", "use cases", "results", "paging"}
    /\ AggregateInit /\ UseCaseInit /\ ResultsInit /\ PagingInit
    \* A part that does not run starts in one way only.
    /\ part # "aggregate" => user.email = CHOOSE address \in Address : TRUE
    /\ part # "results" => Res = Ok(CHOOSE v \in Val : TRUE)
    /\ part # "paging" => limit = MaxLimit

MCNext ==
    \/ /\ part = "aggregate" /\ AggregateNext
       /\ UNCHANGED <<useCaseVars, resultVars, pagingVars, part>>
    \/ /\ part = "use cases" /\ UseCaseNext
       /\ UNCHANGED <<aggregateVars, resultVars, pagingVars, part>>
    \/ /\ part = "results" /\ ResultsNext
       /\ UNCHANGED <<aggregateVars, useCaseVars, pagingVars, part>>
    \/ /\ part = "paging" /\ PagingNext
       /\ UNCHANGED <<aggregateVars, useCaseVars, resultVars, part>>

MCSpec == MCInit /\ [][MCNext]_vars

TypeOK == AggregateTypeOK /\ UseCaseTypeOK /\ ResultsTypeOK /\ PagingTypeOK

CONSTANTS a, b, c, d, e

MCAlready == <<a, b, c>>

MCSymmetry == Permutations(Call) \cup Permutations(Token)
=============================================================================
