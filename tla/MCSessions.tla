----------------------------- MODULE MCSessions -----------------------------
(***************************************************************************)
(* Sessions, and the roles of Organizations, one of them in each           *)
(* behaviour: they share no state.  Sessions and requests are              *)
(* interchangeable.                                                        *)
(***************************************************************************)
EXTENDS Sessions, Organizations, TLC

CONSTANT m1
VARIABLE part

allVars == <<vars, organizationVars, part>>

MCInit ==
    /\ part \in {"sessions", "roles"}
    /\ Init /\ OrganizationInit
    \* m1 founded the organization; the part that does not run starts in one way.
    /\ IF part = "roles"
       THEN m1 \in enrolled /\ memberRole[m1] = "owner"
       ELSE enrolled = {} /\ memberRole = [u \in Uid |-> "none"]

MCNext ==
    \/ part = "sessions" /\ Next /\ UNCHANGED <<organizationVars, part>>
    \/ part = "roles" /\ OrganizationNext /\ UNCHANGED <<vars, part>>

MCSpec == MCInit /\ [][MCNext]_allVars

Symmetry ==
    Permutations(Session) \cup Permutations(Request) \cup Permutations(User)
=============================================================================
