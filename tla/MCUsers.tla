------------------------------ MODULE MCUsers ------------------------------
(***************************************************************************)
(* Users with its ids, addresses and calls taken as interchangeable.       *)
(***************************************************************************)
EXTENDS Users, TLC

Symmetry == Permutations(Id) \cup Permutations(Email) \cup Permutations(Editor)
=============================================================================
