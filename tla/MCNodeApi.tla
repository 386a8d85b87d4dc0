------------------------------ MODULE MCNodeApi ------------------------------
(***************************************************************************)
(* NodeApi for TLC: requests are interchangeable.                          *)
(***************************************************************************)
EXTENDS NodeApi, TLC

Symmetry == Permutations(Requests)

=============================================================================
