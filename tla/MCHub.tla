-------------------------------- MODULE MCHub --------------------------------
(***************************************************************************)
(* Hub for TLC: connections are interchangeable.                          *)
(***************************************************************************)
EXTENDS Hub, TLC

Symmetry == Permutations(Conns)

=============================================================================
