----------------------------- MODULE MCNodeTree ------------------------------
(***************************************************************************)
(* NodeTree for TLC: nodes and sessions are interchangeable.  A document   *)
(* names any parent, and brings the array that fits, or none.              *)
(***************************************************************************)
EXTENDS NodeTree, TLC

Anything == Nodes \cup {NoParent}

Blank == {<<>>}

Symmetry == Permutations(Nodes) \cup Permutations(Sessions)

=============================================================================
