---------------------------- MODULE MCNodeManager ----------------------------
(***************************************************************************)
(* NodeManager for TLC: requests as model values, interchangeable.         *)
(***************************************************************************)
EXTENDS NodeManager, TLC

Symmetry == Permutations(Requests)

\* RemovalReturns of one request, which stands for them all: nothing in the
\* specification tells one request from another.
RemoveReturns == RemovalReturns(CHOOSE r \in Requests : TRUE)

=============================================================================
