------------------------------- MODULE MCVault -------------------------------
(***************************************************************************)
(* Vault for TLC: calls are interchangeable.  Blocks are of three bytes;   *)
(* the longer payload fills a block and starts another, and has bytes that *)
(* are also values of the padding.                                         *)
(***************************************************************************)
EXTENDS Vault, TLC

UploadValues ==
    {[payload |-> <<2>>, metaLength |-> 2], [payload |-> <<2, 1, 1>>, metaLength |-> 1]}

Symmetry == Permutations(Calls)

=============================================================================
