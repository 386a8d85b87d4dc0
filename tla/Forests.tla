------------------------------- MODULE Forests -------------------------------
(***************************************************************************)
(* Nodes with a parent each, as the column parent_uuid of <prefix>_nodes   *)
(* has them: f maps every node that exists to its parent or to NoParent.   *)
(***************************************************************************)

CONSTANTS
    Nodes,
    NoParent   \* the empty reference

ASSUME NoParentAssumption == NoParent \notin Nodes

\* A set of nodes that holds the parents of its members.
Closed(f, S) == \A x \in S : f[x] \in S \cup {NoParent}

\* u is p or one of its ancestors.
AtOrAbove(f, u, p) ==
    \A S \in SUBSET DOMAIN f : p \in S /\ Closed(f, S) => u \in S

\* Nobody is its own ancestor: every set of nodes has one whose parent is not
\* in it.
IsForest(f) ==
    \A S \in SUBSET DOMAIN f : S # {} => \E x \in S : f[x] \notin S

=============================================================================
