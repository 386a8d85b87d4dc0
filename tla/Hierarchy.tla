------------------------------ MODULE Hierarchy ------------------------------
(***************************************************************************)
(* What the hierarchy of nodes promises (docs/node.md: "ParentUuid: the    *)
(* direct parent's node", "Parents: a list of parent's node"; the test     *)
(* test/api/parent_test.go: "cannot move a parent node into its child"): a *)
(* node comes without a parent or under one that exists, and is moved, in  *)
(* one step, under a node that is not below it.  It promises less once a   *)
(* document has brought a row that does not fit: no more than that each    *)
(* step writes the parent of one row.                                      *)
(***************************************************************************)
EXTENDS Forests

VARIABLES
    forest,   \* the parent of every node that exists
    astray    \* a row was inserted out of place

hierarchyVars == <<forest, astray>>

Members == DOMAIN forest

HierarchyTypeOK ==
    /\ Members \subseteq Nodes
    /\ \A x \in Members : forest[x] \in Members \cup {NoParent}

HierarchyInit ==
    /\ forest = [x \in {} |-> NoParent]
    /\ astray = FALSE

Add(u, p) ==
    /\ u \notin Members
    /\ p \in Members \cup {NoParent}
    /\ forest' = [x \in Members \cup {u} |-> IF x = u THEN p ELSE forest[x]]
    /\ UNCHANGED astray

Reparent(u, p) ==
    /\ u \in Members /\ p \in Members
    /\ ~AtOrAbove(forest, u, p)
    /\ forest' = [forest EXCEPT ![u] = p]
    /\ UNCHANGED astray

\* A row out of place, or any write after one.
Graft(u, p) ==
    /\ forest' = [x \in Members \cup {u} |-> IF x = u THEN p ELSE forest[x]]
    /\ astray' = TRUE

HierarchyNext ==
    \E u \in Nodes :
        \/ \E p \in Nodes \cup {NoParent} : Add(u, p) \/ Graft(u, p)
        \/ \E p \in Nodes : Reparent(u, p)

HierarchySpec == HierarchyInit /\ [][HierarchyNext]_hierarchyVars

=============================================================================
