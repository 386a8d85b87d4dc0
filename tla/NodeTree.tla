------------------------------ MODULE NodeTree -------------------------------
(***************************************************************************)
(* PgNodeManager.Move (core/manager_pgsql.go:275-330): a transaction of    *)
(* two UPDATE statements, at PostgreSQL's default isolation level, Read    *)
(* Committed.  A statement reads what was committed when it starts and     *)
(* what its own transaction wrote; it locks each row it updates until the  *)
(* transaction ends, waiting for whoever holds it, and then updates the    *)
(* newest version of the row with the values it has computed before.       *)
(*                                                                         *)
(* A session is a goroutine that calls Move; it may call it again.  The    *)
(* references name one row each (see NodeApi for when they do not).  The   *)
(* rows come from clients' documents, with the parent and the parents they *)
(* give; astray remembers, for the properties alone, that one of them did  *)
(* not fit.                                                                *)
(***************************************************************************)
EXTENDS Integers, Sequences, FiniteSets, SequencesExt, Forests

CONSTANTS
    Sessions,    \* connections to the database
    Named,       \* parents that documents name
    Brought,     \* arrays of parents that they bring, fitting or not
    None         \* no row

ASSUME TreeConstants ==
    /\ None \notin Nodes \cup {NoParent}
    /\ Named \subseteq Nodes \cup {NoParent}
    /\ Brought \subseteq Seq(Nodes)

VARIABLES
    parent,      \* committed column parent_uuid, of the rows that exist
    parents,     \* committed column parents
    pc,          \* next step of a session's Move
    uuid,        \* its arguments
    target,
    want,        \* the row it locks next
    rewrite,     \* the rows its second statement has still to update
    locks,       \* the rows it has locked
    written,     \* its uncommitted values of the column parents
    answer,      \* what its last Move returned
    astray       \* history: a row was inserted out of place

treeVars ==
    <<parent, parents, pc, uuid, target, want, rewrite, locks, written, answer, astray>>

session == <<pc, uuid, target, want, rewrite, locks, written, answer>>

NoRows == [x \in {} |-> <<>>]

Rows == DOMAIN parent

TreeTypeOK ==
    /\ Rows \subseteq Nodes
    /\ \A x \in Rows : parent[x] \in Nodes \cup {NoParent}
    /\ DOMAIN parents = Rows
    /\ \A x \in Rows : parents[x] \in Seq(Nodes)
    /\ pc \in [Sessions -> {"idle", "lock", "read", "rewrite", "commit", "spin"}]
    /\ uuid \in [Sessions -> Nodes \cup {None}]
    /\ target \in [Sessions -> Nodes \cup {None}]
    /\ want \in [Sessions -> Nodes \cup {None}]
    /\ \A s \in Sessions : DOMAIN rewrite[s] \subseteq Nodes
    /\ locks \in [Sessions -> SUBSET Nodes]
    /\ \A s \in Sessions : DOMAIN written[s] \subseteq locks[s]
    /\ answer \in [Sessions -> {"none", "moved", "unmoved", "error"}]
    /\ astray \in BOOLEAN

TreeInit ==
    /\ parent = NoRows /\ parents = NoRows
    /\ pc = [s \in Sessions |-> "idle"]
    /\ uuid = [s \in Sessions |-> None]
    /\ target = [s \in Sessions |-> None]
    /\ want = [s \in Sessions |-> None]
    /\ rewrite = [s \in Sessions |-> NoRows]
    /\ locks = [s \in Sessions |-> {}]
    /\ written = [s \in Sessions |-> NoRows]
    /\ answer = [s \in Sessions |-> "none"]
    /\ astray = FALSE

-----------------------------------------------------------------------------
(* Statements.                                                             *)

\* f with the entries of g in place of its own.
Overlay(f, g) == [x \in DOMAIN f |-> IF x \in DOMAIN g THEN g[x] ELSE f[x]]

\* Mutation: the second statement is not run in the transaction.
ChildrenBefore(s, x) == {c \in Rows : parent[c] = x}

\* The rows whose parent_uuid is x, as the second statement of s reads them.
Children(s, x) == {c \in Rows : [parent EXCEPT ![uuid[s]] = target[s]][c] = x}

\* Mutation: the array starts at the new parent, without what is above it.
BranchFromTarget(s) ==
    LET level[n \in Nat] ==
        IF n = 0
        THEN {<<target[s], <<>>>>}
        ELSE UNION {{<<c, Append(w[2], w[1])>> : c \in Children(s, w[1])} : w \in level[n - 1]}
    IN  level

\* WITH RECURSIVE, after n rounds: rows with the parents array they will get.
Branch(s) ==
    LET level[n \in Nat] ==
        IF n = 0
        THEN {<<target[s], parents[target[s]]>>}
        ELSE UNION {{<<c, Append(w[2], w[1])>> : c \in Children(s, w[1])} : w \in level[n - 1]}
    IN  level

\* The next row of session s is locked by session t.
Waits(s, t) ==
    /\ pc[s] \in {"lock", "rewrite"}
    /\ t # s /\ want[s] \in locks[t]

Granted(s) == \A t \in Sessions : ~Waits(s, t)

\* Everybody in some group that includes s waits for another of the group.
Deadlocked(s) ==
    \E D \in SUBSET Sessions :
        s \in D /\ \A t \in D : \E q \in D : Waits(t, q)

\* Mutation: the transaction is neither committed nor rolled back.
EndAndKeepLocks(s, result) ==
    /\ pc' = [pc EXCEPT ![s] = "idle"]
    /\ want' = [want EXCEPT ![s] = None]
    /\ rewrite' = [rewrite EXCEPT ![s] = NoRows]
    /\ uuid' = [uuid EXCEPT ![s] = None]
    /\ target' = [target EXCEPT ![s] = None]
    /\ answer' = [answer EXCEPT ![s] = result]
    /\ UNCHANGED <<locks, written>>

\* Mutation: the connection goes back to the pool with its transaction open.
EndAndKeepWrites(s, result) ==
    /\ pc' = [pc EXCEPT ![s] = "idle"]
    /\ want' = [want EXCEPT ![s] = None]
    /\ rewrite' = [rewrite EXCEPT ![s] = NoRows]
    /\ locks' = [locks EXCEPT ![s] = {}]
    /\ uuid' = [uuid EXCEPT ![s] = None]
    /\ target' = [target EXCEPT ![s] = None]
    /\ answer' = [answer EXCEPT ![s] = result]
    /\ UNCHANGED written

\* The transaction of session s is over and Move returns.
End(s, result) ==
    /\ pc' = [pc EXCEPT ![s] = "idle"]
    /\ want' = [want EXCEPT ![s] = None]
    /\ rewrite' = [rewrite EXCEPT ![s] = NoRows]
    /\ locks' = [locks EXCEPT ![s] = {}]
    /\ written' = [written EXCEPT ![s] = NoRows]
    /\ uuid' = [uuid EXCEPT ![s] = None]
    /\ target' = [target EXCEPT ![s] = None]
    /\ answer' = [answer EXCEPT ![s] = result]

-----------------------------------------------------------------------------
(* Inserts.                                                                *)

\* The array that fits a new row under p.
Fitting(p) ==
    IF p = NoParent THEN {<<>>} ELSE {Append(parents[q], q) : q \in {p} \cap Rows}

\* The row of a new node, with the parent and the array of its document.  Api
\* keeps those of the row only when there is one (plugins/api/api.go:106-110).
\* A row is out of place if its parent or its array does not fit the table, or
\* if it comes under a parent while a move may already have read the branch.
Create(u, p, a) ==
    /\ u \notin Rows
    /\ parent' = [x \in Rows \cup {u} |-> IF x = u THEN p ELSE parent[x]]
    /\ parents' = [x \in Rows \cup {u} |-> IF x = u THEN a ELSE parents[x]]
    /\ astray' = \/ astray
                 \/ a \notin Fitting(p)
                 \/ p # NoParent /\ \E s \in Sessions : pc[s] # "idle"
    /\ UNCHANGED session

-----------------------------------------------------------------------------
(* Move.                                                                   *)

\* Mutation: the arrays are compared the other way round.
AdmitsNewParentOnly(u, p) ==
    u \in Rows /\ p \in Rows /\ p \notin ToSet(parents[u])

\* WHERE uuid = u AND EXISTS (... uuid = p AND u <> ALL(parents)).
AdmitsMove(u, p) ==
    u \in Rows /\ p \in Rows /\ u \notin ToSet(parents[p])

\* Move begins and its first statement takes its snapshot; when no row
\* matches, the empty transaction is committed.
Move(s, u, p) ==
    /\ pc[s] = "idle"
    /\ IF AdmitsMove(u, p)
       THEN /\ pc' = [pc EXCEPT ![s] = "lock"]
            /\ uuid' = [uuid EXCEPT ![s] = u]
            /\ target' = [target EXCEPT ![s] = p]
            /\ want' = [want EXCEPT ![s] = u]
            /\ answer' = [answer EXCEPT ![s] = "none"]
       ELSE /\ answer' = [answer EXCEPT ![s] = "unmoved"]
            /\ UNCHANGED <<pc, uuid, target, want>>
    /\ UNCHANGED <<parent, parents, rewrite, locks, written, astray>>

\* The first statement updates parent_uuid.
SetParent(s) ==
    /\ pc[s] = "lock"
    /\ Granted(s)
    /\ locks' = [locks EXCEPT ![s] = {uuid[s]}]
    /\ want' = [want EXCEPT ![s] = None]
    /\ pc' = [pc EXCEPT ![s] = "read"]
    /\ UNCHANGED <<parent, parents, uuid, target, rewrite, written, answer, astray>>

\* The second statement computes the branch below the target.  UNION ALL never
\* ends if the branch comes back to a row it has been through.
ReadBranch(s) ==
    /\ pc[s] = "read"
    /\ LET branch == Branch(s)
           depth == Cardinality(Rows)
           found == UNION {branch[n] : n \in 0 .. depth - 1}
       IN  IF branch[depth] # {}
           THEN /\ pc' = [pc EXCEPT ![s] = "spin"]
                /\ UNCHANGED <<want, rewrite>>
           ELSE /\ rewrite' = [rewrite EXCEPT ![s] =
                      [x \in {w[1] : w \in found} |->
                          (CHOOSE w \in found : w[1] = x)[2]]]
                /\ \E x \in DOMAIN rewrite'[s] : want' = [want EXCEPT ![s] = x]
                /\ pc' = [pc EXCEPT ![s] = "rewrite"]
    /\ UNCHANGED <<parent, parents, uuid, target, locks, written, answer, astray>>

\* The second statement updates parents, row by row in an order of its own.
SetParents(s) ==
    /\ pc[s] = "rewrite"
    /\ Granted(s)
    /\ LET x == want[s]
           rest == DOMAIN rewrite[s] \ {x}
       IN  /\ locks' = [locks EXCEPT ![s] = @ \cup {x}]
           /\ written' = [written EXCEPT ![s] =
                  [y \in DOMAIN @ \cup {x} |-> IF y = x THEN rewrite[s][x] ELSE @[y]]]
           /\ rewrite' = [rewrite EXCEPT ![s] = [y \in rest |-> @[y]]]
           /\ IF rest = {}
              THEN /\ pc' = [pc EXCEPT ![s] = "commit"]
                   /\ want' = [want EXCEPT ![s] = None]
              ELSE /\ \E y \in rest : want' = [want EXCEPT ![s] = y]
                   /\ UNCHANGED pc
    /\ UNCHANGED <<parent, parents, uuid, target, answer, astray>>

\* Mutation: the two arguments are exchanged.
CommitExchanged(s) ==
    /\ pc[s] = "commit"
    /\ parent' = [parent EXCEPT ![target[s]] = uuid[s]]
    /\ parents' = Overlay(parents, written[s])
    /\ End(s, "moved")
    /\ UNCHANGED astray

Commit(s) ==
    /\ pc[s] = "commit"
    /\ parent' = [parent EXCEPT ![uuid[s]] = target[s]]
    /\ parents' = Overlay(parents, written[s])
    /\ End(s, "moved")
    /\ UNCHANGED astray

\* The server breaks a deadlock by aborting a transaction.  Move returns the
\* error of its first statement; it drops that of the second, but then Commit
\* fails.
DeadlockVictim(s) ==
    /\ Deadlocked(s)
    /\ End(s, "error")
    /\ UNCHANGED <<parent, parents, astray>>

\* The connection is lost, or the server gives up a statement that does not end.
Rollback(s) ==
    /\ pc[s] # "idle"
    /\ End(s, "error")
    /\ UNCHANGED <<parent, parents, astray>>

-----------------------------------------------------------------------------

Proceed(s) ==
    \/ SetParent(s) \/ ReadBranch(s) \/ SetParents(s) \/ Commit(s)
    \/ DeadlockVictim(s)

TreeNext ==
    \/ \E u \in Nodes, p \in Named :
          \E a \in Brought \cup Fitting(p) : Create(u, p, a)
    \/ \E s \in Sessions :
          \/ \E u, p \in Nodes : Move(s, u, p)
          \/ Proceed(s)
          \/ Rollback(s)

TreeSpec == TreeInit /\ [][TreeNext]_treeVars

\* The goroutines run, and a released lock goes to each waiter in its turn.
\* (Each of these steps changes pc or want.)
FairTreeSpec ==
    /\ TreeSpec
    /\ \A s \in Sessions :
          /\ WF_<<pc, want>>(Proceed(s))
          /\ SF_<<pc, want>>(SetParent(s)) /\ SF_<<pc, want>>(SetParents(s))

-----------------------------------------------------------------------------
(* Properties.                                                             *)

H == INSTANCE Hierarchy WITH forest <- parent

\* "cannot move a parent node into its child" (test/api/parent_test.go:50):
\* moves keep the committed rows a forest, unless some insert came out of place.
CommittedForest == ~astray => IsForest(parent)

\* "A list of parent's node" (docs/node.md:22), of which the last one is "the
\* direct parent's node" (docs/node.md:25): unless some insert came out of
\* place, the array of a row goes from the top of its tree down to its parent,
\* whatever branches have been moved and moved back since.
ParentsArePath ==
    ~astray =>
        \A x \in Rows :
            parents[x] = IF parent[x] = NoParent
                         THEN <<>>
                         ELSE Append(parents[parent[x]], parent[x])

\* Whatever arrays the rows came with, a move that commits has rewritten its
\* node, and every array it has rewritten below the target continues that of
\* the row's parent: it repairs the branch as far as the target's is right.
MoveRewrites ==
    [][\A s \in Sessions :
          pc[s] = "commit" /\ answer'[s] = "moved" =>
              /\ uuid[s] \in DOMAIN written[s]
              /\ \A x \in DOMAIN written[s] \ {target[s]} :
                    /\ parent'[x] \in DOMAIN written[s]
                    /\ parents'[x] = Append(parents'[parent'[x]], parent'[x])]_treeVars

\* Moves that do not overlap are atomic, whatever rows are inserted meanwhile;
\* and unless some insert came out of place they keep the hierarchy a forest,
\* using the array of the target alone to decide.
ImplementsHierarchy == H!HierarchySpec

\* Unless some insert came out of place, a move from one row to another is
\* refused only when the hierarchy demands it: a stale array would make Move
\* report zero rows for a legal move.
RefusedForAReason ==
    ~astray =>
        \A u, p \in Rows : AdmitsMove(u, p) \/ AtOrAbove(parent, u, p)

\* Unless a branch query runs away, overlapping moves all return: they wait for
\* each other's rows, and the ones that wait in a circle are broken up.
MovesReturn ==
    [](\A s \in Sessions : pc[s] # "spin") =>
        \A s \in Sessions : pc[s] = "lock" ~> pc[s] = "idle"

=============================================================================
