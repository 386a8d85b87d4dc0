----------------------------- MODULE NodeManager -----------------------------
(***************************************************************************)
(* The node manager (core/manager_pgsql.go): Save, RemoveOne and Remove,   *)
(* called concurrently by the goroutines of the HTTP server and of the     *)
(* notification listeners.  No call runs inside a database transaction, so *)
(* every SQL statement is a step of its own and other calls run between    *)
(* any two of them.  The caller is the most general one: it saves a new    *)
(* node, or any copy of a stored row it has edited as it likes.            *)
(*                                                                         *)
(* A request is one call.  The serial "id" of a row of <prefix>_nodes is   *)
(* named after the request that inserted it (a call inserts at most one    *)
(* row), and an audit row carries the request that wrote it.               *)
(*                                                                         *)
(* The node type is the default one, whose handler hooks do nothing.       *)
(* parent_uuid and parents are not written by Save: see NodeTree.          *)
(***************************************************************************)
EXTENDS Integers, FiniteSets

CONSTANTS
    Requests,        \* the calls to the manager, one goroutine each
    Uuids,           \* node references
    Given,           \* those a caller may supply itself; the others come from NewV4
    Types,           \* node types
    Data,            \* contents of the remaining columns a caller may edit
    FirstRevisions,  \* revision of a node that has no row (NewNode says 1)
    Batch,           \* LIMIT of the query of Remove (1024)
    NoNode           \* the absence of a node

Node == [uuid : Uuids, type : Types, revision : Nat, deleted : BOOLEAN, data : Data]

\* The nodes without a row that a caller may save.
NewNodes == [uuid : Uuids, type : Types, revision : FirstRevisions,
             deleted : BOOLEAN, data : Data]

ASSUME ConstantsAssumption ==
    /\ Given \subseteq Uuids
    /\ FirstRevisions \subseteq Nat
    /\ Batch \in Nat \ {0}
    /\ NoNode \notin Node

Event == [action : {"Create", "Update", "SoftDelete"}, subject : Uuids,
          revision : Nat, newRevision : BOOLEAN]

VARIABLES
    nodes,    \* table <prefix>_nodes, by row id
    audit,    \* table <prefix>_nodes_audit
    bus,      \* the ModelEvents sent with NOTIFY so far
    op,       \* the method a request called
    pc,       \* its next statement
    node,     \* its *Node
    id,       \* node.Id of a stored node; itself for a node without a row
    revise,   \* the argument revision of Save
    todo,     \* what is left of the batch of Remove, as <<id, node>> pairs
    outcome   \* how the call ended

vars == <<nodes, audit, bus, op, pc, node, id, revise, todo, outcome>>

frame == <<op, pc, node, id, revise, todo, outcome>>

Labels == {"idle", "insertAudit", "insert", "created", "announce", "check", "update",
           "log", "notify", "select", "next", "softDelete", "done"}

TypeOK ==
    /\ nodes \in [Requests -> Node \cup {NoNode}]
    /\ audit \in SUBSET [by : Requests, node : Node]
    /\ bus \in SUBSET Event
    /\ op \in [Requests -> {"none", "save", "removeOne", "remove"}]
    /\ pc \in [Requests -> Labels]
    /\ node \in [Requests -> Node \cup {NoNode}]
    /\ id \in [Requests -> Requests]
    /\ revise \in [Requests -> BOOLEAN]
    /\ todo \in [Requests -> SUBSET (Requests \X Node)]
    /\ outcome \in [Requests -> {"running", "ok", "conflict", "panic"}]

Init ==
    /\ nodes = [r \in Requests |-> NoNode]
    /\ audit = {}
    /\ bus = {}
    /\ op = [r \in Requests |-> "none"]
    /\ pc = [r \in Requests |-> "idle"]
    /\ node = [r \in Requests |-> NoNode]
    /\ id = [r \in Requests |-> r]
    /\ revise = [r \in Requests |-> FALSE]
    /\ todo = [r \in Requests |-> {}]
    /\ outcome = [r \in Requests |-> "running"]

-----------------------------------------------------------------------------
(* What the statements read.                                               *)

At(r, label) == pc[r] = label /\ outcome[r] = "running"

Stored(i) == nodes[i] # NoNode

\* The rows FindOneBy may return for a reference: LIMIT 1, in no order.
RowsOf(u) == {i \in Requests : Stored(i) /\ nodes[i].uuid = u}

\* CONSTRAINT <prefix>_uuid UNIQUE("revision", "uuid").
Admits(i, n) ==
    \A j \in Requests \ {i} :
        Stored(j) => ~(nodes[j].uuid = n.uuid /\ nodes[j].revision = n.revision)

\* Nobody has used this reference yet: what uuid.NewV4 returns.
Unused(u) ==
    /\ u \notin Given
    /\ \A r \in Requests : node[r] # NoNode => node[r].uuid # u

ModelEvent(action, n, newRevision) ==
    [action |-> action, subject |-> n.uuid, revision |-> n.revision,
     newRevision |-> newRevision]

\* Save answers its caller; Remove ignores the answer and goes on.
Return(r, answer) ==
    IF op[r] = "remove"
    THEN /\ pc' = [pc EXCEPT ![r] = "softDelete"]
         /\ UNCHANGED outcome
    ELSE /\ pc' = [pc EXCEPT ![r] = "done"]
         /\ outcome' = [outcome EXCEPT ![r] = answer]

-----------------------------------------------------------------------------
(* The calls.                                                              *)

\* Save of a node that has no row: node.Id == 0.
CallInsert(r, n, rv) ==
    /\ At(r, "idle")
    /\ n.uuid \in Given \/ Unused(n.uuid)
    /\ op' = [op EXCEPT ![r] = "save"]
    /\ node' = [node EXCEPT ![r] = n]
    /\ revise' = [revise EXCEPT ![r] = rv]
    /\ pc' = [pc EXCEPT ![r] = "insertAudit"]
    /\ UNCHANGED <<nodes, audit, bus, id, todo, outcome>>

\* Save of a copy of row i that was just read and edited.
CallUpdate(r, i, data, deleted, rv) ==
    /\ At(r, "idle")
    /\ Stored(i)
    /\ op' = [op EXCEPT ![r] = "save"]
    /\ node' = [node EXCEPT ![r] =
                   [nodes[i] EXCEPT !.data = data, !.deleted = deleted]]
    /\ id' = [id EXCEPT ![r] = i]
    /\ revise' = [revise EXCEPT ![r] = rv]
    /\ pc' = [pc EXCEPT ![r] = "check"]
    /\ UNCHANGED <<nodes, audit, bus, todo, outcome>>

\* RemoveOne of row i that was just read; it saves with a new revision.
CallRemoveOne(r, i) ==
    /\ At(r, "idle")
    /\ Stored(i)
    /\ op' = [op EXCEPT ![r] = "removeOne"]
    /\ node' = [node EXCEPT ![r] = [nodes[i] EXCEPT !.deleted = TRUE]]
    /\ id' = [id EXCEPT ![r] = i]
    /\ revise' = [revise EXCEPT ![r] = TRUE]
    /\ pc' = [pc EXCEPT ![r] = "announce"]
    /\ UNCHANGED <<nodes, audit, bus, todo, outcome>>

\* Remove of every node the query selects (here: all of them).
CallRemove(r) ==
    /\ At(r, "idle")
    /\ op' = [op EXCEPT ![r] = "remove"]
    /\ pc' = [pc EXCEPT ![r] = "select"]
    /\ UNCHANGED <<nodes, audit, bus, node, id, revise, todo, outcome>>

-----------------------------------------------------------------------------
(* Save, the insert path: the audit row first, then the node.              *)

InsertAudit(r) ==
    /\ At(r, "insertAudit")
    /\ audit' = audit \cup {[by |-> r, node |-> node[r]]}
    /\ pc' = [pc EXCEPT ![r] = "insert"]
    /\ UNCHANGED <<nodes, bus, op, node, id, revise, todo, outcome>>

InsertNode(r) ==
    /\ At(r, "insert")
    /\ Admits(r, node[r])
    /\ nodes' = [nodes EXCEPT ![r] = node[r]]
    /\ pc' = [pc EXCEPT ![r] = "created"]
    /\ UNCHANGED <<audit, bus, op, node, id, revise, todo, outcome>>

NotifyCreate(r) ==
    /\ At(r, "created")
    /\ bus' = bus \cup {ModelEvent("Create", node[r], revise[r])}
    /\ Return(r, "ok")
    /\ UNCHANGED <<nodes, audit, op, node, id, revise, todo>>

-----------------------------------------------------------------------------
(* Save, the update path: the test of the revision and the UPDATE are two  *)
(* statements, and the UPDATE says only WHERE id = ?.  Rows are never      *)
(* deleted physically, so "saved" is never nil and no UPDATE affects zero  *)
(* rows.                                                                   *)

\* Mutation: the counter runs down.
NextRevisionDown(k, rv) == IF rv THEN k - 1 ELSE k

\* Mutation: the counter grows although no new revision was asked for.
NextRevisionAlways(k, rv) == k + 1

\* Mutation: the counter skips a revision.
NextRevisionSkips(k, rv) == IF rv THEN k + 2 ELSE k

NextRevision(k, rv) == IF rv THEN k + 1 ELSE k

SaveConflict(r) ==
    /\ At(r, "check")
    /\ \E i \in RowsOf(node[r].uuid) : nodes[i].revision # node[r].revision
    /\ Return(r, "conflict")
    /\ UNCHANGED <<nodes, audit, bus, op, node, id, revise, todo>>

CheckRevision(r) ==
    /\ At(r, "check")
    /\ \E i \in RowsOf(node[r].uuid) : nodes[i].revision = node[r].revision
    /\ node' = [node EXCEPT ![r].revision = NextRevision(@, revise[r])]
    /\ pc' = [pc EXCEPT ![r] = "update"]
    /\ UNCHANGED <<nodes, audit, bus, op, id, revise, todo, outcome>>

\* Mutation: a new revision is not copied to the audit table.
UpdateNodeWithoutLog(r) ==
    /\ At(r, "update")
    /\ Admits(id[r], node[r])
    /\ nodes' = [nodes EXCEPT ![id[r]] = node[r]]
    /\ pc' = [pc EXCEPT ![r] = "notify"]
    /\ UNCHANGED <<audit, bus, op, node, id, revise, todo, outcome>>

UpdateNode(r) ==
    /\ At(r, "update")
    /\ Admits(id[r], node[r])
    /\ nodes' = [nodes EXCEPT ![id[r]] = node[r]]
    /\ pc' = [pc EXCEPT ![r] = IF revise[r] THEN "log" ELSE "notify"]
    /\ UNCHANGED <<audit, bus, op, node, id, revise, todo, outcome>>

InsertAuditRevision(r) ==
    /\ At(r, "log")
    /\ audit' = audit \cup {[by |-> r, node |-> node[r]]}
    /\ pc' = [pc EXCEPT ![r] = "notify"]
    /\ UNCHANGED <<nodes, bus, op, node, id, revise, todo, outcome>>

NotifyUpdate(r) ==
    /\ At(r, "notify")
    /\ bus' = bus \cup {ModelEvent("Update", node[r], revise[r])}
    /\ Return(r, "ok")
    /\ UNCHANGED <<nodes, audit, op, node, id, revise, todo>>

-----------------------------------------------------------------------------
(* RemoveOne announces the removal, then saves; Remove saves and ignores   *)
(* what Save answers, then announces.                                      *)

Announce(r) ==
    /\ At(r, "announce")
    /\ bus' = bus \cup {ModelEvent("SoftDelete", node[r], FALSE)}
    /\ pc' = [pc EXCEPT ![r] = "check"]
    /\ UNCHANGED <<nodes, audit, op, node, id, revise, todo, outcome>>

Undeleted == {i \in Requests : Stored(i) /\ ~nodes[i].deleted}

\* FindBy(query, 0, 1024): some batch of the rows that are not deleted.
Batches == {B \in SUBSET Undeleted :
                Cardinality(B) = Batch \/ (B = Undeleted /\ Cardinality(B) <= Batch)}

Select(r) ==
    /\ At(r, "select")
    /\ \E B \in Batches :
        /\ todo' = [todo EXCEPT ![r] = {<<i, nodes[i]>> : i \in B}]
        /\ IF B = {}
           THEN /\ pc' = [pc EXCEPT ![r] = "done"]
                /\ outcome' = [outcome EXCEPT ![r] = "ok"]
           ELSE /\ pc' = [pc EXCEPT ![r] = "next"]
                /\ UNCHANGED outcome
    /\ UNCHANGED <<nodes, audit, bus, op, node, id, revise>>

\* Mutation: the loop forgets to set Deleted.
NextRemovalKeepsNode(r) ==
    /\ At(r, "next")
    /\ \E t \in todo[r] :
        /\ node' = [node EXCEPT ![r] = t[2]]
        /\ id' = [id EXCEPT ![r] = t[1]]
        /\ todo' = [todo EXCEPT ![r] = @ \ {t}]
    /\ pc' = [pc EXCEPT ![r] = "check"]
    /\ UNCHANGED <<nodes, audit, bus, op, revise, outcome>>

NextRemoval(r) ==
    /\ At(r, "next")
    /\ \E t \in todo[r] :
        /\ node' = [node EXCEPT ![r] = [t[2] EXCEPT !.deleted = TRUE]]
        /\ id' = [id EXCEPT ![r] = t[1]]
        /\ todo' = [todo EXCEPT ![r] = @ \ {t}]
    /\ pc' = [pc EXCEPT ![r] = "check"]
    /\ UNCHANGED <<nodes, audit, bus, op, revise, outcome>>

SoftDelete(r) ==
    /\ At(r, "softDelete")
    /\ bus' = bus \cup {ModelEvent("SoftDelete", node[r], FALSE)}
    /\ pc' = [pc EXCEPT ![r] = IF todo[r] = {} THEN "select" ELSE "next"]
    /\ UNCHANGED <<nodes, audit, op, node, id, revise, todo, outcome>>

-----------------------------------------------------------------------------
(* PanicOnError: a statement fails (the connection is lost, a constraint   *)
(* is violated) and the goroutine unwinds.  What it has written stays.     *)

Fail(r) ==
    /\ outcome[r] = "running"
    /\ pc[r] # "idle"
    /\ outcome' = [outcome EXCEPT ![r] = "panic"]
    /\ UNCHANGED <<nodes, audit, bus, op, pc, node, id, revise, todo>>

\* A statement the database refuses: a row violates <prefix>_uuid.
Refused(r) ==
    /\ \/ At(r, "insert") /\ ~Admits(r, node[r])
       \/ At(r, "update") /\ ~Admits(id[r], node[r])
    /\ Fail(r)

-----------------------------------------------------------------------------

Call(r) ==
    \/ \E n \in NewNodes, rv \in BOOLEAN : CallInsert(r, n, rv)
    \/ \E i \in Requests, data \in Data, deleted, rv \in BOOLEAN :
          CallUpdate(r, i, data, deleted, rv)
    \/ \E i \in Requests : CallRemoveOne(r, i)
    \/ CallRemove(r)

\* The statements of a call that is running, when the database answers.
Statement(r) ==
    \/ InsertAudit(r) \/ InsertNode(r) \/ NotifyCreate(r)
    \/ SaveConflict(r) \/ CheckRevision(r) \/ UpdateNode(r)
    \/ InsertAuditRevision(r) \/ NotifyUpdate(r)
    \/ Announce(r)
    \/ Select(r) \/ NextRemoval(r) \/ SoftDelete(r)
    \/ Refused(r)

Next == \E r \in Requests : Call(r) \/ Statement(r) \/ Fail(r)

Spec == Init /\ [][Next]_vars

\* The Go scheduler and the database serve every goroutine in the end.
FairSpec == Spec /\ \A r \in Requests : WF_vars(Statement(r))

-----------------------------------------------------------------------------
(* Properties.                                                             *)

\* Revision k of node u is in the audit table, or the call that must copy it
\* there has stored the node and has not copied it yet (or died in between).
Logged(u, k) ==
    \/ \E a \in audit : a.node.uuid = u /\ a.node.revision = k
    \/ \E r \in Requests : pc[r] = "log" /\ node[r].uuid = u /\ node[r].revision = k

\* The audit table holds the whole history of a stored node, without a gap:
\* every revision from the one it was inserted with to the one it has now.
\* Save writes nodes and nodes_audit in separate statements and concurrent
\* stale saves move the revision of a row back and forth.
AuditComplete ==
    \A i \in Requests : Stored(i) =>
        \E a \in audit :
            /\ a.by = i
            /\ a.node.uuid = nodes[i].uuid
            /\ \A k \in a.node.revision .. nodes[i].revision : Logged(nodes[i].uuid, k)

\* A listener told of a new revision finds it in the audit table: an event
\* that says Create, or Update with NewRevision, is sent only after the audit
\* row is written, whatever the call dies of.
EventBacked ==
    \A e \in bus :
        e.action = "Create" \/ (e.action = "Update" /\ e.newRevision) =>
            \E a \in audit : a.node.uuid = e.subject /\ a.node.revision = e.revision

\* Optimistic locking refuses only for a reason: a save that answers with a
\* revision error lost to another call that stored a new revision of the same
\* row.  (A reference the caller makes up may have two rows: see README.)
NoSpuriousConflict ==
    \A r \in Requests :
        outcome[r] = "conflict" /\ RowsOf(node[r].uuid) = {id[r]} =>
            \E s \in Requests \ {r} :
                /\ op[s] \in {"save", "removeOne"} /\ revise[s]
                /\ id[s] = id[r]
                /\ pc[s] \in {"log", "notify", "done"} /\ outcome[s] # "conflict"

\* Only removals are under way, and no reference has two rows.
Undisturbed ==
    /\ \A r \in Requests : outcome[r] = "running" => op[r] \in {"none", "remove"}
    /\ \A u \in Uuids : Cardinality(RowsOf(u)) <= 1

\* A Remove that nothing disturbs any more returns, with an answer or by
\* unwinding.  Its loop runs until a batch is empty and ignores the conflicts
\* Save reports, so the conditions are needed: a save that is under way can
\* leave the copies of each batch stale, or undo what the loop has done, and of
\* two rows of one reference FindOneBy may take the other one each time.
RemovalReturns(r) ==
    op[r] = "remove" /\ Undisturbed ~> outcome[r] # "running" \/ ~Undisturbed

=============================================================================
