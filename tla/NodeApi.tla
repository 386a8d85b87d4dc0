------------------------------- MODULE NodeApi -------------------------------
(***************************************************************************)
(* The HTTP API over the node manager (plugins/api/api.go and the routes   *)
(* of api_http.go): POST and PUT of a document, DELETE, PUT of a binary.   *)
(* A route reads the node, decides what to do with it, calls the manager   *)
(* and replies; the manager's steps are those of NodeManager.              *)
(*                                                                         *)
(* A read with Find and the calls that follow it up to the manager's next  *)
(* statement are one step: nothing else the routes do reads shared state.  *)
(***************************************************************************)
EXTENDS NodeManager

CONSTANTS
    ClientRevisions   \* revisions that appear in documents sent by clients

ASSUME ClientRevisionsAssumption ==
    ClientRevisions \subseteq FirstRevisions

\* What a client sends; "valid" is what Validate answers.  A document without
\* a uuid is one with a reference that NewV4 will return.
Documents == [node : [uuid : Uuids, type : Types, revision : ClientRevisions,
                      deleted : BOOLEAN, data : Data],
              valid : BOOLEAN]

VARIABLE reply    \* the status a route answered, "none" before

apiVars == <<vars, reply>>

\* 200 and 201 are "success", 500 is "error".
Replies == {"none", "success", "conflict", "invalid", "notFound", "gone", "error"}

ApiTypeOK == TypeOK /\ reply \in [Requests -> Replies]

ApiInit == Init /\ reply = [r \in Requests |-> "none"]

-----------------------------------------------------------------------------

Waiting(r) == At(r, "idle") /\ reply[r] = "none"

\* The route answers without having called the manager.
Refuse(r, status) ==
    /\ Waiting(r)
    /\ reply' = [reply EXCEPT ![r] = status]
    /\ UNCHANGED vars

\* Api.Save of a document whose reference has no row.
ApiCreate(r, doc) ==
    /\ Waiting(r)
    /\ RowsOf(doc.node.uuid) = {}
    /\ doc.valid
    /\ CallInsert(r, doc.node, TRUE)
    /\ UNCHANGED reply

\* Mutation: the document keeps its own Id, 0, and is inserted again.
ApiUpdateWithoutId(r, doc) ==
    /\ Waiting(r)
    /\ \E i \in RowsOf(doc.node.uuid) :
        /\ doc.node.type = nodes[i].type
        /\ ~nodes[i].deleted
        /\ doc.node.revision = nodes[i].revision
        /\ doc.valid
    /\ op' = [op EXCEPT ![r] = "save"]
    /\ node' = [node EXCEPT ![r] = doc.node]
    /\ revise' = [revise EXCEPT ![r] = TRUE]
    /\ pc' = [pc EXCEPT ![r] = "insertAudit"]
    /\ UNCHANGED <<nodes, audit, bus, id, todo, outcome, reply>>

\* Mutation: a document may restore a deleted node.
ApiUpdateDeleted(r, doc) ==
    /\ Waiting(r)
    /\ \E i \in RowsOf(doc.node.uuid) :
        /\ doc.node.type = nodes[i].type
        /\ doc.node.revision = nodes[i].revision
        /\ doc.valid
        /\ CallUpdate(r, i, doc.node.data, doc.node.deleted, TRUE)
    /\ UNCHANGED reply

\* Api.Save of a document whose reference has a row, of the same type and
\* revision and not deleted.
ApiUpdate(r, doc) ==
    /\ Waiting(r)
    /\ \E i \in RowsOf(doc.node.uuid) :
        /\ doc.node.type = nodes[i].type
        /\ ~nodes[i].deleted
        /\ doc.node.revision = nodes[i].revision
        /\ doc.valid
        /\ CallUpdate(r, i, doc.node.data, doc.node.deleted, TRUE)
    /\ UNCHANGED reply

\* Api.Save of a document it refuses, in the order of its tests.
ApiRefuse(r, doc) ==
    \/ \E i \in RowsOf(doc.node.uuid) :
        IF doc.node.type # nodes[i].type \/ nodes[i].deleted
        THEN Refuse(r, "error")
        ELSE IF doc.node.revision # nodes[i].revision
             THEN Refuse(r, "conflict")
             ELSE ~doc.valid /\ Refuse(r, "invalid")
    \/ /\ RowsOf(doc.node.uuid) = {}
       /\ ~doc.valid
       /\ Refuse(r, "invalid")

\* DELETE: Api.RemoveOne.
ApiDelete(r, u) ==
    \/ /\ RowsOf(u) = {}
       /\ Refuse(r, "notFound")
    \/ \E i \in RowsOf(u) :
        IF nodes[i].deleted
        THEN Refuse(r, "gone")
        ELSE Waiting(r) /\ CallRemoveOne(r, i) /\ UNCHANGED reply

\* PUT ?raw: StoreStream fails, or changes the content of the node it is given.
ApiRaw(r, u) ==
    \/ /\ RowsOf(u) = {}
       /\ Refuse(r, "notFound")
    \/ \E i \in RowsOf(u) :
        \/ Refuse(r, "error")
        \/ /\ Waiting(r)
           /\ \E data \in Data : CallUpdate(r, i, data, nodes[i].deleted, FALSE)
           /\ UNCHANGED reply

-----------------------------------------------------------------------------
(* The routes and Api drop the error that the manager's Save and RemoveOne *)
(* return; only a panic, which Recoverer turns into 500, makes a           *)
(* difference.                                                             *)

Reply(r) ==
    /\ outcome[r] # "running"
    /\ reply[r] = "none"
    /\ reply' = [reply EXCEPT ![r] = IF outcome[r] = "panic" THEN "error" ELSE "success"]
    /\ UNCHANGED vars

ApiNext ==
    \E r \in Requests :
        \/ \E doc \in Documents : ApiCreate(r, doc) \/ ApiUpdate(r, doc) \/ ApiRefuse(r, doc)
        \/ \E u \in Uuids : ApiDelete(r, u) \/ ApiRaw(r, u)
        \/ (Statement(r) \/ Fail(r)) /\ UNCHANGED reply
        \/ Reply(r)

ApiSpec == ApiInit /\ [][ApiNext]_apiVars

-----------------------------------------------------------------------------
(* Properties.                                                             *)

\* A reference that NewV4 returned names one row, although the table only
\* requires pairs of reference and revision to differ.
OneRowPerNode ==
    \A i, j \in Requests :
        Stored(i) /\ Stored(j) /\ nodes[i].uuid = nodes[j].uuid
                  /\ nodes[i].uuid \notin Given => i = j

\* A document that was acknowledged and that the manager did not refuse is in
\* the audit table as the client sent it, even when a concurrent save has
\* overwritten it since.
AcceptedInHistory ==
    \A r \in Requests :
        reply[r] = "success" /\ outcome[r] = "ok" /\ op[r] \in {"save", "removeOne"}
                 /\ (revise[r] \/ id[r] = r) =>
            [by |-> r, node |-> node[r]] \in audit

\* A save that succeeds answers "success" only if the node was stored: core
\* has an error for the other case, "Wrong revision while saving"
\* (core/error.go:10).
SuccessMeansSaved ==
    \A r \in Requests : reply[r] = "success" => outcome[r] = "ok"

\* Row i is deleted and no save that still holds it undeleted is on its way.
Buried(i) ==
    /\ Stored(i) /\ nodes[i].deleted
    /\ \A r \in Requests :
          outcome[r] = "running" /\ id[r] = i /\ pc[r] \in {"check", "update"} =>
              node[r].deleted

\* Deletion through the API is final once the saves that were under way have
\* ended: no later document, binary or removal brings the node back.
DeletedForGood == [][\A i \in Requests : Buried(i) => Buried(i)']_apiVars

=============================================================================
