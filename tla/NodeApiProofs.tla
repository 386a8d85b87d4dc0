---------------------------- MODULE NodeApiProofs ----------------------------
(***************************************************************************)
(* The HTTP API uses the node manager as its most general caller may, so   *)
(* what is proved of the manager holds behind the API; and what the API    *)
(* adds, for any number of requests, nodes and documents.                  *)
(***************************************************************************)
EXTENDS NodeApi, NodeManagerProofs

\* The steps of request r that the routes can cause.
RouteStep(r) ==
    \/ \E n \in NewNodes : CallInsert(r, n, TRUE)
    \/ \E i \in Requests, d \in Data, b, rv \in BOOLEAN :
          CallUpdate(r, i, d, b, rv) /\ (nodes[i].deleted => b)
    \/ \E i \in Requests : CallRemoveOne(r, i)
    \/ Statement(r)
    \/ Fail(r)

LEMMA RouteStepIsStep ==
    ASSUME NEW r \in Requests, RouteStep(r)
    PROVE  Step(r)
BY DEF RouteStep, Step, Call

LEMMA DocumentFields ==
    ASSUME NEW doc \in Documents
    PROVE  /\ doc.node \in NewNodes
           /\ doc.node.data \in Data
           /\ doc.node.deleted \in BOOLEAN
BY ClientRevisionsAssumption DEF Documents, NewNodes

LEMMA ApiSteps ==
    ASSUME TypeOK, ApiNext
    PROVE  UNCHANGED vars \/ \E r \in Requests : RouteStep(r)
<1>1. PICK r \in Requests :
        \/ \E doc \in Documents : ApiCreate(r, doc) \/ ApiUpdate(r, doc) \/ ApiRefuse(r, doc)
        \/ \E u \in Uuids : ApiDelete(r, u) \/ ApiRaw(r, u)
        \/ (Statement(r) \/ Fail(r)) /\ UNCHANGED reply
        \/ Reply(r)
    BY DEF ApiNext
<1>2. ASSUME NEW doc \in Documents, ApiCreate(r, doc)
      PROVE  RouteStep(r)
    BY <1>2, DocumentFields DEF ApiCreate, RouteStep
<1>3. ASSUME NEW doc \in Documents, ApiUpdate(r, doc)
      PROVE  RouteStep(r)
  <2>1. PICK i \in Requests :
            /\ ~nodes[i].deleted
            /\ CallUpdate(r, i, doc.node.data, doc.node.deleted, TRUE)
    BY <1>3 DEF ApiUpdate, RowsOf
  <2> QED
    BY <2>1, DocumentFields DEF RouteStep
<1>4. ASSUME NEW doc \in Documents, ApiRefuse(r, doc)
      PROVE  UNCHANGED vars
    BY <1>4 DEF ApiRefuse, Refuse
<1>5. ASSUME NEW u \in Uuids, ApiDelete(r, u)
      PROVE  UNCHANGED vars \/ RouteStep(r)
    BY <1>5 DEF ApiDelete, Refuse, RouteStep, RowsOf
<1>6. ASSUME NEW u \in Uuids, ApiRaw(r, u)
      PROVE  UNCHANGED vars \/ RouteStep(r)
  <2>1. CASE \E status \in {"notFound", "error"} : Refuse(r, status)
    BY <2>1 DEF Refuse
  <2>2. ASSUME NEW i \in Requests, NEW d \in Data, Stored(i),
               CallUpdate(r, i, d, nodes[i].deleted, FALSE)
        PROVE  RouteStep(r)
    <3>1. nodes[i].deleted \in BOOLEAN
        BY <2>2, StoredNode DEF Node
    <3> QED
        BY <2>2, <3>1 DEF RouteStep
  <2> QED
    BY <1>6, <2>1, <2>2 DEF ApiRaw, RowsOf
<1> QED
    BY <1>1, <1>2, <1>3, <1>4, <1>5, <1>6 DEF RouteStep, Reply

LEMMA RouteStepIsNext ==
    TypeOK /\ [ApiNext]_apiVars => [Next]_vars
BY ApiSteps, RouteStepIsStep DEF apiVars, Next, Step

LEMMA ApiTyped == ApiSpec => []IInv
<1>1. ApiInit => IInv
    BY InitIInv DEF ApiInit
<1>2. IInv /\ [ApiNext]_apiVars => IInv'
    BY RouteStepIsNext, StepIInv DEF IInv
<1> QED
    BY <1>1, <1>2, PTL DEF ApiSpec

\* Every answer is one of the statuses of the routes.
RepliesOK == reply \in [Requests -> Replies]

\* The API keeps the types of the manager it drives, and answers with one of
\* the statuses of its routes.
THEOREM ApiTypes == ApiSpec => []ApiTypeOK
<1>1. ApiInit => RepliesOK
    BY DEF ApiInit, Replies, RepliesOK
<1>2. RepliesOK /\ [ApiNext]_apiVars => RepliesOK'
  <2> SUFFICES ASSUME reply \in [Requests -> Replies], [ApiNext]_apiVars
               PROVE  reply' \in [Requests -> Replies]
    BY DEF RepliesOK
  <2> DEFINE Told == \E r \in Requests, status \in Replies : reply' = [reply EXCEPT ![r] = status]
  <2>1. ASSUME NEW r \in Requests, NEW status \in Replies, Refuse(r, status) PROVE Told
    BY <2>1 DEF Refuse
  <2>2. ASSUME NEW r \in Requests, NEW doc \in Documents, ApiRefuse(r, doc) PROVE Told
    <3>1. {"error", "conflict", "invalid"} \subseteq Replies
        BY DEF Replies
    <3> HIDE DEF Told
    <3> QED
        BY <2>1, <2>2, <3>1 DEF ApiRefuse
  <2>3. ASSUME NEW r \in Requests, NEW u \in Uuids, ApiDelete(r, u) \/ ApiRaw(r, u)
        PROVE  UNCHANGED reply \/ Told
    <3>1. {"error", "notFound", "gone"} \subseteq Replies
        BY DEF Replies
    <3> HIDE DEF Told
    <3> QED
        BY <2>1, <2>3, <3>1 DEF ApiDelete, ApiRaw
  <2>4. ASSUME NEW r \in Requests, Reply(r) PROVE Told
    BY <2>4 DEF Reply, Replies
  <2>5. UNCHANGED reply \/ Told
    <3> HIDE DEF Told
    <3> QED
        BY <2>2, <2>3, <2>4 DEF ApiNext, apiVars, ApiCreate, ApiUpdate
  <2> QED
    BY <2>5
<1>3. IInv /\ RepliesOK => ApiTypeOK
    BY DEF IInv, ApiTypeOK, RepliesOK
<1> QED
    BY <1>1, <1>2, <1>3, ApiTyped, PTL DEF ApiSpec

-----------------------------------------------------------------------------
(* Deletion through the API is final.                                      *)

\* The removals on their way hold their node deleted.
Announcing == \A r \in Requests : pc[r] = "announce" => node[r].deleted

LEMMA OtherOutcomes ==
    ASSUME TypeOK, NEW r \in Requests, Step(r), NEW s \in Requests, s # r
    PROVE  outcome'[s] = outcome[s]
<1>1. CASE Call(r)
    BY <1>1 DEF Call, CallInsert, CallUpdate, CallRemoveOne, CallRemove
<1>2. CASE NotifyCreate(r) \/ SaveConflict(r) \/ NotifyUpdate(r)
    BY <1>2 DEF TypeOK, NotifyCreate, SaveConflict, NotifyUpdate, Return
<1>3. CASE Select(r) \/ Refused(r) \/ Fail(r)
    BY <1>3 DEF TypeOK, Select, Refused, Fail
<1>4. CASE InsertAudit(r) \/ InsertNode(r) \/ CheckRevision(r) \/ UpdateNode(r)
           \/ InsertAuditRevision(r) \/ Announce(r) \/ NextRemoval(r) \/ SoftDelete(r)
    BY <1>4 DEF InsertAudit, InsertNode, CheckRevision, UpdateNode, InsertAuditRevision,
       Announce, NextRemoval, SoftDelete
<1> QED
    BY <1>1, <1>2, <1>3, <1>4 DEF Step, Statement

\* Where the last statements of Save leave the request.
LEMMA SaveReturns ==
    ASSUME TypeOK, NEW r \in Requests,
           NotifyCreate(r) \/ SaveConflict(r) \/ NotifyUpdate(r)
    PROVE  pc'[r] \in {"softDelete", "done"} /\ node' = node
BY ReturnTyped DEF NotifyCreate, SaveConflict, NotifyUpdate

LEMMA AnnouncingStep ==
    ASSUME IInv, Announcing, NEW r \in Requests, RouteStep(r)
    PROVE  Announcing'
<1> USE DEF IInv
<1>1. ASSUME NEW s \in Requests, s # r, pc'[s] = "announce"
      PROVE  node'[s].deleted
    BY <1>1, RouteStepIsStep, OtherFrames DEF Announcing
<1>2. ASSUME pc'[r] = "announce"
      PROVE  node'[r].deleted
  <2>1. ASSUME NEW i \in Requests, CallRemoveOne(r, i)
        PROVE  node'[r].deleted
    <3>1. nodes[i] \in Node
      BY <2>1, StoredNode DEF CallRemoveOne
    <3> QED
      BY <2>1, <3>1 DEF TypeOK, CallRemoveOne, Node
  <2>2. CASE Fail(r) \/ Refused(r)
    BY <1>2, <2>2 DEF Fail, Refused, Announcing
  <2>3. ~(NotifyCreate(r) \/ SaveConflict(r) \/ NotifyUpdate(r))
    BY <1>2, SaveReturns
  <2>4. ASSUME NEW n \in NewNodes
        PROVE  ~CallInsert(r, n, TRUE)
    BY <1>2 DEF TypeOK, CallInsert
  <2>5. ASSUME NEW i \in Requests, NEW d \in Data, NEW b \in BOOLEAN, NEW rv \in BOOLEAN
        PROVE  ~CallUpdate(r, i, d, b, rv)
    BY <1>2 DEF TypeOK, CallUpdate
  <2>6. /\ ~InsertAudit(r) /\ ~InsertNode(r) /\ ~CheckRevision(r) /\ ~UpdateNode(r)
        /\ ~InsertAuditRevision(r) /\ ~Announce(r)
    BY <1>2 DEF TypeOK, InsertAudit, InsertNode, CheckRevision, UpdateNode,
       InsertAuditRevision, Announce
  <2>7. ~NextRemoval(r) /\ ~SoftDelete(r)
    BY <1>2 DEF TypeOK, NextRemoval, SoftDelete
  <2>8. ~Select(r)
    BY <1>2 DEF TypeOK, Select, At
  <2> QED
    BY <2>1, <2>2, <2>3, <2>4, <2>5, <2>6, <2>7, <2>8 DEF RouteStep, Statement
<1> QED
    BY <1>1, <1>2 DEF Announcing

\* The calls that still hold a copy of row i hold it deleted.
HeldDeleted(s, i) ==
    outcome[s] = "running" /\ id[s] = i /\ pc[s] \in {"check", "update"} =>
        node[s].deleted

LEMMA EditedDeleted ==
    ASSUME NEW n \in Node, NEW d \in Data, NEW b \in BOOLEAN
    PROVE  [n EXCEPT !.data = d, !.deleted = b].deleted = b
<1> DEFINE k == [n EXCEPT !.data = d]
<1>1. k \in Node
    BY DEF Node
<1> HIDE DEF k
<1>2. [k EXCEPT !.deleted = b].deleted = b
    BY <1>1 DEF Node
<1> QED
    BY <1>2 DEF k

LEMMA HeldDeletedStep ==
    ASSUME IInv, Announcing, NEW r \in Requests, RouteStep(r),
           NEW i \in Requests, nodes[i].deleted, HeldDeleted(r, i)
    PROVE  HeldDeleted(r, i)'
<1> USE DEF IInv, HeldDeleted
<1>1. ASSUME NEW n \in NewNodes, CallInsert(r, n, TRUE)
      PROVE  HeldDeleted(r, i)'
    BY <1>1 DEF TypeOK, CallInsert
<1>2. ASSUME NEW j \in Requests, NEW d \in Data, NEW b \in BOOLEAN, NEW rv \in BOOLEAN,
             CallUpdate(r, j, d, b, rv), nodes[j].deleted => b
      PROVE  HeldDeleted(r, i)'
  <2>1. id'[r] = j
    BY <1>2 DEF TypeOK, CallUpdate
  <2>2. node'[r].deleted = b
    <3>1. nodes[j] \in Node
      BY <1>2, StoredNode DEF CallUpdate
    <3>2. node'[r] = [nodes[j] EXCEPT !.data = d, !.deleted = b]
      BY <1>2 DEF TypeOK, CallUpdate
    <3> QED
      BY <3>1, <3>2, EditedDeleted
  <2> QED
    BY <1>2, <2>1, <2>2
<1>3. ASSUME NEW j \in Requests, CallRemoveOne(r, j)
      PROVE  HeldDeleted(r, i)'
    BY <1>3 DEF TypeOK, CallRemoveOne
<1>4. CASE NotifyCreate(r) \/ SaveConflict(r) \/ NotifyUpdate(r)
    BY <1>4, SaveReturns
<1>5. CASE CheckRevision(r)
  <2>1. node[r] \in Node
    BY <1>5, InHandTyped DEF CheckRevision, At, Holding
  <2>2. node'[r].deleted = node[r].deleted
    BY <1>5, <2>1 DEF TypeOK, CheckRevision, Node
  <2> QED
    BY <1>5, <2>2 DEF TypeOK, CheckRevision, At
<1>6. CASE Announce(r)
    BY <1>6 DEF TypeOK, Announce, At, Announcing
<1>7. CASE NextRemoval(r)
  <2>1. PICK t \in todo[r] : node' = [node EXCEPT ![r] = [t[2] EXCEPT !.deleted = TRUE]]
    BY <1>7 DEF NextRemoval
  <2>2. t[2] \in Node
    BY <2>1 DEF TypeOK
  <2> QED
    BY <2>1, <2>2 DEF TypeOK, Node
<1>8. CASE InsertAudit(r) \/ InsertNode(r) \/ UpdateNode(r) \/ InsertAuditRevision(r)
           \/ SoftDelete(r)
    BY <1>8 DEF TypeOK, InsertAudit, InsertNode, UpdateNode, InsertAuditRevision, SoftDelete
<1>9. CASE Select(r)
    BY <1>9 DEF TypeOK, Select, At
<1>10. CASE Refused(r) \/ Fail(r)
    BY <1>10 DEF TypeOK, Refused, Fail
<1> QED
    BY <1>1, <1>2, <1>3, <1>4, <1>5, <1>6, <1>7, <1>8, <1>9, <1>10 DEF RouteStep, Statement

LEMMA BuriedStep ==
    ASSUME IInv, Announcing, NEW r \in Requests, RouteStep(r),
           NEW i \in Requests, Buried(i)
    PROVE  Buried(i)'
<1> USE DEF IInv
<1>1. Step(r) /\ Stored(i) /\ nodes[i].deleted /\ \A s \in Requests : HeldDeleted(s, i)
    BY RouteStepIsStep DEF Buried, HeldDeleted
<1>2. Stored(i)'
    BY <1>1, RowsStable
<1>3. nodes'[i].deleted
  <2>1. CASE InsertNode(r)
    BY <1>1, <2>1 DEF TypeOK, InsertFrames, InsertNode, At
  <2>2. CASE UpdateNode(r)
    BY <1>1, <2>2 DEF TypeOK, UpdateNode, At, HeldDeleted
  <2> QED
    BY <1>1, <2>1, <2>2, RowWrites
<1>4. ASSUME NEW s \in Requests
      PROVE  HeldDeleted(s, i)'
  <2>1. CASE s = r
    BY <1>1, <2>1, HeldDeletedStep
  <2>2. CASE s # r
    BY <1>1, <2>2, OtherFrames, OtherOutcomes DEF HeldDeleted
  <2> QED
    BY <2>1, <2>2
<1> QED
    BY <1>2, <1>3, <1>4 DEF Buried, HeldDeleted

\* Once a row is deleted and the saves under way that hold it undeleted have
\* ended, no request brings it back.
THEOREM DeletionIsFinal == ApiSpec => DeletedForGood
<1>1. ApiInit => Announcing
    BY DEF ApiInit, Init, Announcing
<1>2. IInv /\ Announcing /\ [ApiNext]_apiVars => Announcing'
  <2> SUFFICES ASSUME IInv, Announcing, [ApiNext]_apiVars
               PROVE  Announcing'
    OBVIOUS
  <2>1. CASE UNCHANGED vars
    BY <2>1 DEF vars, Announcing
  <2> QED
    BY <2>1, ApiSteps, AnnouncingStep DEF apiVars, IInv
<1>3. IInv /\ Announcing /\ [ApiNext]_apiVars =>
          [\A i \in Requests : Buried(i) => Buried(i)']_apiVars
  <2> SUFFICES ASSUME IInv, Announcing, [ApiNext]_apiVars, NEW i \in Requests, Buried(i)
               PROVE  Buried(i)'
    OBVIOUS
  <2>1. CASE UNCHANGED vars
    BY <2>1 DEF vars, Buried, Stored
  <2> QED
    BY <2>1, ApiSteps, BuriedStep DEF apiVars, IInv
<1> QED
    BY <1>1, <1>2, <1>3, ApiTyped, PTL DEF ApiSpec, DeletedForGood

-----------------------------------------------------------------------------
(* One row for each reference that NewV4 returned.                         *)

\* The request that inserted a row has ended or is about to, and its node
\* keeps the reference: so Unused sees the references of all rows.
RowOwned(i) ==
    Stored(i) =>
        /\ pc[i] \in {"created", "done"}
        /\ node[i] # NoNode
        /\ node[i].uuid = nodes[i].uuid

RowsOwned == \A i \in Requests : RowOwned(i)

\* Requests that insert, or have inserted, do so for different references.
Inserter(i) == pc[i] \in Inserting \/ Stored(i)

InsertersDiffer ==
    \A i, j \in Requests :
        Inserter(i) /\ Inserter(j) /\ node[i].uuid = node[j].uuid
                    /\ node[i].uuid \notin Given => i = j

\* Rows appear only where they are inserted.
LEMMA NewRows ==
    ASSUME IInv, NEW r \in Requests, Step(r), NEW i \in Requests, Stored(i)'
    PROVE  Stored(i) \/ (i = r /\ InsertNode(r))
<1> USE DEF IInv
<1>1. CASE nodes' = nodes
    BY <1>1 DEF Stored
<1>2. CASE InsertNode(r)
    BY <1>2 DEF TypeOK, InsertNode, Stored
<1>3. CASE UpdateNode(r)
  <2>1. Stored(id[r])
    BY <1>3 DEF HeldCopies, UpdateNode, At, Holding, Copy
  <2> QED
    BY <1>3, <2>1 DEF TypeOK, UpdateNode, Stored
<1> QED
    BY <1>1, <1>2, <1>3, RowWrites

\* A request whose node is in a row has one statement left, or none.
LEMMA LastSteps ==
    ASSUME IInv, NEW r \in Requests, Step(r), pc[r] \in {"created", "done"}
    PROVE  /\ pc'[r] \in {"created", "done"}
           /\ node'[r] = node[r]
<1> USE DEF IInv
<1>1. CASE NotifyCreate(r)
  <2>1. op[r] # "remove"
    BY <1>1 DEF NotifyCreate, At, InsertFrames, Inserting
  <2> QED
    BY <1>1, <2>1 DEF TypeOK, NotifyCreate, Return
<1>2. CASE Fail(r) \/ Refused(r)
    BY <1>2 DEF Fail, Refused
<1>3. ~Call(r)
    BY DEF Call, CallInsert, CallUpdate, CallRemoveOne, CallRemove, At
<1> QED
    BY <1>1, <1>2, <1>3 DEF Step, Statement, At, InsertAudit, InsertNode, SaveConflict,
       CheckRevision, UpdateNode, InsertAuditRevision, NotifyUpdate, Announce, Select,
       NextRemoval, SoftDelete

LEMMA RowsOwnedStep ==
    ASSUME IInv, RowsOwned, NEW r \in Requests, Step(r)
    PROVE  RowsOwned'
<1> USE DEF IInv
<1> SUFFICES ASSUME NEW i \in Requests, Stored(i)'
             PROVE  /\ pc'[i] \in {"created", "done"}
                    /\ node'[i] # NoNode
                    /\ node'[i].uuid = nodes'[i].uuid
    BY DEF RowsOwned, RowOwned
<1>1. CASE i = r /\ InsertNode(r)
  <2>1. node[r] # NoNode
    BY <1>1 DEF InsertNode, At, InsertFrames, Inserting
  <2> QED
    BY <1>1, <2>1 DEF TypeOK, InsertNode
<1>2. CASE Stored(i)
  <2>1. nodes'[i].uuid = nodes[i].uuid
    BY <1>2, RowsStable
  <2>2. pc'[i] \in {"created", "done"} /\ node'[i] = node[i]
    BY <1>2, LastSteps, OtherFrames DEF RowsOwned, RowOwned
  <2> QED
    BY <1>2, <2>1, <2>2 DEF RowsOwned, RowOwned
<1> QED
    BY <1>1, <1>2, NewRows

\* A request starts to insert only with CallInsert.
LEMMA NewInserters ==
    ASSUME IInv, RowsOwned, NEW r \in Requests, Step(r), NEW i \in Requests, Inserter(i)'
    PROVE  \/ Inserter(i) /\ node'[i] = node[i]
           \/ i = r /\ \E n \in NewNodes, rv \in BOOLEAN : CallInsert(r, n, rv)
<1> USE DEF IInv
<1>1. CASE i # r
    BY <1>1, NewRows, OtherFrames DEF Inserter
<1>2. CASE i = r /\ Stored(r)
    BY <1>2, LastSteps DEF RowsOwned, RowOwned, Inserter
<1>3. CASE i = r /\ ~Stored(r) /\ Stored(r)'
    BY <1>3, NewRows DEF InsertNode, At, Inserter, Inserting
<1>4. CASE i = r /\ ~Stored(r)' /\ pc'[r] \in Inserting
  <2>1. CASE InsertAudit(r)
    BY <1>4, <2>1 DEF InsertAudit, At, Inserter, Inserting
  <2>2. CASE InsertNode(r)
    BY <1>4, <2>2 DEF InsertNode, At, Inserter, Inserting
  <2>3. CASE Fail(r) \/ Refused(r)
    BY <1>4, <2>3 DEF Fail, Refused, Inserter
  <2>4. ~(NotifyCreate(r) \/ SaveConflict(r) \/ NotifyUpdate(r))
    BY <1>4, SaveReturns DEF Inserting
  <2>5. /\ ~CheckRevision(r) /\ ~UpdateNode(r) /\ ~InsertAuditRevision(r)
        /\ ~Announce(r) /\ ~Select(r) /\ ~NextRemoval(r) /\ ~SoftDelete(r)
    BY <1>4, ZenonT(40) DEF TypeOK, Inserting, CheckRevision, UpdateNode, InsertAuditRevision,
       Announce, Select, NextRemoval, SoftDelete
  <2>6. ASSUME NEW j \in Requests
        PROVE  /\ ~CallRemoveOne(r, j)
               /\ \A d \in Data, b, rv \in BOOLEAN : ~CallUpdate(r, j, d, b, rv)
    BY <1>4 DEF TypeOK, Inserting, CallRemoveOne, CallUpdate
  <2>7. ~CallRemove(r)
    BY <1>4 DEF TypeOK, Inserting, CallRemove
  <2> QED
    BY <1>4, <2>1, <2>2, <2>3, <2>4, <2>5, <2>6, <2>7 DEF Step, Call, Statement
<1> QED
    BY <1>1, <1>2, <1>3, <1>4 DEF Inserter

LEMMA InsertersDifferStep ==
    ASSUME IInv, RowsOwned, InsertersDiffer, NEW r \in Requests, Step(r)
    PROVE  InsertersDiffer'
<1> USE DEF IInv
<1>1. ASSUME NEW n \in NewNodes, NEW rv \in BOOLEAN, CallInsert(r, n, rv),
             NEW j \in Requests, Inserter(j)', j # r, n.uuid \notin Given
      PROVE  node'[j].uuid # n.uuid
  <2>1. Inserter(j) /\ node'[j] = node[j]
    BY <1>1, NewInserters
  <2>2. node[j] # NoNode
    BY <2>1 DEF Inserter, RowsOwned, RowOwned, InsertFrames
  <2> QED
    BY <1>1, <2>1, <2>2 DEF CallInsert, Unused
<1>2. ASSUME NEW n \in NewNodes, NEW rv \in BOOLEAN, CallInsert(r, n, rv)
      PROVE  node'[r] = n
    BY <1>2 DEF TypeOK, CallInsert
<1> QED
    BY <1>1, <1>2, NewInserters DEF InsertersDiffer

\* A reference that NewV4 returned names one row, however many requests try to
\* save documents for it.
THEOREM OneRowForEachNode == ApiSpec => []OneRowPerNode
<1> DEFINE J == RowsOwned /\ InsertersDiffer
<1>1. ApiInit => J
    BY DEF ApiInit, Init, RowsOwned, RowOwned, InsertersDiffer, Inserter, Inserting, Stored
<1>2. IInv /\ J /\ [ApiNext]_apiVars => J'
  <2> SUFFICES ASSUME IInv, J, [ApiNext]_apiVars
               PROVE  J'
    OBVIOUS
  <2>1. CASE UNCHANGED vars
    BY <2>1 DEF vars, RowsOwned, RowOwned, InsertersDiffer, Inserter, Stored
  <2> QED
    BY <2>1, ApiSteps, RouteStepIsStep, RowsOwnedStep, InsertersDifferStep
    DEF apiVars, IInv
<1>3. J => OneRowPerNode
    BY DEF RowsOwned, RowOwned, InsertersDiffer, Inserter, OneRowPerNode
<1> QED
    BY <1>1, <1>2, <1>3, ApiTyped, PTL DEF ApiSpec

-----------------------------------------------------------------------------
(* Accepted documents are in the audit table.                              *)

Record(r) == [by |-> r, node |-> node[r]]

\* Only Remove is at its own statements.
RemovalFrames == \A r \in Requests : pc[r] \in {"select", "next", "softDelete"} => op[r] = "remove"

\* A save that stored a new revision copied it before it says so.
NoticesLogged == \A r \in Requests : pc[r] = "notify" /\ revise[r] => Record(r) \in audit

AcceptedLogged ==
    \A r \in Requests :
        outcome[r] = "ok" /\ op[r] \in {"save", "removeOne"} /\ (revise[r] \/ id[r] = r) =>
            Record(r) \in audit

LEMMA RemovalFramesStep ==
    ASSUME IInv, RemovalFrames, NEW r \in Requests, Step(r)
    PROVE  RemovalFrames'
<1> USE DEF IInv
<1>1. ASSUME NEW s \in Requests, s # r
      PROVE  pc'[s] \in {"select", "next", "softDelete"} => op'[s] = "remove"
    BY <1>1, OtherFrames DEF RemovalFrames
<1>2. ASSUME pc'[r] \in {"select", "next", "softDelete"}
      PROVE  op'[r] = "remove"
  <2>1. CASE CallRemove(r)
    BY <2>1 DEF TypeOK, CallRemove
  <2>2. CASE Fail(r) \/ Refused(r)
    BY <1>2, <2>2 DEF Fail, Refused, RemovalFrames
  <2>3. CASE NotifyCreate(r) \/ SaveConflict(r) \/ NotifyUpdate(r)
    BY <1>2, <2>3 DEF TypeOK, NotifyCreate, SaveConflict, NotifyUpdate, Return
  <2>4. CASE Select(r) \/ NextRemoval(r) \/ SoftDelete(r)
    BY <2>4 DEF Select, NextRemoval, SoftDelete, At, RemovalFrames
  <2>5. /\ ~InsertAudit(r) /\ ~InsertNode(r) /\ ~CheckRevision(r) /\ ~UpdateNode(r)
        /\ ~InsertAuditRevision(r) /\ ~Announce(r)
    BY <1>2 DEF TypeOK, InsertAudit, InsertNode, CheckRevision, UpdateNode,
       InsertAuditRevision, Announce
  <2>6. ASSUME Call(r), ~CallRemove(r)
        PROVE  FALSE
    BY <1>2, <2>6 DEF TypeOK, Call, CallInsert, CallUpdate, CallRemoveOne
  <2> QED
    BY <2>1, <2>2, <2>3, <2>4, <2>5, <2>6 DEF Step, Statement
<1> QED
    BY <1>1, <1>2 DEF RemovalFrames

LEMMA NoticesLoggedStep ==
    ASSUME IInv, NoticesLogged, NEW r \in Requests, Step(r)
    PROVE  NoticesLogged'
<1> USE DEF IInv
<1>1. ASSUME NEW s \in Requests, s # r, pc'[s] = "notify", revise'[s]
      PROVE  Record(s)' \in audit'
    BY <1>1, OtherFrames, AuditWrites DEF NoticesLogged, Record
<1>2. ASSUME pc'[r] = "notify", revise'[r]
      PROVE  Record(r)' \in audit'
  <2>1. CASE InsertAuditRevision(r)
    BY <2>1 DEF InsertAuditRevision, Record
  <2>2. CASE Fail(r) \/ Refused(r)
    BY <1>2, <2>2 DEF Fail, Refused, NoticesLogged, Record
  <2>3. ~UpdateNode(r)
    BY <1>2 DEF TypeOK, UpdateNode
  <2>4. ~(NotifyCreate(r) \/ SaveConflict(r) \/ NotifyUpdate(r))
    BY <1>2, SaveReturns
  <2>5. ~InsertAudit(r) /\ ~InsertNode(r) /\ ~CheckRevision(r) /\ ~Announce(r)
    BY <1>2 DEF TypeOK, InsertAudit, InsertNode, CheckRevision, Announce
  <2>6. ~Select(r) /\ ~NextRemoval(r) /\ ~SoftDelete(r)
    BY <1>2 DEF TypeOK, Select, NextRemoval, SoftDelete, At
  <2>7. ~Call(r)
    BY <1>2, ZenonT(40) DEF TypeOK, Call, CallInsert, CallUpdate, CallRemoveOne, CallRemove
  <2> QED
    BY <2>1, <2>2, <2>3, <2>4, <2>5, <2>6, <2>7 DEF Step, Statement
<1> QED
    BY <1>1, <1>2 DEF NoticesLogged

LEMMA AcceptedLoggedStep ==
    ASSUME IInv, RowsOwned, RemovalFrames, NoticesLogged, AcceptedLogged,
           NEW r \in Requests, Step(r)
    PROVE  AcceptedLogged'
<1> USE DEF IInv
<1>1. ASSUME NEW s \in Requests, s # r, outcome'[s] = "ok",
             op'[s] \in {"save", "removeOne"}, revise'[s] \/ id'[s] = s
      PROVE  Record(s)' \in audit'
    BY <1>1, OtherFrames, OtherOutcomes, AuditWrites DEF AcceptedLogged, Record
<1>2. ASSUME outcome'[r] = "ok",
             op'[r] \in {"save", "removeOne"}, revise'[r] \/ id'[r] = r
      PROVE  Record(r)' \in audit'
  <2>1. CASE NotifyCreate(r)
    BY <2>1 DEF NotifyCreate, At, InsertFrames, Record
  <2>2. CASE NotifyUpdate(r)
    <3>1. Stored(id[r])
      BY <2>2 DEF NotifyUpdate, At, HeldCopies, Holding, Copy
    <3>2. id[r] # r
      BY <2>2, <3>1 DEF NotifyUpdate, At, RowsOwned, RowOwned
    <3> QED
      BY <1>2, <2>2, <3>2 DEF NotifyUpdate, At, NoticesLogged, Record
  <2>3. ~Select(r)
    BY <1>2 DEF Select, At, RemovalFrames
  <2>4. ~SaveConflict(r)
    BY <1>2 DEF TypeOK, SaveConflict, At, Return
  <2>5. ~Fail(r) /\ ~Refused(r)
    BY <1>2 DEF TypeOK, Fail, Refused
  <2>6. /\ ~InsertAudit(r) /\ ~InsertNode(r) /\ ~CheckRevision(r) /\ ~UpdateNode(r)
        /\ ~InsertAuditRevision(r) /\ ~Announce(r) /\ ~NextRemoval(r) /\ ~SoftDelete(r)
    BY <1>2 DEF At, InsertAudit, InsertNode, CheckRevision, UpdateNode,
       InsertAuditRevision, Announce, NextRemoval, SoftDelete
  <2>7. ~Call(r)
    BY <1>2 DEF At, Call, CallInsert, CallUpdate, CallRemoveOne, CallRemove
  <2> QED
    BY <2>1, <2>2, <2>3, <2>4, <2>5, <2>6, <2>7 DEF Step, Statement
<1> QED
    BY <1>1, <1>2 DEF AcceptedLogged

\* A document that was acknowledged, and that the manager did not refuse, is in
\* the audit table as the client sent it.
THEOREM AcceptedDocumentsAreKept == ApiSpec => []AcceptedInHistory
<1> DEFINE J == RowsOwned /\ RemovalFrames /\ NoticesLogged /\ AcceptedLogged
<1>1. ApiInit => J
    BY DEF ApiInit, Init, RowsOwned, RowOwned, Stored, RemovalFrames, NoticesLogged,
       AcceptedLogged
<1>2. IInv /\ J /\ [ApiNext]_apiVars => J'
  <2> SUFFICES ASSUME IInv, J, [ApiNext]_apiVars
               PROVE  J'
    OBVIOUS
  <2>1. CASE UNCHANGED vars
    BY <2>1 DEF vars, RowsOwned, RowOwned, Stored, RemovalFrames, NoticesLogged,
       AcceptedLogged, Record
  <2> QED
    BY <2>1, ApiSteps, RouteStepIsStep, RowsOwnedStep, RemovalFramesStep,
       NoticesLoggedStep, AcceptedLoggedStep
    DEF apiVars, IInv
<1>3. J => AcceptedInHistory
    BY DEF AcceptedLogged, AcceptedInHistory, Record
<1> QED
    BY <1>1, <1>2, <1>3, ApiTyped, PTL DEF ApiSpec

=============================================================================
