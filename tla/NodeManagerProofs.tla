-------------------------- MODULE NodeManagerProofs --------------------------
(***************************************************************************)
(* Safety of the node manager for any number of calls, nodes and revisions.*)
(*                                                                         *)
(* The argument: what a call holds in hand (the node it saves, the batch   *)
(* it removes) is a copy of a row whose history is complete, because rows  *)
(* have complete histories when they are copied and histories only grow.   *)
(* A stale copy that is written over a row therefore gives the row a       *)
(* revision that was already audited, and a new revision extends a         *)
(* complete history by one.                                                *)
(*                                                                         *)
(* The second part is about conflicts: until somebody stores a new         *)
(* revision of a row, all copies of it that are held say the same one.     *)
(***************************************************************************)
EXTENDS NodeManager, TLAPS

\* Request i audited node u when it inserted it, and every revision from that
\* one to k is audited.
History(i, u, k) ==
    \E a \in audit :
        /\ a.by = i
        /\ a.node.uuid = u
        /\ \A j \in a.node.revision .. k : Logged(u, j)

\* n is a copy of row i, perhaps an old one.
Copy(i, n) ==
    /\ Stored(i)
    /\ n # NoNode
    /\ n.uuid = nodes[i].uuid
    /\ n.type = nodes[i].type

Inserting == {"insertAudit", "insert", "created"}

Holding == {"announce", "check", "update", "log", "notify", "softDelete"}

\* A call that inserts owns its row and its node; the row appears last.
InsertFrames ==
    \A r \in Requests :
        /\ pc[r] \in Inserting => node[r] # NoNode /\ op[r] # "remove"
        /\ pc[r] \in {"idle", "insertAudit", "insert"} => ~Stored(r)
        /\ pc[r] \in {"insert", "created"} => [by |-> r, node |-> node[r]] \in audit

\* The nodes in hand are copies of rows.
HeldCopies ==
    \A r \in Requests :
        /\ pc[r] \in Holding => Copy(id[r], node[r])
        /\ \A t \in todo[r] : Copy(t[1], t[2])

\* What call r holds says that row i, of node u, got as far as revision k: its
\* node (whose revision a save has already counted up at "update") or one of
\* the nodes of its batch.
Claims(r, i, u, k) ==
    \/ /\ pc[r] \in {"announce", "check"}
       /\ i = id[r] /\ u = node[r].uuid /\ k = node[r].revision
    \/ /\ pc[r] = "update"
       /\ i = id[r] /\ u = node[r].uuid
       /\ k = IF revise[r] THEN node[r].revision - 1 ELSE node[r].revision
    \/ \E t \in todo[r] : i = t[1] /\ u = t[2].uuid /\ k = t[2].revision

RowClaims(i, u, k) ==
    Stored(i) /\ u = nodes[i].uuid /\ k = nodes[i].revision

HeldHistories ==
    \A r, i \in Requests, u \in Uuids, k \in Int :
        Claims(r, i, u, k) => History(i, u, k)

RowHistories ==
    \A i \in Requests, u \in Uuids, k \in Int :
        RowClaims(i, u, k) => History(i, u, k)

\* The events about to be sent are backed.
NoticeBacked ==
    \A r \in Requests :
        pc[r] = "notify" /\ revise[r] =>
            \E a \in audit : a.node.uuid = node[r].uuid /\ a.node.revision = node[r].revision

IInv ==
    /\ TypeOK
    /\ InsertFrames
    /\ HeldCopies
    /\ HeldHistories
    /\ RowHistories
    /\ NoticeBacked
    /\ EventBacked

-----------------------------------------------------------------------------
(* Type correctness.                                                       *)

LEMMA NodeFields ==
    ASSUME NEW n \in Node, NEW b \in BOOLEAN, NEW d \in Data
    PROVE  [n EXCEPT !.data = d, !.deleted = b] \in Node
BY DEF Node

LEMMA StoredNode ==
    ASSUME TypeOK, NEW i \in Requests, Stored(i)
    PROVE  nodes[i] \in Node
BY DEF TypeOK, Stored

\* What the last statement of Save does to the request and nothing else.
LEMMA ReturnTyped ==
    ASSUME TypeOK, NEW r \in Requests, NEW answer \in {"ok", "conflict"}, Return(r, answer)
    PROVE  /\ pc' \in [Requests -> Labels]
           /\ outcome' \in [Requests -> {"running", "ok", "conflict", "panic"}]
           /\ pc'[r] \in {"softDelete", "done"}
           /\ \A s \in Requests \ {r} : pc'[s] = pc[s]
BY DEF TypeOK, Return, Labels

LEMMA ModelEventTyped ==
    ASSUME NEW n \in Node, NEW b \in BOOLEAN,
           NEW action \in {"Create", "Update", "SoftDelete"}
    PROVE  ModelEvent(action, n, b) \in Event
BY DEF ModelEvent, Event, Node

LEMMA InHandTyped ==
    ASSUME TypeOK, InsertFrames, HeldCopies, NEW r \in Requests,
           pc[r] \in Inserting \cup Holding
    PROVE  node[r] \in Node /\ node[r] # NoNode
<1>1. node[r] # NoNode
  <2>1. CASE pc[r] \in Inserting
    BY <2>1 DEF InsertFrames
  <2>2. CASE pc[r] \in Holding
    BY <2>2 DEF HeldCopies, Copy
  <2> QED
    BY <2>1, <2>2
<1> QED
    BY <1>1 DEF TypeOK

LEMMA TypeStep ==
    TypeOK /\ InsertFrames /\ HeldCopies /\ [Next]_vars => TypeOK'
<1> SUFFICES ASSUME TypeOK, InsertFrames, HeldCopies, [Next]_vars
             PROVE  TypeOK'
    OBVIOUS
<1>1. CASE UNCHANGED vars
    BY <1>1 DEF vars, TypeOK
<1>2. ASSUME NEW r \in Requests, Call(r)
      PROVE  TypeOK'
  <2>1. ASSUME NEW n \in NewNodes, NEW rv \in BOOLEAN, CallInsert(r, n, rv)
        PROVE  TypeOK'
    <3>1. n \in Node
        BY ConstantsAssumption DEF NewNodes, Node
    <3> QED
        BY <2>1, <3>1 DEF TypeOK, CallInsert, Labels
  <2>2. ASSUME NEW i \in Requests, NEW d \in Data, NEW b \in BOOLEAN, NEW rv \in BOOLEAN,
               CallUpdate(r, i, d, b, rv)
        PROVE  TypeOK'
    <3>1. [nodes[i] EXCEPT !.data = d, !.deleted = b] \in Node
        BY <2>2, StoredNode, NodeFields DEF CallUpdate
    <3> QED
        BY <2>2, <3>1 DEF TypeOK, CallUpdate, Labels
  <2>3. ASSUME NEW i \in Requests, CallRemoveOne(r, i)
        PROVE  TypeOK'
    <3>1. [nodes[i] EXCEPT !.deleted = TRUE] \in Node
        BY <2>3, StoredNode DEF CallRemoveOne, Node
    <3> QED
        BY <2>3, <3>1 DEF TypeOK, CallRemoveOne, Labels
  <2>4. CASE CallRemove(r)
    BY <2>4 DEF TypeOK, CallRemove, Labels
  <2> QED
    BY <1>2, <2>1, <2>2, <2>3, <2>4 DEF Call
<1>3. ASSUME NEW r \in Requests, Statement(r)
      PROVE  TypeOK'
  <2>0. pc[r] \in Inserting \cup Holding => node[r] \in Node
    BY InHandTyped
  <2>1. CASE InsertAudit(r)
    BY <2>0, <2>1 DEF TypeOK, InsertAudit, At, Labels, Inserting
  <2>2. CASE InsertNode(r)
    BY <2>0, <2>2 DEF TypeOK, InsertNode, At, Labels, Inserting
  <2>3. CASE NotifyCreate(r)
    <3>1. bus' \in SUBSET Event
        BY <2>0, <2>3, ModelEventTyped DEF TypeOK, NotifyCreate, At, Inserting
    <3> QED
        BY <2>3, <3>1, ReturnTyped DEF TypeOK, NotifyCreate
  <2>4. CASE SaveConflict(r)
    BY <2>4, ReturnTyped DEF TypeOK, SaveConflict
  <2>5. CASE CheckRevision(r)
    <3>1. [node[r] EXCEPT !.revision = NextRevision(node[r].revision, revise[r])] \in Node
        BY <2>0, <2>5 DEF CheckRevision, At, Holding, NextRevision, Node
    <3>2. node' = [node EXCEPT ![r] =
                      [node[r] EXCEPT !.revision = NextRevision(node[r].revision, revise[r])]]
        BY <2>5 DEF CheckRevision
    <3>3. node' \in [Requests -> Node \cup {NoNode}]
        BY <3>1, <3>2 DEF TypeOK
    <3> QED
        BY <2>5, <3>3 DEF TypeOK, CheckRevision, Labels
  <2>6. CASE UpdateNode(r)
    BY <2>0, <2>6 DEF TypeOK, UpdateNode, At, Labels, Holding
  <2>7. CASE InsertAuditRevision(r)
    BY <2>0, <2>7 DEF TypeOK, InsertAuditRevision, At, Labels, Holding
  <2>8. CASE NotifyUpdate(r)
    <3>1. bus' \in SUBSET Event
        BY <2>0, <2>8, ModelEventTyped DEF TypeOK, NotifyUpdate, At, Holding
    <3> QED
        BY <2>8, <3>1, ReturnTyped DEF TypeOK, NotifyUpdate
  <2>9. CASE Announce(r)
    <3>1. bus' \in SUBSET Event
        BY <2>0, <2>9, ModelEventTyped DEF TypeOK, Announce, At, Holding
    <3> QED
        BY <2>9, <3>1 DEF TypeOK, Announce, Labels
  <2>10. CASE Select(r)
    <3>1. PICK B \in Batches :
              /\ todo' = [todo EXCEPT ![r] = {<<i, nodes[i]>> : i \in B}]
              /\ \/ /\ pc' = [pc EXCEPT ![r] = "done"]
                    /\ outcome' = [outcome EXCEPT ![r] = "ok"]
                 \/ /\ pc' = [pc EXCEPT ![r] = "next"]
                    /\ UNCHANGED outcome
        BY <2>10 DEF Select
    <3>2. \A i \in B : i \in Requests /\ nodes[i] \in Node
        BY StoredNode DEF Batches, Undeleted
    <3>3. {<<i, nodes[i]>> : i \in B} \in SUBSET (Requests \X Node)
        BY <3>2
    <3> QED
        BY <2>10, <3>1, <3>3 DEF TypeOK, Select, Labels
  <2>11. CASE NextRemoval(r)
    <3>1. PICK t \in todo[r] :
              /\ node' = [node EXCEPT ![r] = [t[2] EXCEPT !.deleted = TRUE]]
              /\ id' = [id EXCEPT ![r] = t[1]]
              /\ todo' = [todo EXCEPT ![r] = @ \ {t}]
        BY <2>11 DEF NextRemoval
    <3>2. t[1] \in Requests /\ t[2] \in Node
        BY DEF TypeOK
    <3>3. [t[2] EXCEPT !.deleted = TRUE] \in Node
        BY <3>2 DEF Node
    <3> QED
        BY <2>11, <3>1, <3>2, <3>3 DEF TypeOK, NextRemoval, Labels
  <2>12. CASE SoftDelete(r)
    <3>1. bus' \in SUBSET Event
        BY <2>0, <2>12, ModelEventTyped DEF TypeOK, SoftDelete, At, Holding
    <3> QED
        BY <2>12, <3>1 DEF TypeOK, SoftDelete, Labels
  <2>13. CASE Refused(r)
    BY <2>13 DEF TypeOK, Refused, Fail
  <2> QED
    BY <1>3, <2>1, <2>2, <2>3, <2>4, <2>5, <2>6, <2>7, <2>8, <2>9, <2>10, <2>11, <2>12,
       <2>13 DEF Statement
<1>4. ASSUME NEW r \in Requests, Fail(r)
      PROVE  TypeOK'
    BY <1>4 DEF TypeOK, Fail
<1> QED
    BY <1>1, <1>2, <1>3, <1>4 DEF Next

-----------------------------------------------------------------------------
(* What a step leaves alone: the frames of the other calls, the rows'      *)
(* identities and everything that was audited.                             *)

Step(r) == Call(r) \/ Statement(r) \/ Fail(r)

LEMMA OtherFrames ==
    ASSUME TypeOK, NEW r \in Requests, Step(r), NEW s \in Requests, s # r
    PROVE  /\ pc'[s] = pc[s]
           /\ node'[s] = node[s]
           /\ id'[s] = id[s]
           /\ revise'[s] = revise[s]
           /\ todo'[s] = todo[s]
           /\ op'[s] = op[s]
<1>1. ASSUME Call(r)
      PROVE  /\ pc'[s] = pc[s] /\ node'[s] = node[s] /\ id'[s] = id[s]
             /\ revise'[s] = revise[s] /\ todo'[s] = todo[s] /\ op'[s] = op[s]
  <2>1. ASSUME NEW n \in NewNodes, NEW rv \in BOOLEAN, CallInsert(r, n, rv)
        PROVE  /\ pc'[s] = pc[s] /\ node'[s] = node[s] /\ id'[s] = id[s]
               /\ revise'[s] = revise[s] /\ todo'[s] = todo[s] /\ op'[s] = op[s]
    BY <2>1 DEF TypeOK, CallInsert
  <2>2. ASSUME NEW i \in Requests, NEW d \in Data, NEW b \in BOOLEAN, NEW rv \in BOOLEAN,
               CallUpdate(r, i, d, b, rv)
        PROVE  /\ pc'[s] = pc[s] /\ node'[s] = node[s] /\ id'[s] = id[s]
               /\ revise'[s] = revise[s] /\ todo'[s] = todo[s] /\ op'[s] = op[s]
    BY <2>2 DEF TypeOK, CallUpdate
  <2>3. ASSUME NEW i \in Requests, CallRemoveOne(r, i)
        PROVE  /\ pc'[s] = pc[s] /\ node'[s] = node[s] /\ id'[s] = id[s]
               /\ revise'[s] = revise[s] /\ todo'[s] = todo[s] /\ op'[s] = op[s]
    BY <2>3 DEF TypeOK, CallRemoveOne
  <2>4. CASE CallRemove(r)
    BY <2>4 DEF TypeOK, CallRemove
  <2> QED
    BY <1>1, <2>1, <2>2, <2>3, <2>4 DEF Call
<1>2. ASSUME Statement(r)
      PROVE  /\ pc'[s] = pc[s] /\ node'[s] = node[s] /\ id'[s] = id[s]
             /\ revise'[s] = revise[s] /\ todo'[s] = todo[s] /\ op'[s] = op[s]
  <2>1. CASE InsertAudit(r) \/ InsertNode(r) \/ UpdateNode(r) \/ InsertAuditRevision(r)
    BY <2>1 DEF TypeOK, InsertAudit, InsertNode, UpdateNode, InsertAuditRevision
  <2>5. CASE CheckRevision(r)
    BY <2>5 DEF TypeOK, CheckRevision
  <2>2. CASE NotifyCreate(r) \/ SaveConflict(r) \/ NotifyUpdate(r)
    BY <2>2, ReturnTyped DEF NotifyCreate, SaveConflict, NotifyUpdate
  <2>3. CASE Announce(r) \/ SoftDelete(r) \/ Refused(r)
    BY <2>3 DEF TypeOK, Announce, SoftDelete, Refused, Fail
  <2>4. CASE Select(r) \/ NextRemoval(r)
    BY <2>4 DEF TypeOK, Select, NextRemoval
  <2> QED
    BY <1>2, <2>1, <2>2, <2>3, <2>4, <2>5 DEF Statement
<1>3. CASE Fail(r)
    BY <1>3 DEF Fail
<1> QED
    BY <1>1, <1>2, <1>3 DEF Step

\* Only two statements write the table of nodes, and only the row of the call.
LEMMA RowWrites ==
    ASSUME NEW r \in Requests, Step(r)
    PROVE  \/ nodes' = nodes
           \/ InsertNode(r)
           \/ UpdateNode(r)
<1>1. CASE Call(r)
    BY <1>1 DEF Call, CallInsert, CallUpdate, CallRemoveOne, CallRemove
<1>2. CASE Statement(r)
    BY <1>2 DEF Statement, InsertAudit, NotifyCreate, SaveConflict, CheckRevision,
       InsertAuditRevision, NotifyUpdate, Announce, Select, NextRemoval, SoftDelete,
       Refused, Fail
<1>3. CASE Fail(r)
    BY <1>3 DEF Fail
<1> QED
    BY <1>1, <1>2, <1>3 DEF Step

\* Only two statements write the audit table.
LEMMA AuditWrites ==
    ASSUME NEW r \in Requests, Step(r)
    PROVE  \/ audit' = audit
           \/ /\ InsertAudit(r) \/ InsertAuditRevision(r)
              /\ audit' = audit \cup {[by |-> r, node |-> node[r]]}
<1>1. CASE Call(r)
    BY <1>1 DEF Call, CallInsert, CallUpdate, CallRemoveOne, CallRemove
<1>2. CASE Statement(r)
    BY <1>2 DEF Statement, InsertAudit, InsertNode, UpdateNode, NotifyCreate, SaveConflict,
       CheckRevision, InsertAuditRevision, NotifyUpdate, Announce, Select, NextRemoval,
       SoftDelete, Refused, Fail
<1>3. CASE Fail(r)
    BY <1>3 DEF Fail
<1> QED
    BY <1>1, <1>2, <1>3 DEF Step

\* A row keeps its reference and its type.
LEMMA RowsStable ==
    ASSUME TypeOK, InsertFrames, HeldCopies, NEW r \in Requests, Step(r),
           NEW i \in Requests, Stored(i)
    PROVE  /\ Stored(i)'
           /\ nodes'[i] # NoNode
           /\ nodes'[i].uuid = nodes[i].uuid
           /\ nodes'[i].type = nodes[i].type
<1>1. CASE nodes' = nodes
    BY <1>1 DEF Stored
<1>2. CASE InsertNode(r)
  <2>1. i # r
    BY <1>2 DEF InsertFrames, InsertNode, At
  <2> QED
    BY <1>2, <2>1 DEF TypeOK, InsertNode, Stored
<1>3. CASE UpdateNode(r)
  <2>1. Copy(id[r], node[r])
    BY <1>3 DEF HeldCopies, UpdateNode, At, Holding
  <2>2. CASE i = id[r]
    BY <1>3, <2>1, <2>2 DEF TypeOK, UpdateNode, Stored, Copy
  <2>3. CASE i # id[r]
    BY <1>3, <2>3 DEF TypeOK, UpdateNode, Stored
  <2> QED
    BY <2>2, <2>3
<1> QED
    BY <1>1, <1>2, <1>3, RowWrites

LEMMA CopyStable ==
    ASSUME TypeOK, InsertFrames, HeldCopies, NEW r \in Requests, Step(r),
           NEW i \in Requests, NEW n, Copy(i, n)
    PROVE  Copy(i, n)'
BY RowsStable DEF Copy

\* What is audited, or bound to be, stays so.
LEMMA LoggedStable ==
    ASSUME TypeOK, NEW r \in Requests, Step(r), NEW u, NEW k, Logged(u, k)
    PROVE  Logged(u, k)'
<1>1. CASE \E a \in audit : a.node.uuid = u /\ a.node.revision = k
    BY <1>1, AuditWrites DEF Logged
<1>2. ASSUME NEW s \in Requests, pc[s] = "log", node[s].uuid = u, node[s].revision = k
      PROVE  Logged(u, k)'
  <2>1. CASE s # r
    BY <1>2, <2>1, OtherFrames DEF Logged
  <2>2. CASE s = r /\ InsertAuditRevision(r)
    <3>1. [by |-> r, node |-> node[r]] \in audit'
        BY <2>2 DEF InsertAuditRevision
    <3> QED
        BY <1>2, <2>2, <3>1 DEF Logged
  <2>3. CASE s = r /\ ~InsertAuditRevision(r)
    <3>1. Fail(r)
        BY <1>2, <2>3 DEF Step, Call, CallInsert, CallUpdate, CallRemoveOne, CallRemove,
           Statement, At, InsertAudit, InsertNode, UpdateNode, NotifyCreate, SaveConflict,
           CheckRevision, NotifyUpdate, Announce, Select, NextRemoval, SoftDelete, Refused
    <3> QED
        BY <1>2, <2>3, <3>1 DEF Fail, Logged
  <2> QED
    BY <2>1, <2>2, <2>3
<1> QED
    BY <1>1, <1>2 DEF Logged

LEMMA HistoryStable ==
    ASSUME TypeOK, NEW r \in Requests, Step(r), NEW i, NEW u, NEW k, History(i, u, k)
    PROVE  History(i, u, k)'
<1>1. PICK a \in audit :
          /\ a.by = i
          /\ a.node.uuid = u
          /\ \A j \in a.node.revision .. k : Logged(u, j)
    BY DEF History
<1>2. a \in audit'
    BY AuditWrites
<1>3. \A j \in a.node.revision .. k : Logged(u, j)'
    BY <1>1, LoggedStable
<1> QED
    BY <1>1, <1>2, <1>3 DEF History

-----------------------------------------------------------------------------
(* The frames of the calls.                                                *)

LEMMA InsertFramesStep ==
    ASSUME TypeOK, InsertFrames, HeldCopies, NEW r \in Requests, Step(r)
    PROVE  InsertFrames'
<1> DEFINE Frame(s) ==
        /\ pc[s] \in Inserting => node[s] # NoNode /\ op[s] # "remove"
        /\ pc[s] \in {"idle", "insertAudit", "insert"} => ~Stored(s)
        /\ pc[s] \in {"insert", "created"} => [by |-> s, node |-> node[s]] \in audit
<1>1. \A s \in Requests : Frame(s)
    BY DEF InsertFrames
<1>2. ASSUME NEW s \in Requests, s # r
      PROVE  Frame(s)'
  <2>1. pc'[s] = pc[s] /\ node'[s] = node[s] /\ op'[s] = op[s] /\ audit \subseteq audit'
    BY <1>2, OtherFrames, AuditWrites
  <2>2. ASSUME ~Stored(s)
        PROVE  ~Stored(s)'
    <3>1. CASE InsertNode(r)
        BY <1>2, <2>2, <3>1 DEF TypeOK, InsertNode, Stored
    <3>2. CASE UpdateNode(r)
      <4>1. id[r] # s
        BY <2>2, <3>2 DEF UpdateNode, At, HeldCopies, Holding, Copy
      <4> QED
        BY <2>2, <3>2, <4>1 DEF TypeOK, UpdateNode, Stored
    <3> QED
        BY <2>2, <3>1, <3>2, RowWrites DEF Stored
  <2> QED
    BY <1>1, <2>1, <2>2
<1>3. Frame(r)'
  <2>1. CASE Call(r)
    <3>1. ASSUME NEW n \in NewNodes, NEW rv \in BOOLEAN, CallInsert(r, n, rv)
          PROVE  Frame(r)'
      <4>1. n # NoNode
        BY ConstantsAssumption DEF NewNodes, Node
      <4> QED
        BY <1>1, <3>1, <4>1 DEF TypeOK, CallInsert, At, Inserting, Stored
    <3>2. CASE ~\E n \in NewNodes, rv \in BOOLEAN : CallInsert(r, n, rv)
      <4>1. pc'[r] \in {"check", "announce", "select"}
        BY <2>1, <3>2 DEF TypeOK, Call, CallUpdate, CallRemoveOne, CallRemove
      <4> QED
        BY <4>1 DEF Inserting
    <3> QED
        BY <3>1, <3>2
  <2>2. CASE InsertAudit(r)
    BY <1>1, <2>2 DEF TypeOK, InsertAudit, At, Inserting, Stored
  <2>3. CASE InsertNode(r)
    BY <1>1, <2>3 DEF TypeOK, InsertNode, At, Inserting, Stored
  <2>4. CASE NotifyCreate(r) \/ SaveConflict(r) \/ NotifyUpdate(r)
    BY <2>4, ReturnTyped DEF NotifyCreate, SaveConflict, NotifyUpdate, Inserting
  <2>5. CASE CheckRevision(r) \/ UpdateNode(r) \/ InsertAuditRevision(r)
    BY <2>5 DEF TypeOK, CheckRevision, UpdateNode, InsertAuditRevision, Inserting
  <2>6. CASE Announce(r) \/ Select(r) \/ NextRemoval(r) \/ SoftDelete(r)
    BY <2>6, ZenonT(40) DEF TypeOK, Announce, Select, NextRemoval, SoftDelete, Inserting
  <2>7. CASE Refused(r) \/ Fail(r)
    BY <1>1, <2>7 DEF Refused, Fail, Stored
  <2> QED
    BY <2>1, <2>2, <2>3, <2>4, <2>5, <2>6, <2>7 DEF Step, Statement
<1> QED
    BY <1>2, <1>3 DEF InsertFrames

\* Editing a node keeps what identifies it and its revision.
LEMMA EditedFields ==
    ASSUME NEW n \in Node, NEW d \in Data, NEW b \in BOOLEAN
    PROVE  LET m == [n EXCEPT !.data = d, !.deleted = b]
           IN  /\ m \in Node
               /\ m.uuid = n.uuid /\ m.type = n.type /\ m.revision = n.revision
<1> DEFINE m == [n EXCEPT !.data = d, !.deleted = b]
           k == [n EXCEPT !.data = d]
<1>1. k \in Node /\ k.uuid = n.uuid /\ k.type = n.type /\ k.revision = n.revision
    BY DEF Node
<1>2. m = [k EXCEPT !.deleted = b]
    OBVIOUS
<1> HIDE DEF k, m
<1>3. /\ m \in Node
      /\ m.uuid = k.uuid /\ m.type = k.type /\ m.revision = k.revision
    BY <1>1, <1>2 DEF Node
<1> QED
    BY <1>1, <1>3 DEF m

\* A copy is one of its row whatever else of it is edited.
LEMMA EditedCopy ==
    ASSUME NEW i \in Requests, NEW n \in Node, Copy(i, n), NEW d \in Data, NEW b \in BOOLEAN
    PROVE  Copy(i, [n EXCEPT !.data = d, !.deleted = b])
<1> DEFINE m == [n EXCEPT !.data = d, !.deleted = b]
<1>1. m \in Node /\ m.uuid = n.uuid /\ m.type = n.type
    BY EditedFields
<1> HIDE DEF m
<1>2. Copy(i, m)
    BY <1>1, ConstantsAssumption DEF Copy
<1> QED
    BY <1>2 DEF m

LEMMA RemovedCopy ==
    ASSUME NEW i \in Requests, NEW n \in Node, Copy(i, n)
    PROVE  Copy(i, [n EXCEPT !.deleted = TRUE])
<1>1. /\ [n EXCEPT !.deleted = TRUE].uuid = n.uuid
      /\ [n EXCEPT !.deleted = TRUE].type = n.type
      /\ [n EXCEPT !.deleted = TRUE] \in Node
    BY DEF Node
<1> QED
    BY <1>1, ConstantsAssumption DEF Copy

LEMMA StoredCopy ==
    ASSUME TypeOK, NEW i \in Requests, Stored(i)
    PROVE  nodes[i] \in Node /\ Copy(i, nodes[i])
BY StoredNode DEF Copy, Stored

LEMMA HeldCopiesStep ==
    ASSUME TypeOK, InsertFrames, HeldCopies, NEW r \in Requests, Step(r)
    PROVE  HeldCopies'
<1> DEFINE Hand(s) == pc[s] \in Holding => Copy(id[s], node[s])
           Batched(s) == \A t \in todo[s] : Copy(t[1], t[2])
<1>1. \A s \in Requests : Hand(s) /\ Batched(s)
    BY DEF HeldCopies
<1>2. \A s \in Requests : \A t \in todo[s] : t[1] \in Requests /\ t[2] \in Node
    BY DEF TypeOK
<1>3. ASSUME NEW s \in Requests, pc[s] \in Holding,
             pc'[s] \in Holding, id'[s] = id[s], node'[s] = node[s]
      PROVE  Hand(s)'
  <2>1. id[s] \in Requests
    BY DEF TypeOK
  <2> QED
    BY <1>1, <1>3, <2>1, RowsStable DEF Copy
<1>4. ASSUME NEW s \in Requests, todo'[s] \subseteq todo[s]
      PROVE  Batched(s)'
    BY <1>1, <1>2, <1>4, RowsStable DEF Copy
<1>5. ASSUME NEW s \in Requests, s # r
      PROVE  Hand(s)' /\ Batched(s)'
  <2>1. /\ pc'[s] = pc[s] /\ node'[s] = node[s]
        /\ id'[s] = id[s] /\ todo'[s] = todo[s]
    BY <1>5, OtherFrames
  <2>2. Batched(s)'
    BY <1>4, <2>1
  <2>3. Hand(s)'
    BY <1>3, <2>1
  <2> QED
    BY <2>2, <2>3
<1>6. Hand(r)' /\ Batched(r)'
  <2>1. CASE Call(r)
    <3>1. todo' = todo /\ nodes' = nodes
        BY <2>1 DEF Call, CallInsert, CallUpdate, CallRemoveOne, CallRemove
    <3>2. ASSUME NEW i \in Requests, NEW d \in Data, NEW b \in BOOLEAN, NEW rv \in BOOLEAN,
                 CallUpdate(r, i, d, b, rv)
          PROVE  Hand(r)'
      <4>1. Copy(i, [nodes[i] EXCEPT !.data = d, !.deleted = b])
        BY <3>2, StoredCopy, EditedCopy DEF CallUpdate
      <4>2. id'[r] = i /\ node'[r] = [nodes[i] EXCEPT !.data = d, !.deleted = b]
        BY <3>2 DEF TypeOK, CallUpdate
      <4> QED
        BY <3>1, <4>1, <4>2 DEF Copy, Stored
    <3>3. ASSUME NEW i \in Requests, CallRemoveOne(r, i)
          PROVE  Hand(r)'
      <4>1. Copy(i, [nodes[i] EXCEPT !.deleted = TRUE])
        BY <3>3, StoredCopy, RemovedCopy DEF CallRemoveOne
      <4>2. id'[r] = i /\ node'[r] = [nodes[i] EXCEPT !.deleted = TRUE]
        BY <3>3 DEF TypeOK, CallRemoveOne
      <4> QED
        BY <3>1, <4>1, <4>2 DEF Copy, Stored
    <3>4. ASSUME \/ \E n \in NewNodes, rv \in BOOLEAN : CallInsert(r, n, rv)
                 \/ CallRemove(r)
          PROVE  Hand(r)'
      <4>1. pc'[r] \in {"insertAudit", "select"}
        BY <3>4 DEF TypeOK, CallInsert, CallRemove
      <4> QED
        BY <4>1 DEF Holding
    <3> QED
        BY <1>4, <2>1, <3>1, <3>2, <3>3, <3>4 DEF Call
  <2>2. CASE InsertAudit(r) \/ InsertNode(r)
    <3>1. pc'[r] \in {"insert", "created"} /\ todo' = todo
        BY <2>2 DEF TypeOK, InsertAudit, InsertNode
    <3> QED
        BY <1>4, <3>1 DEF Holding
  <2>3. CASE NotifyCreate(r)
    <3>1. pc'[r] = "done" /\ todo' = todo
        BY <2>3 DEF TypeOK, NotifyCreate, At, InsertFrames, Inserting, Return
    <3> QED
        BY <1>4, <3>1 DEF Holding
  <2>4. CASE SaveConflict(r) \/ NotifyUpdate(r)
    <3>1. todo' = todo /\ id' = id /\ node' = node /\ pc[r] \in Holding
        BY <2>4 DEF SaveConflict, NotifyUpdate, At, Holding
    <3> QED
        BY <1>3, <1>4, <3>1
  <2>5. CASE CheckRevision(r)
    <3>1. todo' = todo /\ id' = id /\ nodes' = nodes /\ Copy(id[r], node[r])
        BY <1>1, <2>5 DEF CheckRevision, At, Holding
    <3>2. node[r] \in Node /\ node'[r] = [node[r] EXCEPT
              !.revision = NextRevision(node[r].revision, revise[r])]
        BY <2>5, InHandTyped DEF TypeOK, CheckRevision, At, Holding
    <3>3. node'[r] \in Node /\ node'[r].uuid = node[r].uuid /\ node'[r].type = node[r].type
        BY <3>2 DEF Node, NextRevision
    <3>4. Hand(r)'
        BY <3>1, <3>3, ConstantsAssumption DEF Copy, Stored
    <3> QED
        BY <1>4, <3>1, <3>4
  <2>6. CASE UpdateNode(r) \/ InsertAuditRevision(r)
    <3>1. todo' = todo /\ id' = id /\ node' = node /\ pc[r] \in Holding
        BY <2>6 DEF UpdateNode, InsertAuditRevision, At, Holding
    <3> QED
        BY <1>3, <1>4, <3>1
  <2>7. CASE Announce(r)
    <3>1. todo' = todo /\ id' = id /\ node' = node /\ pc[r] \in Holding
        BY <2>7 DEF Announce, At, Holding
    <3> QED
        BY <1>3, <1>4, <3>1
  <2>8. CASE Select(r)
    <3>1. PICK B \in Batches : todo' = [todo EXCEPT ![r] = {<<i, nodes[i]>> : i \in B}]
        BY <2>8 DEF Select
    <3>2. pc'[r] \in {"next", "done"} /\ nodes' = nodes
        BY <2>8 DEF TypeOK, Select
    <3>3. todo'[r] = {<<i, nodes[i]>> : i \in B}
        BY <3>1 DEF TypeOK
    <3>4. \A i \in B : Copy(i, nodes[i])
        BY StoredCopy DEF Batches, Undeleted
    <3>5. \A t \in todo'[r] : Copy(t[1], t[2])
        BY <3>3, <3>4
    <3>6. Batched(r)'
        BY <3>2, <3>5 DEF Copy, Stored
    <3> QED
        BY <3>2, <3>6 DEF Holding
  <2>9. CASE NextRemoval(r)
    <3>1. PICK t \in todo[r] :
              /\ node' = [node EXCEPT ![r] = [t[2] EXCEPT !.deleted = TRUE]]
              /\ id' = [id EXCEPT ![r] = t[1]]
              /\ todo' = [todo EXCEPT ![r] = @ \ {t}]
        BY <2>9 DEF NextRemoval
    <3>2. todo'[r] \subseteq todo[r] /\ nodes' = nodes
        BY <2>9, <3>1 DEF TypeOK, NextRemoval
    <3>3. Copy(t[1], [t[2] EXCEPT !.deleted = TRUE])
        BY <1>1, <1>2, RemovedCopy
    <3>4. id'[r] = t[1] /\ node'[r] = [t[2] EXCEPT !.deleted = TRUE]
        BY <3>1 DEF TypeOK
    <3>5. Hand(r)'
        BY <3>2, <3>3, <3>4 DEF Copy, Stored
    <3> QED
        BY <1>4, <3>2, <3>5
  <2>10. CASE SoftDelete(r)
    <3>1. todo' = todo /\ pc'[r] \in {"select", "next"}
        BY <2>10 DEF TypeOK, SoftDelete
    <3> QED
        BY <1>4, <3>1 DEF Holding
  <2>11. CASE Refused(r) \/ Fail(r)
    <3>1. todo' = todo /\ pc' = pc /\ id' = id /\ node' = node
        BY <2>11 DEF Refused, Fail
    <3> QED
        BY <1>3, <1>4, <3>1
  <2> QED
    BY <2>1, <2>2, <2>3, <2>4, <2>5, <2>6, <2>7, <2>8, <2>9, <2>10, <2>11
       DEF Step, Statement
<1> QED
    BY <1>5, <1>6 DEF HeldCopies

-----------------------------------------------------------------------------
(* Histories.                                                              *)

\* A call learns of a revision from a row or from what it held before.
LEMMA ClaimsStep ==
    ASSUME TypeOK, InsertFrames, HeldCopies, NEW r \in Requests, Step(r),
           NEW s \in Requests, NEW i \in Requests, NEW u \in Uuids, NEW k \in Int,
           Claims(s, i, u, k)'
    PROVE  Claims(s, i, u, k) \/ RowClaims(i, u, k)
<1>1. CASE s # r
    BY <1>1, OtherFrames DEF Claims
<1>2. ASSUME s = r
      PROVE  Claims(r, i, u, k) \/ RowClaims(i, u, k)
  <2>0. Claims(r, i, u, k)'
    BY <1>2
  <2>1. CASE Call(r)
    <3>1. todo' = todo
        BY <2>1 DEF Call, CallInsert, CallUpdate, CallRemoveOne, CallRemove
    <3>2. ASSUME NEW j \in Requests, NEW d \in Data, NEW b \in BOOLEAN, NEW rv \in BOOLEAN,
                 CallUpdate(r, j, d, b, rv)
          PROVE  Claims(r, i, u, k) \/ RowClaims(i, u, k)
      <4>1. id'[r] = j /\ node'[r] = [nodes[j] EXCEPT !.data = d, !.deleted = b] /\ Stored(j)
            /\ pc'[r] = "check"
        BY <3>2 DEF TypeOK, CallUpdate
      <4>2. nodes[j] \in Node
        BY <4>1, StoredNode
      <4>3. node'[r].uuid = nodes[j].uuid /\ node'[r].revision = nodes[j].revision
        <5> DEFINE m == [nodes[j] EXCEPT !.data = d, !.deleted = b]
        <5>1. m.uuid = nodes[j].uuid /\ m.revision = nodes[j].revision
            BY <4>2, EditedFields, ZenonT(40)
        <5>2. node'[r] = m
            BY <4>1
        <5> HIDE DEF m
        <5> QED
            BY <5>1, <5>2
      <4> QED
        BY <2>0, <3>1, <4>1, <4>3 DEF Claims, RowClaims
    <3>3. ASSUME NEW j \in Requests, CallRemoveOne(r, j)
          PROVE  Claims(r, i, u, k) \/ RowClaims(i, u, k)
      <4>1. id'[r] = j /\ node'[r] = [nodes[j] EXCEPT !.deleted = TRUE] /\ Stored(j)
            /\ pc'[r] = "announce"
        BY <3>3 DEF TypeOK, CallRemoveOne
      <4>2. nodes[j] \in Node
        BY <4>1, StoredNode
      <4>3. node'[r].uuid = nodes[j].uuid /\ node'[r].revision = nodes[j].revision
        BY <4>1, <4>2 DEF Node
      <4> QED
        BY <2>0, <3>1, <4>1, <4>3 DEF Claims, RowClaims
    <3>4. ASSUME \/ \E n \in NewNodes, rv \in BOOLEAN : CallInsert(r, n, rv)
                 \/ CallRemove(r)
          PROVE  Claims(r, i, u, k)
      <4>1. pc'[r] \in {"insertAudit", "select"}
        BY <3>4 DEF TypeOK, CallInsert, CallRemove
      <4> QED
        BY <2>0, <3>1, <4>1 DEF Claims
    <3> QED
        BY <2>1, <3>2, <3>3, <3>4 DEF Call
  <2>2. CASE \/ InsertAudit(r) \/ InsertNode(r) \/ UpdateNode(r)
             \/ InsertAuditRevision(r) \/ SoftDelete(r)
    <3>1. /\ todo' = todo
          /\ pc'[r] \in {"insert", "created", "log", "notify", "select", "next"}
        BY <2>2 DEF TypeOK, InsertAudit, InsertNode, UpdateNode, InsertAuditRevision, SoftDelete
    <3> QED
        BY <2>0, <3>1 DEF Claims
  <2>3. CASE NotifyCreate(r) \/ SaveConflict(r) \/ NotifyUpdate(r)
    <3>1. todo' = todo /\ pc'[r] \in {"softDelete", "done"}
        BY <2>3, ReturnTyped DEF NotifyCreate, SaveConflict, NotifyUpdate
    <3> QED
        BY <2>0, <3>1 DEF Claims
  <2>4. CASE CheckRevision(r)
    <3>1. /\ todo' = todo /\ id' = id /\ revise' = revise
          /\ pc[r] = "check" /\ pc'[r] = "update"
        BY <2>4 DEF TypeOK, CheckRevision, At
    <3>2. node[r] \in Node /\ revise[r] \in BOOLEAN /\ node'[r] = [node[r] EXCEPT
              !.revision = NextRevision(node[r].revision, revise[r])]
        BY <2>4, InHandTyped DEF TypeOK, CheckRevision, At, Holding
    <3>3. /\ node'[r].uuid = node[r].uuid
          /\ node'[r].revision = IF revise[r] THEN node[r].revision + 1 ELSE node[r].revision
          /\ node[r].revision \in Nat
        BY <3>2 DEF Node, NextRevision
    <3> QED
        BY <2>0, <3>1, <3>3 DEF Claims
  <2>5. CASE Announce(r)
    <3>1. /\ todo' = todo /\ id' = id /\ node' = node
          /\ pc[r] = "announce" /\ pc'[r] = "check"
        BY <2>5 DEF TypeOK, Announce, At
    <3> QED
        BY <2>0, <3>1 DEF Claims
  <2>6. CASE Select(r)
    <3>1. PICK B \in Batches : todo' = [todo EXCEPT ![r] = {<<j, nodes[j]>> : j \in B}]
        BY <2>6 DEF Select
    <3>2. pc'[r] \in {"next", "done"}
        BY <2>6 DEF TypeOK, Select
    <3>3. todo'[r] = {<<j, nodes[j]>> : j \in B}
        BY <3>1 DEF TypeOK
    <3>4. PICK t \in todo'[r] : i = t[1] /\ u = t[2].uuid /\ k = t[2].revision
        BY <2>0, <3>2 DEF Claims
    <3>5. PICK j \in B : t = <<j, nodes[j]>>
        BY <3>3, <3>4
    <3>6. Stored(j)
        BY <3>5 DEF Batches, Undeleted
    <3> QED
        BY <3>4, <3>5, <3>6 DEF RowClaims
  <2>7. CASE NextRemoval(r)
    <3>1. PICK t \in todo[r] :
              /\ node' = [node EXCEPT ![r] = [t[2] EXCEPT !.deleted = TRUE]]
              /\ id' = [id EXCEPT ![r] = t[1]]
              /\ todo' = [todo EXCEPT ![r] = @ \ {t}]
        BY <2>7 DEF NextRemoval
    <3>2. todo'[r] \subseteq todo[r] /\ pc'[r] = "check" /\ t[2] \in Node
        BY <2>7, <3>1 DEF TypeOK, NextRemoval
    <3>3. id'[r] = t[1] /\ node'[r] = [t[2] EXCEPT !.deleted = TRUE]
        BY <3>1 DEF TypeOK
    <3>4. node'[r].uuid = t[2].uuid /\ node'[r].revision = t[2].revision
        BY <3>2, <3>3 DEF Node
    <3> QED
        BY <2>0, <3>2, <3>3, <3>4 DEF Claims
  <2>8. CASE Refused(r) \/ Fail(r)
    <3>1. todo' = todo /\ pc' = pc /\ id' = id /\ node' = node /\ revise' = revise
        BY <2>8 DEF Refused, Fail
    <3> QED
        BY <2>0, <3>1 DEF Claims
  <2> QED
    BY <2>1, <2>2, <2>3, <2>4, <2>5, <2>6, <2>7, <2>8 DEF Step, Statement
<1> QED
    BY <1>1, <1>2

LEMMA HeldHistoriesStep ==
    ASSUME TypeOK, InsertFrames, HeldCopies, HeldHistories, RowHistories,
           NEW r \in Requests, Step(r)
    PROVE  HeldHistories'
BY ClaimsStep, HistoryStable DEF HeldHistories, RowHistories

\* A row gets a revision that is audited, or the next one, and then the call
\* that gave it is about to audit it.
LEMMA RowHistoriesStep ==
    ASSUME TypeOK, InsertFrames, HeldCopies, HeldHistories, RowHistories,
           NEW r \in Requests, Step(r)
    PROVE  RowHistories'
<1> SUFFICES ASSUME NEW i \in Requests, NEW u \in Uuids, NEW k \in Int, RowClaims(i, u, k)'
             PROVE  History(i, u, k)'
    BY DEF RowHistories
<1>1. CASE RowClaims(i, u, k)
    BY <1>1, HistoryStable DEF RowHistories
<1>2. CASE InsertNode(r) /\ i = r
  <2>1. [by |-> r, node |-> node[r]] \in audit /\ node[r] \in Node
    BY <1>2, InHandTyped DEF InsertNode, At, InsertFrames, Inserting
  <2>2. u = node[r].uuid /\ k = node[r].revision /\ k \in Nat
    BY <1>2, <2>1 DEF TypeOK, InsertNode, RowClaims, Node
  <2>3. \A j \in k .. k : Logged(u, j)
    BY <2>1, <2>2 DEF Logged
  <2>4. History(i, u, k)
    BY <1>2, <2>1, <2>2, <2>3 DEF History
  <2> QED
    BY <2>4, HistoryStable
<1>3. CASE UpdateNode(r) /\ i = id[r]
  <2>1. node[r] \in Node /\ pc[r] = "update"
    BY <1>3, InHandTyped DEF UpdateNode, At, Holding
  <2>2. u = node[r].uuid /\ k = node[r].revision /\ k \in Nat
    BY <1>3, <2>1 DEF TypeOK, UpdateNode, RowClaims, Node
  <2>3. CASE ~revise[r]
    <3>1. Claims(r, i, u, k)
        BY <1>3, <2>1, <2>2, <2>3 DEF Claims
    <3> QED
        BY <3>1, HistoryStable DEF HeldHistories
  <2>4. CASE revise[r]
    <3>1. Claims(r, i, u, k - 1)
        BY <1>3, <2>1, <2>2, <2>4 DEF Claims
    <3>2. History(i, u, k - 1)'
        BY <3>1, HistoryStable DEF HeldHistories
    <3>3. PICK a \in audit' :
              /\ a.by = i
              /\ a.node.uuid = u
              /\ \A j \in a.node.revision .. (k - 1) : Logged(u, j)'
        BY <3>2 DEF History
    <3>4. pc'[r] = "log" /\ node' = node
        BY <1>3, <2>4 DEF TypeOK, UpdateNode
    <3>5. Logged(u, k)'
        BY <2>2, <3>4 DEF Logged
    <3>6. a.node.revision \in Nat
        BY <1>3, <3>3 DEF UpdateNode, TypeOK, Node
    <3>7. \A j \in a.node.revision .. k : j = k \/ j \in a.node.revision .. (k - 1)
        BY <3>6
    <3> QED
        BY <3>3, <3>5, <3>7 DEF History
  <2> QED
    BY <2>3, <2>4
<1>4. \/ RowClaims(i, u, k)
      \/ InsertNode(r) /\ i = r
      \/ UpdateNode(r) /\ i = id[r]
    BY RowWrites DEF TypeOK, InsertNode, UpdateNode, RowClaims, Stored
<1> QED
    BY <1>1, <1>2, <1>3, <1>4

-----------------------------------------------------------------------------
(* Events.                                                                 *)

LEMMA NoticeBackedStep ==
    ASSUME TypeOK, NoticeBacked, NEW r \in Requests, Step(r)
    PROVE  NoticeBacked'
<1> SUFFICES ASSUME NEW s \in Requests, pc'[s] = "notify", revise'[s]
             PROVE  \E a \in audit' :
                        a.node.uuid = node'[s].uuid /\ a.node.revision = node'[s].revision
    BY DEF NoticeBacked
<1>1. audit \subseteq audit'
    BY AuditWrites
<1>2. CASE s # r
    BY <1>1, <1>2, OtherFrames DEF NoticeBacked
<1>3. CASE s = r /\ Fail(r)
    BY <1>3 DEF Fail, NoticeBacked
<1>4. CASE s = r /\ InsertAuditRevision(r)
  <2>1. [by |-> r, node |-> node[r]] \in audit' /\ node' = node
    BY <1>4 DEF InsertAuditRevision
  <2> QED
    BY <1>4, <2>1
<1>5. CASE s = r /\ UpdateNode(r)
  <2>1. revise[r]
    BY <1>5 DEF UpdateNode
  <2>2. pc'[r] = IF revise[r] THEN "log" ELSE "notify"
    BY <1>5 DEF TypeOK, UpdateNode
  <2> QED
    BY <1>5, <2>1, <2>2
<1>6. CASE s = r /\ ~Fail(r) /\ ~InsertAuditRevision(r) /\ ~UpdateNode(r)
  <2>1. CASE Call(r)
    BY <1>6, <2>1 DEF TypeOK, Call, CallInsert, CallUpdate, CallRemoveOne, CallRemove
  <2>2. CASE NotifyCreate(r) \/ SaveConflict(r) \/ NotifyUpdate(r)
    <3>1. pc'[r] \in {"softDelete", "done"}
        BY <2>2, ReturnTyped DEF NotifyCreate, SaveConflict, NotifyUpdate
    <3> QED
        BY <1>6, <3>1
  <2>3. CASE InsertAudit(r) \/ InsertNode(r) \/ CheckRevision(r) \/ Announce(r)
             \/ Select(r) \/ NextRemoval(r) \/ SoftDelete(r)
    BY <1>6, <2>3, ZenonT(40) DEF TypeOK, InsertAudit, InsertNode, CheckRevision, Announce, Select,
       NextRemoval, SoftDelete
  <2> QED
    BY <1>6, <2>1, <2>2, <2>3 DEF Step, Statement, Refused
<1> QED
    BY <1>2, <1>3, <1>4, <1>5, <1>6

\* Only four statements notify.
LEMMA BusWrites ==
    ASSUME NEW r \in Requests, Step(r)
    PROVE  \/ bus' = bus
           \/ NotifyCreate(r)
           \/ NotifyUpdate(r)
           \/ bus' = bus \cup {ModelEvent("SoftDelete", node[r], FALSE)}
<1>1. CASE Call(r)
    BY <1>1 DEF Call, CallInsert, CallUpdate, CallRemoveOne, CallRemove
<1>2. CASE Statement(r)
    BY <1>2 DEF Statement, InsertAudit, InsertNode, UpdateNode, SaveConflict, CheckRevision,
       InsertAuditRevision, Announce, Select, NextRemoval, SoftDelete, Refused, Fail
<1>3. CASE Fail(r)
    BY <1>3 DEF Fail
<1> QED
    BY <1>1, <1>2, <1>3 DEF Step

LEMMA EventBackedStep ==
    ASSUME TypeOK, InsertFrames, NoticeBacked, EventBacked, NEW r \in Requests, Step(r)
    PROVE  EventBacked'
<1> SUFFICES ASSUME NEW e \in bus',
                    e.action = "Create" \/ (e.action = "Update" /\ e.newRevision)
             PROVE  \E a \in audit' :
                        a.node.uuid = e.subject /\ a.node.revision = e.revision
    BY DEF EventBacked
<1>1. audit \subseteq audit'
    BY AuditWrites
<1>2. CASE e \in bus
    BY <1>1, <1>2 DEF EventBacked
<1>3. CASE NotifyCreate(r) /\ e \notin bus
  <2>1. e = ModelEvent("Create", node[r], revise[r])
    BY <1>3 DEF NotifyCreate
  <2>2. [by |-> r, node |-> node[r]] \in audit
    BY <1>3 DEF NotifyCreate, At, InsertFrames
  <2> QED
    BY <1>1, <2>1, <2>2 DEF ModelEvent
<1>4. CASE NotifyUpdate(r) /\ e \notin bus
  <2>1. e = ModelEvent("Update", node[r], revise[r])
    BY <1>4 DEF NotifyUpdate
  <2>2. pc[r] = "notify" /\ e.action = "Update" /\ e.newRevision = revise[r]
    BY <1>4, <2>1 DEF NotifyUpdate, At, ModelEvent
  <2> QED
    BY <1>1, <2>1, <2>2 DEF ModelEvent, NoticeBacked
<1>5. CASE e = ModelEvent("SoftDelete", node[r], FALSE)
    BY <1>5 DEF ModelEvent
<1> QED
    BY <1>2, <1>3, <1>4, <1>5, BusWrites

-----------------------------------------------------------------------------
(* The inductive invariant, and what follows from it.                      *)

LEMMA InitIInv == Init => IInv
<1> SUFFICES ASSUME Init PROVE IInv
    OBVIOUS
<1>1. TypeOK
    BY DEF Init, TypeOK, Labels
<1>2. \A r \in Requests : pc[r] = "idle" /\ ~Stored(r) /\ todo[r] = {}
    BY DEF Init, Stored
<1>3. InsertFrames /\ HeldCopies /\ NoticeBacked
    BY <1>2 DEF InsertFrames, HeldCopies, NoticeBacked, Inserting, Holding
<1>4. HeldHistories /\ RowHistories
    BY <1>2 DEF HeldHistories, RowHistories, Claims, RowClaims
<1>5. EventBacked
    BY DEF Init, EventBacked
<1> QED
    BY <1>1, <1>3, <1>4, <1>5 DEF IInv

LEMMA UnchangedIInv == IInv /\ UNCHANGED vars => IInv'
BY DEF vars, IInv, TypeOK, InsertFrames, HeldCopies, Copy, Stored, HeldHistories,
   RowHistories, Claims, RowClaims, History, Logged, NoticeBacked, EventBacked

LEMMA StepIInv == IInv /\ [Next]_vars => IInv'
<1> SUFFICES ASSUME IInv, [Next]_vars
             PROVE  IInv'
    OBVIOUS
<1>1. CASE UNCHANGED vars
    BY <1>1, UnchangedIInv
<1>2. ASSUME NEW r \in Requests, Step(r)
      PROVE  IInv'
  <2>1. TypeOK'
    BY TypeStep DEF IInv
  <2>2. InsertFrames'
    BY <1>2, InsertFramesStep DEF IInv
  <2>3. HeldCopies'
    BY <1>2, HeldCopiesStep DEF IInv
  <2>4. HeldHistories'
    BY <1>2, HeldHistoriesStep DEF IInv
  <2>5. RowHistories'
    BY <1>2, RowHistoriesStep DEF IInv
  <2>6. NoticeBacked'
    BY <1>2, NoticeBackedStep DEF IInv
  <2>7. EventBacked'
    BY <1>2, EventBackedStep DEF IInv
  <2> QED
    BY <2>1, <2>2, <2>3, <2>4, <2>5, <2>6, <2>7 DEF IInv
<1> QED
    BY <1>1, <1>2 DEF Next, Step

LEMMA Inductive == Spec => []IInv
<1> QED
    BY InitIInv, StepIInv, PTL DEF Spec

\* Every variable keeps its type, whatever the calls do concurrently.
THEOREM TypeCorrect == Spec => []TypeOK
<1>1. IInv => TypeOK
    BY DEF IInv
<1> QED
    BY <1>1, Inductive, PTL

LEMMA IInvAudit == IInv => AuditComplete
<1> SUFFICES ASSUME IInv, NEW i \in Requests, Stored(i)
             PROVE  \E a \in audit :
                        /\ a.by = i
                        /\ a.node.uuid = nodes[i].uuid
                        /\ \A k \in a.node.revision .. nodes[i].revision :
                              Logged(nodes[i].uuid, k)
    BY DEF AuditComplete
<1>1. nodes[i] \in Node
    BY StoredNode DEF IInv
<1>2. nodes[i].uuid \in Uuids /\ nodes[i].revision \in Int
    BY <1>1 DEF Node
<1>3. History(i, nodes[i].uuid, nodes[i].revision)
    BY <1>2 DEF IInv, RowHistories, RowClaims
<1> QED
    BY <1>3 DEF History

\* The audit table has the whole history of every row, without a gap, for any
\* number of concurrent calls that fail at any statement.
THEOREM AuditIsComplete == Spec => []AuditComplete
<1> QED
    BY IInvAudit, Inductive, PTL

\* A new revision is announced only after it was audited.
THEOREM EventsAreBacked == Spec => []EventBacked
<1>1. IInv => EventBacked
    BY DEF IInv
<1> QED
    BY <1>1, Inductive, PTL

-----------------------------------------------------------------------------
(* Conflicts.  Until a call stores a new revision of a row, all copies of  *)
(* the row say the same revision, so that nobody is refused.               *)

\* A call stored a new revision of row i.
Bumped(i) ==
    \E s \in Requests :
        /\ op[s] \in {"save", "removeOne"} /\ revise[s]
        /\ id[s] = i
        /\ pc[s] \in {"log", "notify", "done"} /\ outcome[s] # "conflict"

\* Only calls that are saves or single removals ask for a new revision.
Revising ==
    \A r \in Requests :
        revise[r] => op[r] \in {"save", "removeOne"} /\ pc[r] # "idle"

CopiesAgree ==
    \A r, i \in Requests, u \in Uuids, k \in Int :
        Claims(r, i, u, k) => Bumped(i) \/ RowClaims(i, u, k)

\* A call that was refused had a copy of a bumped row, or looked at another
\* row of the same reference.
ConflictsBacked ==
    \A r \in Requests :
        outcome[r] = "conflict" =>
            /\ pc[r] = "done" /\ Copy(id[r], node[r])
            /\ Bumped(id[r]) \/ \E j \in RowsOf(node[r].uuid) : j # id[r]

CInv == Revising /\ CopiesAgree /\ ConflictsBacked

LEMMA RevisingStep ==
    ASSUME TypeOK, Revising, NEW r \in Requests, Step(r) PROVE Revising'
<1>1. ASSUME NEW s \in Requests, s # r, revise'[s]
      PROVE  op'[s] \in {"save", "removeOne"} /\ pc'[s] # "idle"
    BY <1>1, OtherFrames DEF Revising
<1>2. ASSUME revise'[r] PROVE op'[r] \in {"save", "removeOne"} /\ pc'[r] # "idle"
  <2>1. CASE Call(r)
    <3>1. CASE CallRemove(r)
        BY <1>2, <3>1 DEF TypeOK, CallRemove, At, Revising
    <3>2. ASSUME NEW n \in NewNodes, NEW rv \in BOOLEAN, CallInsert(r, n, rv)
          PROVE  op'[r] \in {"save", "removeOne"} /\ pc'[r] # "idle"
        BY <3>2 DEF TypeOK, CallInsert
    <3>3. ASSUME NEW i \in Requests, NEW d \in Data, NEW b \in BOOLEAN, NEW rv \in BOOLEAN,
                 CallUpdate(r, i, d, b, rv)
          PROVE  op'[r] \in {"save", "removeOne"} /\ pc'[r] # "idle"
        BY <3>3 DEF TypeOK, CallUpdate
    <3>4. ASSUME NEW i \in Requests, CallRemoveOne(r, i)
          PROVE  op'[r] \in {"save", "removeOne"} /\ pc'[r] # "idle"
        BY <3>4 DEF TypeOK, CallRemoveOne
    <3> QED
        BY <2>1, <3>1, <3>2, <3>3, <3>4 DEF Call
  <2>2. CASE Statement(r)
    <3>1. revise' = revise /\ op' = op
        BY <2>2 DEF Statement, InsertAudit, InsertNode, NotifyCreate, SaveConflict,
           CheckRevision, UpdateNode, InsertAuditRevision, NotifyUpdate, Announce, Select,
           NextRemoval, SoftDelete, Refused, Fail
    <3>2. CASE InsertAudit(r) \/ InsertNode(r) \/ UpdateNode(r) \/ InsertAuditRevision(r)
        BY <1>2, <3>1, <3>2 DEF TypeOK, Revising, InsertAudit, InsertNode, UpdateNode,
           InsertAuditRevision
    <3>3. CASE NotifyCreate(r) \/ SaveConflict(r) \/ NotifyUpdate(r)
        BY <1>2, <3>1, <3>3, ReturnTyped DEF Revising, NotifyCreate, SaveConflict, NotifyUpdate
    <3>4. CASE CheckRevision(r) \/ Announce(r) \/ NextRemoval(r)
        BY <1>2, <3>1, <3>4 DEF TypeOK, Revising, CheckRevision, Announce, NextRemoval
    <3>5. CASE Select(r) \/ SoftDelete(r)
        BY <1>2, <3>1, <3>5 DEF TypeOK, Revising, Select, SoftDelete
    <3>6. CASE Refused(r)
        BY <1>2, <3>6 DEF Revising, Refused, Fail
    <3> QED
        BY <2>2, <3>2, <3>3, <3>4, <3>5, <3>6 DEF Statement
  <2>3. CASE Fail(r)
    BY <1>2, <2>3 DEF Revising, Fail
  <2> QED
    BY <2>1, <2>2, <2>3 DEF Step
<1> QED
    BY <1>1, <1>2 DEF Revising

\* Past the UPDATE a call says the same of itself until it ends.
LEMMA PastUpdate ==
    ASSUME TypeOK, NEW r \in Requests, Step(r), op[r] # "remove",
           pc[r] \in {"log", "notify", "done"}
    PROVE  /\ pc'[r] \in {"log", "notify", "done"}
           /\ op'[r] = op[r] /\ revise'[r] = revise[r]
           /\ id'[r] = id[r] /\ node'[r] = node[r]
           /\ outcome'[r] = "conflict" => outcome[r] = "conflict"
<1>1. ~Call(r)
    BY DEF Call, CallInsert, CallUpdate, CallRemoveOne, CallRemove, At
<1>2. InsertAuditRevision(r) \/ NotifyUpdate(r) \/ Fail(r)
    BY <1>1 DEF Step, Statement, InsertAudit, InsertNode, NotifyCreate, SaveConflict,
       CheckRevision, UpdateNode, Announce, Select, NextRemoval, SoftDelete, Refused, At
<1>3. CASE InsertAuditRevision(r)
    BY <1>3 DEF TypeOK, InsertAuditRevision
<1>4. CASE NotifyUpdate(r)
    BY <1>4 DEF TypeOK, NotifyUpdate, Return
<1>5. CASE Fail(r)
    BY <1>5 DEF TypeOK, Fail
<1> QED
    BY <1>2, <1>3, <1>4, <1>5

\* An answer is given once.
LEMMA OutcomeStep ==
    ASSUME TypeOK, NEW r \in Requests, Step(r), NEW s \in Requests,
           outcome'[s] = "conflict"
    PROVE  outcome[s] = "conflict" \/ (s = r /\ SaveConflict(r))
<1>1. CASE Call(r)
    BY <1>1 DEF Call, CallInsert, CallUpdate, CallRemoveOne, CallRemove
<1>2. CASE \/ InsertAudit(r) \/ InsertNode(r) \/ CheckRevision(r) \/ UpdateNode(r)
           \/ InsertAuditRevision(r) \/ Announce(r) \/ NextRemoval(r) \/ SoftDelete(r)
    BY <1>2 DEF InsertAudit, InsertNode, CheckRevision, UpdateNode, InsertAuditRevision,
       Announce, NextRemoval, SoftDelete
<1>3. CASE NotifyCreate(r) \/ NotifyUpdate(r)
    BY <1>3 DEF TypeOK, NotifyCreate, NotifyUpdate, Return
<1>4. CASE SaveConflict(r)
    BY <1>4 DEF TypeOK, SaveConflict, Return
<1>5. CASE Select(r) \/ Fail(r) \/ Refused(r)
    BY <1>5 DEF TypeOK, Select, Fail, Refused
<1> QED
    BY <1>1, <1>2, <1>3, <1>4, <1>5 DEF Step, Statement

LEMMA BumpedStable ==
    ASSUME TypeOK, NEW r \in Requests, Step(r), NEW i \in Requests, Bumped(i)
    PROVE  Bumped(i)'
<1>1. PICK s \in Requests :
          /\ op[s] \in {"save", "removeOne"} /\ revise[s]
          /\ id[s] = i
          /\ pc[s] \in {"log", "notify", "done"} /\ outcome[s] # "conflict"
    BY DEF Bumped
<1>2. outcome'[s] # "conflict"
    BY <1>1, OutcomeStep DEF SaveConflict, At
<1>3. CASE s = r
    BY <1>1, <1>2, <1>3, PastUpdate DEF Bumped
<1>4. CASE s # r
    BY <1>1, <1>2, <1>4, OtherFrames DEF Bumped
<1> QED
    BY <1>3, <1>4

\* A row that is not bumped keeps its revision: what is written to it is a
\* copy that agrees with it.
LEMMA UnbumpedRow ==
    ASSUME IInv, Revising, CopiesAgree, NEW r \in Requests, Step(r),
           NEW i \in Requests, NEW u \in Uuids, NEW k \in Int, RowClaims(i, u, k)
    PROVE  Bumped(i)' \/ RowClaims(i, u, k)'
<1>1. CASE nodes' = nodes
    BY <1>1 DEF RowClaims, Stored
<1>2. CASE InsertNode(r)
  <2>1. i # r
    BY <1>2 DEF IInv, InsertFrames, InsertNode, At, RowClaims
  <2> QED
    BY <1>2, <2>1 DEF IInv, TypeOK, InsertNode, RowClaims, Stored
<1>3. CASE UpdateNode(r)
  <2>1. CASE i # id[r]
    BY <1>3, <2>1 DEF IInv, TypeOK, UpdateNode, RowClaims, Stored
  <2>2. CASE i = id[r] /\ revise[r]
    <3>1. /\ pc'[r] = "log" /\ op'[r] \in {"save", "removeOne"}
          /\ id'[r] = i /\ revise'[r] /\ outcome'[r] # "conflict"
        BY <1>3, <2>2 DEF IInv, TypeOK, Revising, UpdateNode, At
    <3> QED
        BY <3>1 DEF Bumped
  <2>3. CASE i = id[r] /\ ~revise[r]
    <3>1. node[r] \in Node /\ pc[r] = "update" /\ node[r] # NoNode
        BY <1>3, InHandTyped DEF IInv, UpdateNode, At, Holding
    <3>2. node[r].uuid \in Uuids /\ node[r].revision \in Int
        BY <3>1 DEF Node
    <3>3. Claims(r, i, node[r].uuid, node[r].revision)
        BY <2>3, <3>1 DEF Claims
    <3>4. Bumped(i) \/ RowClaims(i, node[r].uuid, node[r].revision)
        BY <3>2, <3>3 DEF CopiesAgree
    <3>5. nodes'[i] = node[r]
        BY <1>3, <2>3 DEF IInv, TypeOK, UpdateNode
    <3>6. CASE RowClaims(i, node[r].uuid, node[r].revision)
        BY <3>1, <3>5, <3>6 DEF RowClaims, Stored
    <3> QED
        BY <3>4, <3>6, BumpedStable DEF IInv
  <2> QED
    BY <2>1, <2>2, <2>3
<1> QED
    BY <1>1, <1>2, <1>3, RowWrites

LEMMA CopiesAgreeStep ==
    ASSUME IInv, Revising, CopiesAgree, NEW r \in Requests, Step(r) PROVE CopiesAgree'
<1> SUFFICES ASSUME NEW s \in Requests, NEW i \in Requests, NEW u \in Uuids, NEW k \in Int,
                    Claims(s, i, u, k)'
             PROVE  Bumped(i)' \/ RowClaims(i, u, k)'
    BY DEF CopiesAgree
<1>1. Claims(s, i, u, k) \/ RowClaims(i, u, k)
    BY ClaimsStep DEF IInv
<1>2. Bumped(i) \/ RowClaims(i, u, k)
    BY <1>1 DEF CopiesAgree
<1> QED
    BY <1>2, BumpedStable, UnbumpedRow DEF IInv

LEMMA ConflictsBackedStep ==
    ASSUME IInv, CopiesAgree, ConflictsBacked, NEW r \in Requests, Step(r)
    PROVE  ConflictsBacked'
<1> SUFFICES ASSUME NEW s \in Requests, outcome'[s] = "conflict"
             PROVE  /\ pc'[s] = "done" /\ Copy(id[s], node[s])'
                    /\ Bumped(id[s])' \/ (\E j \in RowsOf(node[s].uuid) : j # id[s])'
    BY DEF ConflictsBacked
<1>1. \A i \in Requests : Stored(i) => Stored(i)' /\ nodes'[i].uuid = nodes[i].uuid
    BY RowsStable DEF IInv
<1>2. ASSUME /\ pc'[s] = "done" /\ id'[s] = id[s] /\ node'[s] = node[s]
             /\ Copy(id[s], node[s])
             /\ Bumped(id[s]) \/ \E j \in RowsOf(node[s].uuid) : j # id[s]
      PROVE  /\ pc'[s] = "done" /\ Copy(id[s], node[s])'
             /\ Bumped(id[s])' \/ (\E j \in RowsOf(node[s].uuid) : j # id[s])'
  <2>1. id[s] \in Requests
    BY DEF IInv, TypeOK
  <2>2. Copy(id[s], node[s])'
    BY <1>2, <2>1, RowsStable DEF IInv, Copy, Stored
  <2>3. CASE Bumped(id[s])
    <3>1. PICK i \in Requests : i = id[s]
        BY <2>1
    <3>2. Bumped(i)'
        BY <2>3, <3>1, BumpedStable DEF IInv
    <3>3. Bumped(id[s])'
        BY <1>2, <3>1, <3>2 DEF Bumped
    <3> QED
        BY <1>2, <2>2, <3>3
  <2>4. ASSUME NEW j \in RowsOf(node[s].uuid), j # id[s]
        PROVE  (\E i \in RowsOf(node[s].uuid) : i # id[s])'
    BY <1>1, <1>2, <2>4 DEF RowsOf
  <2> QED
    BY <1>2, <2>2, <2>3, <2>4
<1>3. CASE outcome[s] = "conflict"
  <2>1. /\ pc[s] = "done" /\ Copy(id[s], node[s])
        /\ Bumped(id[s]) \/ \E j \in RowsOf(node[s].uuid) : j # id[s]
    BY <1>3 DEF ConflictsBacked
  <2>2. pc'[s] = "done" /\ id'[s] = id[s] /\ node'[s] = node[s]
    <3>1. CASE s # r
        BY <2>1, <3>1, OtherFrames DEF IInv
    <3>2. s # r
        BY <1>3, <2>1 DEF Step, Call, CallInsert, CallUpdate, CallRemoveOne, CallRemove,
           Statement, InsertAudit, InsertNode, NotifyCreate, SaveConflict, CheckRevision,
           UpdateNode, InsertAuditRevision, NotifyUpdate, Announce, Select, NextRemoval,
           SoftDelete, Refused, Fail, At
    <3> QED
        BY <3>1, <3>2
  <2> QED
    BY <1>2, <2>1, <2>2
<1>4. CASE s = r /\ SaveConflict(r)
  <2>1. PICK i \in RowsOf(node[r].uuid) : nodes[i].revision # node[r].revision
    BY <1>4 DEF SaveConflict
  <2>2. pc[r] = "check" /\ Copy(id[r], node[r]) /\ node[r] \in Node /\ id[r] \in Requests
    BY <1>4, InHandTyped DEF IInv, TypeOK, SaveConflict, At, HeldCopies, Holding
  <2>3. ASSUME i = id[r] PROVE Bumped(id[r])
    <3>1. Claims(r, i, node[r].uuid, node[r].revision)
        BY <2>2, <2>3 DEF Claims
    <3>2. node[r].uuid \in Uuids /\ node[r].revision \in Int /\ i \in Requests
        BY <2>2, <2>3 DEF Node
    <3> QED
        BY <2>1, <2>3, <3>1, <3>2 DEF CopiesAgree, RowClaims
  <2>4. Bumped(id[r]) \/ \E j \in RowsOf(node[r].uuid) : j # id[r]
    BY <2>1, <2>3
  <2>5. pc'[r] = "done" /\ id' = id /\ node' = node
    <3>1. outcome'[r] = "conflict" /\ outcome[r] = "running"
        BY <1>4 DEF SaveConflict, At
    <3>2. op[r] # "remove"
        BY <1>4, <3>1 DEF SaveConflict, Return
    <3> QED
        BY <1>4, <3>2 DEF IInv, TypeOK, SaveConflict, Return
  <2> QED
    BY <1>2, <1>4, <2>2, <2>4, <2>5
<1> QED
    BY <1>3, <1>4, OutcomeStep DEF IInv

LEMMA InitCInv == Init => CInv
<1> SUFFICES ASSUME Init PROVE CInv
    OBVIOUS
<1>1. \A r \in Requests : pc[r] = "idle" /\ todo[r] = {} /\ ~revise[r] /\ outcome[r] = "running"
    BY DEF Init
<1> QED
    BY <1>1 DEF CInv, Revising, CopiesAgree, ConflictsBacked, Claims

LEMMA StepCInv == IInv /\ CInv /\ [Next]_vars => CInv'
<1> SUFFICES ASSUME IInv, CInv, [Next]_vars PROVE CInv'
    OBVIOUS
<1>1. CASE UNCHANGED vars
    BY <1>1 DEF vars, CInv, Revising, CopiesAgree, ConflictsBacked, Claims, RowClaims,
       Bumped, Copy, Stored, RowsOf
<1>2. ASSUME NEW r \in Requests, Step(r) PROVE CInv'
    BY <1>2, RevisingStep, CopiesAgreeStep, ConflictsBackedStep DEF CInv, IInv
<1> QED
    BY <1>1, <1>2 DEF Next, Step

LEMMA BackedConflicts == CInv => NoSpuriousConflict
<1> SUFFICES ASSUME CInv, NEW r \in Requests, outcome[r] = "conflict",
                    RowsOf(node[r].uuid) = {id[r]}
             PROVE  \E s \in Requests \ {r} :
                        /\ op[s] \in {"save", "removeOne"} /\ revise[s]
                        /\ id[s] = id[r]
                        /\ pc[s] \in {"log", "notify", "done"} /\ outcome[s] # "conflict"
    BY DEF NoSpuriousConflict
<1>1. /\ Copy(id[r], node[r])
      /\ Bumped(id[r]) \/ \E j \in RowsOf(node[r].uuid) : j # id[r]
    BY DEF CInv, ConflictsBacked
<1>2. Bumped(id[r])
    BY <1>1
<1> QED
    BY <1>2 DEF Bumped

\* A save is refused only if another call stored a new revision of its row.
THEOREM ConflictsHaveReason == Spec => []NoSpuriousConflict
<1> QED
    BY InitCInv, StepCInv, BackedConflicts, Inductive, PTL DEF Spec

=============================================================================
