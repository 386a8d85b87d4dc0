-------------------------------- MODULE Media --------------------------------
(***************************************************************************)
(* Images and videos (plugins/media): the hooks that ask for a download    *)
(* when a node is saved, the listeners that do it in a goroutine of their  *)
(* own and save the node again, and the clients that edit nodes, store     *)
(* binaries and send notifications meanwhile.                              *)
(*                                                                         *)
(* The node manager is reduced to what matters here: a Save is the         *)
(* comparison of the revision (SaveCheck) and the write of the whole copy  *)
(* (SaveWrite), as in NodeManager; an insert is one step.  The vault is    *)
(* what Vault implements, WriteOnce, under the name that UniqueId gives: a *)
(* node and a revision.  Nothing in the program removes from the vault.    *)
(***************************************************************************)
EXTENDS Naturals, FiniteSets

CONSTANTS
    Images, Videos,
    Listeners,      \* bound on the goroutines that handle notifications
    Clients,        \* bound on the requests that change nodes at a time
    MaxUpdates,     \* bound on the requests that change a node
    MaxNotices,     \* bound on the notifications that clients send
    MaxFaults       \* bound on failing downloads, uploads and crashes

\* A node has one type.
ASSUME MediaAssumption == Images \cap Videos = {} /\ MaxUpdates \in Nat

Nodes == Images \cup Videos
Workers == Listeners \cup Clients

VARIABLES
    row,        \* node -> its row, or NoRow; claim: its status is a client's word
    pending,    \* node -> the notifications on their way
    entry, busy,    \* the vault, see WriteOnce
    pc, of, copy, revise,   \* worker -> step, node, its *Node, Save's argument
    tainted,    \* names on which calls met or an upload was lost
    updates, notices, faults

vaultVars == <<entry, busy>>
frame == <<pc, of, copy, revise>>
bounds == <<updates, notices, faults>>
mediaVars == <<row, pending, vaultVars, frame, tainted, bounds>>

NoRow == [revision |-> 0, status |-> "init", source |-> FALSE, claim |-> FALSE]
Contents == {"binary"}
\* A save counts a revision up once.
Names == Images \X (1..(MaxUpdates + 1))
Statuses == {"init", "update", "done", "error"}
Rows == [revision : Nat, status : Statuses, source : BOOLEAN, claim : BOOLEAN]

Vault == INSTANCE WriteOnce WITH
    Calls <- Workers, request <- [w \in Workers |-> "put"], failures <- faults

\* UniqueId
NameOf(n, node) == <<n, node.revision>>

MediaTypeOK ==
    /\ row \in [Nodes -> Rows]
    /\ pending \in [Nodes -> Nat]
    /\ \A x \in Names :
          /\ busy[x] \subseteq {w \in Workers : pc[w] = "store"}
          /\ entry[x].state \in {"writing", "shared"} <=> busy[x] # {}
    /\ copy \in [Workers -> Rows]
    \* a node with a source never rests in Init
    /\ \A n \in Nodes : row[n].status = "init" => ~row[n].source

MediaInit ==
    /\ row = [n \in Nodes |-> NoRow]
    /\ pending = [n \in Nodes |-> 0]
    /\ entry = [x \in Names |-> Vault!Bare("none")]
    /\ busy = [x \in Names |-> {}]
    /\ pc = [w \in Workers |-> "idle"]
    /\ of = [w \in Workers |-> CHOOSE n \in Nodes : TRUE]
    /\ copy = [w \in Workers |-> NoRow]
    /\ revise = [w \in Workers |-> FALSE]
    /\ tainted = {}
    /\ updates = 0 /\ notices = 0 /\ faults = 0

-----------------------------------------------------------------------------
(* The node handlers' hooks and the manager's Save.                        *)

\* Mutation: the hook is forgotten.
PreUpdateNothing(node) == node

\* PreInsert and PreUpdate, of images and videos.
PreUpdate(node) ==
    IF node.source /\ node.status = "init" THEN [node EXCEPT !.status = "update"] ELSE node

\* Mutation: every save notifies.
PostUpdateAlways(n, node) == pending' = [pending EXCEPT ![n] = @ + 1]

\* Mutation: only a retry notifies.
PostUpdateErrors(n, node) ==
    pending' = [pending EXCEPT ![n] = IF node.status = "error" THEN @ + 1 ELSE @]

\* A video without an id is not asked for; an image without a URL is.
Wanted(n, node) == node.status = "update" /\ (n \in Videos => node.source)

\* PostInsert and PostUpdate.
PostUpdate(n, node) ==
    pending' = [pending EXCEPT ![n] = IF Wanted(n, node) THEN @ + 1 ELSE @]

Insert(n, document) ==
    LET node == PreUpdate(document)
    IN  /\ row[n] = NoRow
        /\ row' = [row EXCEPT ![n] = node]
        /\ PostUpdate(n, node)

Goto(w, label) == pc' = [pc EXCEPT ![w] = label]

\* Worker w calls Save of node for the row of n.
CallSave(w, node, newRevision) ==
    /\ copy' = [copy EXCEPT ![w] = PreUpdate(node)]
    /\ revise' = [revise EXCEPT ![w] = newRevision]
    /\ Goto(w, "check")

\* What follows a Save, whose answer nobody looks at: a video that is done
\* gets an image.
After(w) ==
    IF w \in Listeners /\ of[w] \in Videos /\ copy[w].status = "done" THEN "thumbnail" ELSE "idle"

SaveCheck(w) ==
    /\ pc[w] = "check"
    /\ IF row[of[w]].revision # copy[w].revision
       THEN Goto(w, After(w)) /\ UNCHANGED copy
       ELSE /\ Goto(w, "write")
            /\ copy' = [copy EXCEPT ![w].revision = IF revise[w] THEN @ + 1 ELSE @]
    /\ UNCHANGED <<row, pending, vaultVars, of, revise, tainted, bounds>>

SaveWrite(w) ==
    /\ pc[w] = "write"
    /\ row' = [row EXCEPT ![of[w]] = copy[w]]
    /\ PostUpdate(of[w], copy[w])
    /\ Goto(w, After(w))
    /\ UNCHANGED <<vaultVars, of, copy, revise, tainted, bounds>>

-----------------------------------------------------------------------------
(* The vault's Put, by a listener or for a binary that a client sends.     *)

Occupied(x) == entry[x].state # "none" /\ busy[x] = {}

Fail == faults < MaxFaults /\ faults' = faults + 1
Fault == Fail /\ UNCHANGED <<updates, notices>>

\* Put goes on if it meets another one, or if its look at the entry fails.
BeginPut(w, x) ==
    /\ IF Occupied(x) THEN Fail ELSE UNCHANGED faults
    /\ Vault!BeginPut(x, w, "binary")
    /\ tainted' = tainted \cup IF entry[x].state = "none" THEN {} ELSE {x}
    /\ Goto(w, "store")

\* Put finds the entry there, which ends its caller.
PutRefused(w, x) ==
    /\ Occupied(x)
    /\ Goto(w, "idle")
    /\ UNCHANGED <<vaultVars, tainted, faults>>

\* Mutation: the error of Put is not looked at.
StoredAnyway(w, ok) ==
    CallSave(w, IF w \in Listeners THEN [copy[w] EXCEPT !.status = "done"] ELSE copy[w], FALSE)

\* What Put's caller does with its answer: an error ends the listener without
\* a trace in the node, and the route by a panic.
Stored(w, ok) ==
    IF ok
    THEN CallSave(w, IF w \in Listeners THEN [copy[w] EXCEPT !.status = "done"] ELSE copy[w], FALSE)
    ELSE Goto(w, "idle") /\ UNCHANGED <<copy, revise>>

EndPut(w) ==
    /\ pc[w] = "store"
    /\ LET x == NameOf(of[w], copy[w]) IN
       /\ \E e \in Vault!Settled \cup {Vault!Bare("shared")} : Vault!EndCall(x, w, e)
       /\ \/ /\ entry[x].state = "writing" => entry'[x].state = "whole"
             /\ Stored(w, TRUE)
             /\ UNCHANGED <<tainted, bounds>>
          \/ /\ Fault     \* an error of Close is dropped
             /\ tainted' = tainted \cup {x}
             /\ Stored(w, TRUE)
          \/ /\ Fault     \* the body, or the driver, fails
             /\ Stored(w, FALSE)
             /\ UNCHANGED tainted
    /\ UNCHANGED <<row, pending, of>>

-----------------------------------------------------------------------------
(* Clients.                                                                *)

Begin(w, n) ==
    /\ pc[w] = "idle"
    /\ updates < MaxUpdates
    /\ updates' = updates + 1
    /\ of' = [of EXCEPT ![w] = n]
    /\ UNCHANGED notices

\* What clients send is stored as it is, the status too: a document that is
\* Done when the node is not makes it Done by the client's word.
Document(node, status, source) ==
    [revision |-> node.revision, status |-> status, source |-> source,
     claim |-> status = "done" /\ (node.status = "done" => node.claim)]

\* POST
Create(w, n) ==
    /\ Begin(w, n)
    /\ \E s \in Statuses, source \in BOOLEAN :
          Insert(n, Document([NoRow EXCEPT !.revision = 1], s, source))
    /\ UNCHANGED <<vaultVars, pc, copy, revise, tainted, faults>>

\* PUT of a document of the row's revision.
Update(w, n) ==
    /\ Begin(w, n)
    /\ row[n] # NoRow
    /\ \E s \in Statuses, source \in BOOLEAN : CallSave(w, Document(row[n], s, source), TRUE)
    /\ UNCHANGED <<row, pending, vaultVars, tainted, faults>>

\* PUT ?raw: StoreStream for the node as it was found.
Raw(w, n) ==
    /\ Begin(w, n)
    /\ n \in Images /\ row[n] # NoRow
    /\ copy' = [copy EXCEPT ![w] = row[n]]
    /\ BeginPut(w, NameOf(n, row[n])) \/ PutRefused(w, NameOf(n, row[n]))
    /\ UNCHANGED <<row, pending, revise>>

\* PUT /notify/:name
Notify(n) ==
    /\ notices < MaxNotices /\ notices' = notices + 1
    /\ row[n] # NoRow
    /\ pending' = [pending EXCEPT ![n] = @ + 1]
    /\ UNCHANGED <<row, vaultVars, frame, tainted, updates, faults>>

-----------------------------------------------------------------------------
(* The listeners' Handle.                                                  *)

Handle(l, n) ==
    /\ pc[l] = "idle" /\ pending[n] > 0
    /\ pending' = [pending EXCEPT ![n] = @ - 1]
    /\ IF row[n].status = "done" THEN UNCHANGED frame
       ELSE /\ of' = [of EXCEPT ![l] = n]
            /\ copy' = [copy EXCEPT ![l] = row[n]]
            /\ Goto(l, "get")
            /\ UNCHANGED revise
    /\ UNCHANGED <<row, vaultVars, tainted, bounds>>

\* HttpClient.Get fails, or a video's answer cannot be decoded.
GetFails(l) ==
    /\ pc[l] = "get" /\ l \in Listeners
    /\ CallSave(l, [copy[l] EXCEPT !.status = "error"], of[l] \in Videos)
    /\ UNCHANGED <<row, pending, vaultVars, of, tainted, bounds>>

GetImage(l) ==
    /\ pc[l] = "get" /\ of[l] \in Images /\ copy[l].source
    /\ LET x == NameOf(of[l], copy[l]) IN BeginPut(l, x) \/ PutRefused(l, x)
    /\ UNCHANGED <<row, pending, of, copy, revise, updates, notices>>

GetVideo(l) ==
    /\ pc[l] = "get" /\ of[l] \in Videos
    /\ CallSave(l, [copy[l] EXCEPT !.status = "done"], TRUE)
    /\ UNCHANGED <<row, pending, vaultVars, of, tainted, bounds>>

\* The image of a video, if it has a thumbnail.
Thumbnail(l) ==
    /\ pc[l] = "thumbnail"
    /\ \/ UNCHANGED <<row, pending>>
       \/ \E n \in Images : Insert(n, Document([NoRow EXCEPT !.revision = 1], "init", TRUE))
    /\ Goto(l, "idle")
    /\ UNCHANGED <<vaultVars, of, copy, revise, tainted, bounds>>

\* The server ends; what was announced while nobody listened is lost.
Crash ==
    /\ Fault
    /\ Vault!CrashAll
    /\ pending' = [n \in Nodes |-> 0]
    /\ pc' = [w \in Workers |-> "idle"]
    /\ UNCHANGED <<row, of, copy, revise, tainted>>

-----------------------------------------------------------------------------

Continue(w) ==
    SaveCheck(w) \/ SaveWrite(w) \/ EndPut(w) \/ GetFails(w) \/ GetImage(w) \/ GetVideo(w)
        \/ Thumbnail(w)

MediaNext ==
    \/ \E w \in Clients, n \in Nodes : Create(w, n) \/ Update(w, n) \/ Raw(w, n)
    \/ \E n \in Nodes : Notify(n)
    \/ \E l \in Listeners, n \in Nodes : Handle(l, n)
    \/ \E w \in Workers : Continue(w)
    \/ Crash

\* A goroutine that can run does, and a notification that was sent arrives.
MediaSpec ==
    /\ MediaInit /\ [][MediaNext]_mediaVars
    /\ \A w \in Workers : WF_mediaVars(Continue(w))
    /\ \A n \in Nodes : WF_mediaVars(\E l \in Listeners : Handle(l, n))

-----------------------------------------------------------------------------
(* Properties.                                                             *)

\* An image that is done, and not by a client's word, is in the vault under some
\* revision, whatever saves, documents, uploads and crashes came between; only
\* Puts that met on a name, or did not see what was there, or an upload that
\* failed unnoticed can break it.  (It is not always the revision of the row: a
\* client's save counts that up.)
DoneMeansStored ==
    \A n \in Images :
        row[n].status = "done" /\ ~row[n].claim =>
            \E x \in Names : x[1] = n /\ (entry[x].state = "whole" \/ x \in tainted)

\* A node waits for a download that nothing has been stored of.
Waits(n) ==
    /\ Wanted(n, row[n])
    /\ n \in Images => entry[NameOf(n, row[n])].state = "none"

\* Without a failure no node waits for ever, whatever order notifications,
\* stale saves and edits come in.
Served == \A n \in Nodes : Waits(n) ~> (~Waits(n) \/ faults > 0)

\* The saves of the listeners, which pass the hooks that notify listeners,
\* come to an end once clients are quiet.
Quiesces ==
    <>[](/\ \A n \in Nodes : pending[n] = 0
         /\ \A w \in Workers : pc[w] = "idle")

=============================================================================
