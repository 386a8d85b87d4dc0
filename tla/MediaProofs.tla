----------------------------- MODULE MediaProofs -----------------------------
(***************************************************************************)
(* Proofs about the status of images, for every number of images, videos,  *)
(* listeners and clients, and any number of changes and failures.          *)
(***************************************************************************)
EXTENDS Media, TLAPS

\* Something was stored of n, or might have been if calls had not met on it.
Kept(n) == \E x \in Names : x[1] = n /\ (entry[x].state = "whole" \/ x \in tainted)

\* Done, and not by the word of a client.
Earned(node) == node.status = "done" /\ ~node.claim

\* The vault, seen from here: calls that meet on a name leave a trace.
StoreOK ==
    /\ DOMAIN entry = Names /\ busy \in [Names -> SUBSET Workers]
    /\ \A x \in Names :
        /\ entry[x].state \in {"writing", "shared"} <=> busy[x] # {}
        /\ entry[x].state = "writing" => \E w \in Workers : busy[x] = {w}
        /\ entry[x].state = "shared" => x \in tainted
        /\ entry[x].state = "none" => entry[x] = Vault!Bare("none")

TablesOK ==
    /\ row \in [Nodes -> Rows] /\ pending \in [Nodes -> Nat]
    /\ copy \in [Workers -> Rows]
    /\ DOMAIN pc = Workers /\ DOMAIN of = Workers /\ DOMAIN revise = Workers
    /\ updates \in 0..MaxUpdates

\* An image that earned its status was stored; no revision is above the number of changes.
RowOK(n) ==
    /\ row[n] # NoRow => row[n].revision \in 1..(updates + 1)
    /\ pending[n] # 0 => row[n] # NoRow
    /\ Earned(row[n]) => Kept(n)

\* So does the copy that a worker is about to save, however old it is.
WorkerOK(w) ==
    /\ pc[w] = "store" => of[w] \in Images
    /\ of[w] \in Images =>
        /\ pc[w] \in {"get", "store", "check", "write"} => copy[w].revision \in 1..(updates + 1)
        /\ pc[w] = "check" /\ revise[w] => copy[w].revision <= updates
        /\ pc[w] \in {"check", "write"} /\ Earned(copy[w]) => Kept(of[w])

MediaInv ==
    /\ StoreOK
    /\ TablesOK
    /\ \A n \in Images : RowOK(n)
    /\ \A w \in Workers : WorkerOK(w)

-----------------------------------------------------------------------------
(* The vault.                                                              *)

Stays == \A n \in Images : Kept(n) => Kept(n)'

LEMMA SettledStates ==
    \A e \in Vault!Settled :
        /\ e.state \in {"none", "broken", "whole"}
        /\ e.state = "none" => e = Vault!Bare("none")
BY DEF Vault!Settled, Vault!Bare, Vault!Entry

LEMMA InitStore == ASSUME MediaInit PROVE StoreOK
BY DEF MediaInit, StoreOK, Vault!Bare

LEMMA StoreUnchanged ==
    ASSUME StoreOK, UNCHANGED vaultVars, tainted \subseteq tainted'
    PROVE  StoreOK' /\ Stays
BY DEF StoreOK, Stays, Kept, vaultVars

LEMMA BeginPutStores ==
    ASSUME StoreOK, NEW w \in Workers, NEW x \in Names, BeginPut(w, x)
    PROVE  StoreOK' /\ Stays
<1>1. tainted \subseteq tainted' /\ (entry[x].state # "none" => x \in tainted')
    BY DEF BeginPut
<1>2. /\ busy' = [busy EXCEPT ![x] = @ \cup {w}]
      /\ \/ /\ busy[x] = {} /\ entry[x] = Vault!Bare("none")
            /\ entry' = [entry EXCEPT ![x] = Vault!Entry("writing", "binary")]
         \/ /\ busy[x] # {} \/ entry[x] # Vault!Bare("none")
            /\ entry' = [entry EXCEPT ![x] = Vault!Bare("shared")]
    BY DEF BeginPut, Vault!BeginPut, Vault!Enter
<1>7. Vault!Bare("none").state = "none"
    BY DEF Vault!Bare
<1>8. busy[x] # {} \/ entry[x] # Vault!Bare("none") => entry[x].state # "none"
    BY DEF StoreOK
<1>3. Vault!Entry("writing", "binary").state = "writing" /\ Vault!Bare("shared").state = "shared"
    BY DEF Vault!Entry, Vault!Bare
<1>4. StoreOK'
    <2>1. DOMAIN entry' = Names /\ busy' \in [Names -> SUBSET Workers]
        BY <1>2 DEF StoreOK
    <2>2. ASSUME NEW y \in Names
          PROVE  /\ entry'[y].state \in {"writing", "shared"} <=> busy'[y] # {}
                 /\ entry'[y].state = "writing" => \E v \in Workers : busy'[y] = {v}
                 /\ entry'[y].state = "shared" => y \in tainted'
                 /\ entry'[y].state = "none" => entry'[y] = Vault!Bare("none")
        <3>1. CASE y = x
            BY <1>1, <1>2, <1>3, <1>8, <3>1 DEF StoreOK
        <3>2. CASE y # x
            BY <1>1, <1>2, <3>2 DEF StoreOK
        <3>3. QED
            BY <3>1, <3>2
    <2>3. QED
        BY <2>1, <2>2 DEF StoreOK
<1>5. Stays
    <2>1. ASSUME NEW y \in Names, entry[y].state = "whole" PROVE entry'[y].state = "whole" \/ y \in tainted'
        BY <1>1, <1>2, <1>7, <2>1 DEF StoreOK
    <2>2. QED
        BY <1>1, <2>1 DEF Stays, Kept
<1>6. QED
    BY <1>4, <1>5

\* A call that ends leaves a whole entry, a trace, or an entry that was not it.
LEMMA EndCallStores ==
    ASSUME StoreOK, NEW w \in Workers, NEW x \in Names,
           NEW e \in Vault!Settled \cup {Vault!Bare("shared")}, Vault!EndCall(x, w, e),
           tainted \subseteq tainted'
    PROVE  /\ StoreOK' /\ Stays
           /\ (entry[x].state = "writing" => entry'[x].state = "whole") =>
                  entry'[x].state = "whole" \/ x \in tainted'
<1>1. /\ w \in busy[x] /\ busy' = [busy EXCEPT ![x] = @ \ {w}]
      /\ entry' = [entry EXCEPT ![x] = e]
      /\ IF busy[x] # {w} THEN e = Vault!Bare("shared") ELSE e \in Vault!Settled
    BY DEF Vault!EndCall, Vault!Outcomes, Vault!Settled, Vault!Bare, Vault!Entry, StoreOK, Contents
<1>2. entry[x].state \in {"writing", "shared"}
    BY <1>1 DEF StoreOK
<1>3. entry'[x] = e
    BY <1>1 DEF StoreOK
<1>4. busy[x] # {w} => x \in tainted
    BY <1>1, <1>2 DEF StoreOK
<1>5. Vault!Bare("shared").state = "shared"
    BY DEF Vault!Bare
<1>6. StoreOK'
    <2>1. DOMAIN entry' = Names /\ busy' \in [Names -> SUBSET Workers]
        BY <1>1 DEF StoreOK
    <2>2. ASSUME NEW y \in Names
          PROVE  /\ entry'[y].state \in {"writing", "shared"} <=> busy'[y] # {}
                 /\ entry'[y].state = "writing" => \E v \in Workers : busy'[y] = {v}
                 /\ entry'[y].state = "shared" => y \in tainted'
                 /\ entry'[y].state = "none" => entry'[y] = Vault!Bare("none")
        <3>1. CASE y = x /\ busy[x] # {w}
            BY <1>1, <1>3, <1>4, <1>5, <3>1 DEF StoreOK
        <3>2. CASE y = x /\ busy[x] = {w}
            <4>1. /\ e.state \in {"none", "broken", "whole"}
                  /\ e.state = "none" => e = Vault!Bare("none")
                BY <1>1, <3>2, SettledStates
            <4>2. QED
                BY <1>1, <1>3, <3>2, <4>1 DEF StoreOK
        <3>3. CASE y # x
            BY <1>1, <3>3 DEF StoreOK
        <3>4. QED
            BY <3>1, <3>2, <3>3
    <2>3. QED
        BY <2>1, <2>2 DEF StoreOK
<1>7. Stays
    <2>1. ASSUME NEW y \in Names, entry[y].state = "whole" PROVE entry'[y].state = "whole"
        BY <1>1, <1>2, <2>1 DEF StoreOK
    <2>2. QED
        BY <2>1 DEF Stays, Kept
<1>8. entry[x].state = "shared" => x \in tainted'
    BY DEF StoreOK
<1>9. QED
    BY <1>2, <1>6, <1>7, <1>8

LEMMA CrashStores ==
    ASSUME StoreOK, Vault!CrashAll, UNCHANGED tainted PROVE StoreOK' /\ Stays
<1>1. /\ busy' = [x \in Names |-> {}] /\ entry' \in [Names -> Vault!Settled]
      /\ \A x \in Names : busy[x] = {} => entry'[x] = entry[x]
    BY DEF Vault!CrashAll
<1>2. \A x \in Names :
          /\ entry'[x].state \in {"none", "broken", "whole"}
          /\ entry'[x].state = "none" => entry'[x] = Vault!Bare("none")
    BY <1>1, SettledStates
<1>3. StoreOK'
    BY <1>1, <1>2 DEF StoreOK
<1>4. \A x \in Names : entry[x].state = "whole" => entry'[x].state = "whole"
    BY <1>1 DEF StoreOK
<1>5. QED
    BY <1>3, <1>4 DEF Stays, Kept

-----------------------------------------------------------------------------
(* The steps.                                                              *)

\* A step that works for w and keeps the promises about it and about the rows.
LEMMA StepOf ==
    ASSUME MediaInv, StoreOK', Stays, TablesOK', NEW w \in Workers,
           updates <= updates',
           \A v \in Workers \ {w} : /\ pc'[v] = pc[v] /\ of'[v] = of[v]
                                    /\ copy'[v] = copy[v] /\ revise'[v] = revise[v],
           WorkerOK(w)', \A n \in Images : RowOK(n)'
    PROVE  MediaInv'
<1>1. updates \in Nat /\ updates' \in Nat
    BY DEF MediaInv, TablesOK
<1>2. ASSUME NEW v \in Workers PROVE WorkerOK(v)'
    <2>1. CASE v = w
        BY <2>1
    <2>2. CASE v # w
        <3>1. WorkerOK(v)
            BY DEF MediaInv
        <3>2. /\ pc'[v] = pc[v] /\ of'[v] = of[v]
              /\ copy'[v] = copy[v] /\ revise'[v] = revise[v]
            BY <2>2
        <3>3. copy[v].revision \in Nat
            BY DEF MediaInv, TablesOK, Rows
        <3>4. QED
            BY <1>1, <3>1, <3>2, <3>3 DEF WorkerOK, Stays, Earned
    <2>3. QED
        BY <2>1, <2>2
<1>3. QED
    BY <1>2 DEF MediaInv

\* What is true of rows that the step leaves alone.
LEMMA RowsStay ==
    ASSUME MediaInv, Stays, updates <= updates', updates' \in Nat, NEW n \in Images,
           row'[n] = row[n], pending'[n] = 0 \/ pending'[n] = pending[n] \/ row[n] # NoRow
    PROVE  RowOK(n)'
<1>1. updates \in Nat /\ row[n].revision \in Nat
    BY DEF MediaInv, TablesOK, Rows, Nodes
<1>2. RowOK(n)
    BY DEF MediaInv
<1>3. QED
    BY <1>1, <1>2 DEF RowOK, Stays, Earned

LEMMA PreUpdateKeeps ==
    ASSUME NEW node \in Rows
    PROVE  /\ PreUpdate(node) \in Rows
           /\ PreUpdate(node).revision = node.revision
           /\ Earned(PreUpdate(node)) => Earned(node)
BY DEF PreUpdate, Rows, Statuses, Earned

\* No document earns a status.
LEMMA DocumentKeeps ==
    ASSUME NEW node \in Rows, NEW s \in Statuses, NEW source \in BOOLEAN
    PROVE  /\ Document(node, s, source) \in Rows
           /\ Document(node, s, source).revision = node.revision
           /\ Earned(Document(node, s, source)) => Earned(node)
BY DEF Document, Rows, Statuses, Earned

LEMMA NoRowType == NoRow \in Rows /\ ~Earned(NoRow)
BY DEF NoRow, Rows, Statuses, Earned

\* The document of an insert.
Fresh(document) == document \in Rows /\ document.revision = 1 /\ ~Earned(document)

LEMMA FreshDocument ==
    ASSUME NEW s \in Statuses, NEW source \in BOOLEAN
    PROVE  Fresh(Document([NoRow EXCEPT !.revision = 1], s, source))
BY DEF Fresh, Document, NoRow, Rows, Statuses, Earned

\* Rows and notifications after an insert.
LEMMA InsertRows ==
    ASSUME MediaInv, NEW n \in Nodes, NEW document, Fresh(document), Insert(n, document),
           Stays, updates <= updates', updates' \in Nat
    PROVE  /\ row' \in [Nodes -> Rows] /\ pending' \in [Nodes -> Nat]
           /\ \A m \in Images : RowOK(m)'
<1> DEFINE node == PreUpdate(document)
<1>2. node \in Rows /\ node.revision = 1 /\ ~Earned(node)
    BY PreUpdateKeeps DEF Fresh
<1>3. row' = [row EXCEPT ![n] = node] /\ PostUpdate(n, node)
    BY DEF Insert
<1> HIDE DEF node
<1>4. row' \in [Nodes -> Rows]
    BY <1>2, <1>3 DEF MediaInv, TablesOK
<1>5. pending' \in [Nodes -> Nat]
    BY <1>3 DEF PostUpdate, MediaInv, TablesOK
<1>6. ASSUME NEW m \in Images PROVE RowOK(m)'
    <2>1. CASE m = n
        <3>1. row'[m] = node
            BY <1>3, <2>1 DEF MediaInv, TablesOK
        <3>2. node # NoRow
            BY <1>2 DEF NoRow
        <3>3. QED
            BY <1>2, <3>1, <3>2 DEF RowOK, Earned
    <2>2. CASE m # n
        <3>1. row'[m] = row[m] /\ pending'[m] = pending[m]
            BY <1>3, <2>2 DEF PostUpdate, MediaInv, TablesOK, Nodes
        <3>2. QED
            BY <3>1, RowsStay
    <2>3. QED
        BY <2>1, <2>2
<1>7. QED
    BY <1>4, <1>5, <1>6

LEMMA InitMedia == ASSUME MediaInit PROVE MediaInv
<1>1. TablesOK
    BY NoRowType, MediaAssumption DEF MediaInit, TablesOK
<1>2. \A n \in Images : RowOK(n)
    BY DEF MediaInit, RowOK, NoRow, Nodes, Earned
<1>3. \A w \in Workers : WorkerOK(w)
    BY DEF MediaInit, WorkerOK
<1>4. QED
    BY <1>1, <1>2, <1>3, InitStore DEF MediaInv

LEMMA CreateStep ==
    ASSUME MediaInv, NEW w \in Workers, NEW n \in Nodes, Create(w, n) PROVE MediaInv'
<1>1. PICK document : Fresh(document) /\ Insert(n, document)
    BY FreshDocument DEF Create
<1>2. /\ pc[w] = "idle" /\ updates < MaxUpdates /\ updates' = updates + 1
      /\ of' = [of EXCEPT ![w] = n]
      /\ UNCHANGED <<vaultVars, pc, copy, revise, tainted>>
    BY DEF Create, Begin
<1>3. StoreOK' /\ Stays
    BY <1>2, StoreUnchanged DEF MediaInv
<1>4. updates \in Nat /\ updates' \in 0..MaxUpdates /\ updates <= updates'
    BY <1>2, MediaAssumption DEF MediaInv, TablesOK
<1>5. /\ row' \in [Nodes -> Rows] /\ pending' \in [Nodes -> Nat]
      /\ \A m \in Images : RowOK(m)'
    BY <1>1, <1>3, <1>4, InsertRows
<1>6. TablesOK'
    BY <1>2, <1>4, <1>5 DEF MediaInv, TablesOK
<1>7. WorkerOK(w)'
    BY <1>2 DEF WorkerOK
<1>8. \A v \in Workers \ {w} : /\ pc'[v] = pc[v] /\ of'[v] = of[v]
                               /\ copy'[v] = copy[v] /\ revise'[v] = revise[v]
    BY <1>2 DEF MediaInv, TablesOK
<1>9. QED
    BY <1>3, <1>4, <1>5, <1>6, <1>7, <1>8, StepOf

\* From here on, or still, w works for n.
Serves(w, n) == of' = [of EXCEPT ![w] = n] \/ (UNCHANGED of /\ n = of[w])

\* A call of Save for w, of a copy that is not beyond what it was told.
LEMMA CallSaveStep ==
    ASSUME MediaInv, NEW w \in Workers, NEW node \in Rows, NEW newRevision \in BOOLEAN,
           CallSave(w, node, newRevision), UNCHANGED <<row, pending>>, StoreOK', Stays,
           updates' \in 0..MaxUpdates, updates <= updates',
           NEW n, Serves(w, n),
           n \in Images =>
               /\ node.revision \in 1..(updates' + 1)
               /\ newRevision => node.revision <= updates'
               /\ Earned(node) => Kept(n)'
    PROVE  MediaInv'
<1>1. /\ copy' = [copy EXCEPT ![w] = PreUpdate(node)]
      /\ revise' = [revise EXCEPT ![w] = newRevision]
      /\ pc' = [pc EXCEPT ![w] = "check"]
    BY DEF CallSave, Goto
<1>2. /\ PreUpdate(node) \in Rows /\ PreUpdate(node).revision = node.revision
      /\ Earned(PreUpdate(node)) => Earned(node)
    BY PreUpdateKeeps
<1>3. TablesOK'
    BY <1>1, <1>2 DEF Serves, MediaInv, TablesOK
<1>4. /\ copy'[w] = PreUpdate(node) /\ revise'[w] = newRevision /\ pc'[w] = "check"
      /\ of'[w] = n
      /\ \A v \in Workers \ {w} : /\ pc'[v] = pc[v] /\ of'[v] = of[v]
                                  /\ copy'[v] = copy[v] /\ revise'[v] = revise[v]
    BY <1>1 DEF Serves, MediaInv, TablesOK
<1>5. WorkerOK(w)'
    BY <1>2, <1>4 DEF WorkerOK, Earned
<1>6. \A m \in Images : RowOK(m)'
    <2>1. updates' \in Nat
        BY MediaAssumption
    <2>2. QED
        BY <2>1, RowsStay
<1>7. QED
    BY <1>3, <1>4, <1>5, <1>6, StepOf

\* Nothing but the label and perhaps the node and copy of w change.
LEMMA QuietStep ==
    ASSUME MediaInv, NEW w \in Workers, NEW label, pc' = [pc EXCEPT ![w] = label],
           NEW c \in Rows, copy' = [copy EXCEPT ![w] = c],
           NEW n, Serves(w, n),
           UNCHANGED <<row, revise>>, StoreOK', Stays,
           pending' \in [Nodes -> Nat],
           \A m \in Images : pending'[m] <= pending[m],
           updates' \in 0..MaxUpdates, updates <= updates',
           \/ label \in {"idle", "thumbnail"}
           \/ /\ label = "get" /\ n \in Images => c.revision \in 1..(updates' + 1)
              /\ label = "get"
           \/ /\ label = "store" /\ n \in Images /\ c.revision \in 1..(updates' + 1)
           \/ /\ label = "write"
              /\ n \in Images => /\ c.revision \in 1..(updates' + 1)
                                 /\ Earned(c) => Kept(n)'
    PROVE  MediaInv'
<1>1. /\ pc'[w] = label /\ copy'[w] = c /\ of'[w] = n
      /\ \A v \in Workers \ {w} : /\ pc'[v] = pc[v] /\ of'[v] = of[v]
                                  /\ copy'[v] = copy[v] /\ revise'[v] = revise[v]
    BY DEF Serves, MediaInv, TablesOK
<1>2. TablesOK'
    BY DEF Serves, MediaInv, TablesOK
<1>3. WorkerOK(w)'
    BY <1>1 DEF WorkerOK, Earned
<1>4. ASSUME NEW m \in Images PROVE RowOK(m)'
    <2>1. updates' \in Nat
        BY MediaAssumption
    <2>2. pending'[m] \in Nat /\ pending[m] \in Nat /\ pending'[m] <= pending[m]
        BY DEF MediaInv, TablesOK, Nodes
    <2>3. pending'[m] = 0 \/ pending[m] # 0
        BY <2>2
    <2>4. pending[m] # 0 => row[m] # NoRow
        BY DEF MediaInv, RowOK
    <2>5. QED
        BY <2>1, <2>3, <2>4, RowsStay
<1>5. QED
    BY <1>1, <1>2, <1>3, <1>4, StepOf

LEMMA UpdateStep ==
    ASSUME MediaInv, NEW w \in Workers, NEW n \in Nodes, Update(w, n) PROVE MediaInv'
<1>1. /\ updates < MaxUpdates /\ updates' = updates + 1
      /\ Serves(w, n) /\ row[n] # NoRow
      /\ UNCHANGED <<row, pending, vaultVars, tainted>>
    BY DEF Update, Begin, Serves
<1>2. PICK s \in Statuses : \E source \in BOOLEAN : CallSave(w, Document(row[n], s, source), TRUE)
    BY DEF Update
<1>10. PICK source \in BOOLEAN : CallSave(w, Document(row[n], s, source), TRUE)
    BY <1>2
<1>3. StoreOK' /\ Stays
    BY <1>1, StoreUnchanged DEF MediaInv
<1>4. updates \in Nat /\ updates' \in 0..MaxUpdates /\ updates <= updates'
    BY <1>1, MediaAssumption DEF MediaInv, TablesOK
<1>5. row[n] \in Rows
    BY DEF MediaInv, TablesOK
<1> DEFINE node == Document(row[n], s, source)
<1>6. node \in Rows /\ node.revision = row[n].revision /\ (Earned(node) => Earned(row[n]))
    BY <1>5, DocumentKeeps
<1> HIDE DEF node
<1>7. n \in Images =>
          /\ node.revision \in 1..(updates' + 1) /\ node.revision <= updates'
          /\ Earned(node) => Kept(n)'
    <2>1. SUFFICES ASSUME n \in Images
                   PROVE  /\ node.revision \in 1..(updates' + 1) /\ node.revision <= updates'
                          /\ Earned(node) => Kept(n)'
        OBVIOUS
    <2>2. RowOK(n)
        BY <2>1 DEF MediaInv
    <2>3. row[n].revision \in 1..(updates + 1)
        BY <1>1, <2>2 DEF RowOK
    <2>4. Earned(row[n]) => Kept(n)'
        BY <1>3, <2>1, <2>2 DEF RowOK, Stays
    <2>5. QED
        BY <1>1, <1>4, <1>6, <2>3, <2>4
<1>8. CallSave(w, node, TRUE)
    BY <1>10 DEF node
<1>9. QED
    BY <1>1, <1>3, <1>4, <1>6, <1>7, <1>8, CallSaveStep

LEMMA RawStep ==
    ASSUME MediaInv, NEW w \in Workers, NEW n \in Nodes, Raw(w, n) PROVE MediaInv'
<1>1. /\ updates < MaxUpdates /\ updates' = updates + 1
      /\ Serves(w, n) /\ n \in Images /\ row[n] # NoRow
      /\ copy' = [copy EXCEPT ![w] = row[n]]
      /\ UNCHANGED <<row, pending, revise>>
    BY DEF Raw, Begin, Serves
<1>2. updates \in Nat /\ updates' \in 0..MaxUpdates /\ updates <= updates'
    BY <1>1, MediaAssumption DEF MediaInv, TablesOK
<1>3. row[n] \in Rows /\ row[n].revision \in 1..(updates + 1)
    BY <1>1 DEF MediaInv, TablesOK, RowOK
<1>4. pending' \in [Nodes -> Nat] /\ \A m \in Images : pending'[m] <= pending[m]
    BY <1>1 DEF MediaInv, TablesOK, Nodes
<1>5. row[n].revision \in 1..(updates' + 1)
    BY <1>1, <1>2, <1>3
<1>6. NameOf(n, row[n]) \in Names
    BY <1>1, <1>2, <1>3, MediaAssumption DEF NameOf, Names
<1>7. CASE pc' = [pc EXCEPT ![w] = "idle"] /\ UNCHANGED <<vaultVars, tainted>>
    <2>1. StoreOK' /\ Stays
        BY <1>7, StoreUnchanged DEF MediaInv
    <2>2. QED
        BY <1>1, <1>2, <1>3, <1>4, <1>7, <2>1, QuietStep
<1>8. CASE BeginPut(w, NameOf(n, row[n]))
    <2>1. StoreOK' /\ Stays
        BY <1>6, <1>8, BeginPutStores DEF MediaInv
    <2>2. pc' = [pc EXCEPT ![w] = "store"]
        BY <1>8 DEF BeginPut, Goto
    <2>3. QED
        BY <1>1, <1>2, <1>3, <1>4, <1>5, <2>1, <2>2, QuietStep
<1>9. QED
    BY <1>7, <1>8 DEF Raw, PutRefused, Goto

LEMMA HandleStep ==
    ASSUME MediaInv, NEW l \in Workers, NEW n \in Nodes, Handle(l, n) PROVE MediaInv'
<1>1. /\ pending[n] > 0 /\ pending' = [pending EXCEPT ![n] = @ - 1]
      /\ UNCHANGED <<row, vaultVars, tainted, updates>>
    BY DEF Handle, bounds
<1>2. StoreOK' /\ Stays
    BY <1>1, StoreUnchanged DEF MediaInv
<1>3. updates \in Nat /\ updates' \in 0..MaxUpdates /\ updates <= updates'
    BY <1>1, MediaAssumption DEF MediaInv, TablesOK
<1>4. pending' \in [Nodes -> Nat] /\ \A m \in Images : pending'[m] <= pending[m]
    BY <1>1 DEF MediaInv, TablesOK, Nodes
<1>5. CASE UNCHANGED frame
    <2>1. /\ pc' = pc /\ copy' = copy /\ of' = of /\ revise' = revise
        BY <1>5 DEF frame
    <2>2. TablesOK'
        BY <1>1, <1>4, <2>1 DEF MediaInv, TablesOK
    <2>3. WorkerOK(l)'
        BY <1>1, <1>2, <2>1 DEF MediaInv, WorkerOK, Stays, Earned
    <2>4. ASSUME NEW m \in Images PROVE RowOK(m)'
        <3>1. pending'[m] = 0 \/ pending[m] # 0
            BY <1>4 DEF MediaInv, TablesOK, Nodes
        <3>2. pending[m] # 0 => row[m] # NoRow
            BY DEF MediaInv, RowOK
        <3>3. updates' \in Nat
            BY <1>1, <1>3
        <3>4. QED
            BY <1>1, <1>2, <1>3, <3>1, <3>2, <3>3, RowsStay
    <2>5. QED
        BY <1>2, <1>3, <2>1, <2>2, <2>3, <2>4, StepOf
<1>6. CASE /\ Serves(l, n) /\ copy' = [copy EXCEPT ![l] = row[n]]
           /\ pc' = [pc EXCEPT ![l] = "get"] /\ UNCHANGED revise
    <2>1. row[n] \in Rows
        BY DEF MediaInv, TablesOK
    <2>2. n \in Images => row[n].revision \in 1..(updates' + 1)
        BY <1>1, <1>3 DEF MediaInv, RowOK
    <2>3. QED
        BY <1>1, <1>2, <1>3, <1>4, <1>6, <2>1, <2>2, QuietStep
<1>7. QED
    BY <1>5, <1>6 DEF Handle, Goto, Serves

\* The copy of w, as QuietStep wants it.
LEMMA SameCopy ==
    ASSUME MediaInv, NEW w \in Workers, UNCHANGED copy
    PROVE  copy[w] \in Rows /\ copy' = [copy EXCEPT ![w] = copy[w]]
BY DEF MediaInv, TablesOK

LEMMA SaveCheckStep ==
    ASSUME MediaInv, NEW w \in Workers, SaveCheck(w) PROVE MediaInv'
<1>1. /\ pc[w] = "check" /\ UNCHANGED <<row, pending, vaultVars, revise, tainted, updates>>
      /\ Serves(w, of[w])
    BY DEF SaveCheck, bounds, Serves
<1>2. StoreOK' /\ Stays
    BY <1>1, StoreUnchanged DEF MediaInv
<1>3. updates \in Nat /\ updates' \in 0..MaxUpdates /\ updates <= updates'
    BY <1>1, MediaAssumption DEF MediaInv, TablesOK
<1>4. pending' \in [Nodes -> Nat] /\ \A m \in Images : pending'[m] <= pending[m]
    BY <1>1 DEF MediaInv, TablesOK, Nodes
<1>5. CASE pc' = [pc EXCEPT ![w] = After(w)] /\ UNCHANGED copy
    <2>1. After(w) \in {"idle", "thumbnail"}
        BY DEF After
    <2>2. copy[w] \in Rows /\ copy' = [copy EXCEPT ![w] = copy[w]]
        BY <1>5, SameCopy
    <2>3. QED
        BY <1>1, <1>2, <1>3, <1>4, <1>5, <2>1, <2>2, QuietStep
<1>6. CASE /\ pc' = [pc EXCEPT ![w] = "write"]
           /\ copy' = [copy EXCEPT ![w].revision = IF revise[w] THEN @ + 1 ELSE @]
    <2> DEFINE c == [copy[w] EXCEPT !.revision = IF revise[w] THEN @ + 1 ELSE @]
    <2>1. copy[w] \in Rows
        BY DEF MediaInv, TablesOK
    <2>2. /\ c \in Rows /\ (Earned(c) => Earned(copy[w]))
          /\ c.revision = IF revise[w] THEN copy[w].revision + 1 ELSE copy[w].revision
        BY <2>1 DEF Rows, Earned
    <2>3. copy' = [copy EXCEPT ![w] = c]
        BY <1>6
    <2> HIDE DEF c
    <2>4. \A n \in Images : n = of[w] =>
              /\ c.revision \in 1..(updates' + 1)
              /\ Earned(c) => Kept(n)'
        <3>1. SUFFICES ASSUME NEW n \in Images, n = of[w]
                       PROVE  /\ c.revision \in 1..(updates' + 1)
                              /\ Earned(c) => Kept(n)'
            OBVIOUS
        <3>2. /\ copy[w].revision \in 1..(updates + 1)
              /\ revise[w] => copy[w].revision <= updates
              /\ Earned(copy[w]) => Kept(n)
            BY <1>1, <3>1 DEF MediaInv, WorkerOK
        <3>3. Kept(n) => Kept(n)'
            BY <1>2, <3>1 DEF Stays
        <3>4. QED
            BY <1>1, <1>3, <2>2, <3>2, <3>3
    <2>5. QED
        BY <1>1, <1>2, <1>3, <1>4, <1>6, <2>2, <2>3, <2>4, QuietStep
<1>7. QED
    BY <1>5, <1>6 DEF SaveCheck, Goto

LEMMA SaveWriteStep ==
    ASSUME MediaInv, NEW w \in Workers, SaveWrite(w) PROVE MediaInv'
<1>1. /\ pc[w] = "write" /\ row' = [row EXCEPT ![of[w]] = copy[w]]
      /\ PostUpdate(of[w], copy[w]) /\ pc' = [pc EXCEPT ![w] = After(w)]
      /\ UNCHANGED <<vaultVars, of, copy, revise, tainted, updates>>
    BY DEF SaveWrite, Goto, bounds
<1>2. StoreOK' /\ Stays
    BY <1>1, StoreUnchanged DEF MediaInv
<1>3. updates \in Nat /\ updates' \in Nat /\ updates <= updates'
    BY <1>1, MediaAssumption DEF MediaInv, TablesOK
<1>4. copy[w] \in Rows
    BY DEF MediaInv, TablesOK
<1>5. TablesOK'
    <2>1. row' \in [Nodes -> Rows]
        BY <1>1, <1>4 DEF MediaInv, TablesOK
    <2>2. pending' \in [Nodes -> Nat]
        <3>1. pending \in [Nodes -> Nat]
            BY DEF MediaInv, TablesOK
        <3>2. ASSUME of[w] \in Nodes PROVE pending[of[w]] + 1 \in Nat /\ pending[of[w]] \in Nat
            BY <3>1, <3>2
        <3>3. QED
            BY <1>1, <3>1, <3>2 DEF PostUpdate
    <2>3. DOMAIN pc' = Workers
        BY <1>1 DEF MediaInv, TablesOK
    <2>4. QED
        BY <1>1, <2>1, <2>2, <2>3 DEF MediaInv, TablesOK
<1>6. ASSUME NEW m \in Images PROVE RowOK(m)'
    <2>1. m \in Nodes
        BY DEF Nodes
    <2>2. CASE m = of[w]
        <3>1. row'[m] = copy[w]
            BY <1>1, <2>1, <2>2 DEF MediaInv, TablesOK
        <3>2. /\ copy[w].revision \in 1..(updates + 1)
              /\ Earned(copy[w]) => Kept(m)
            BY <1>1, <2>2 DEF MediaInv, WorkerOK
        <3>3. copy[w] # NoRow
            BY <3>2, <1>3 DEF NoRow
        <3>4. Kept(m) => Kept(m)'
            BY <1>2 DEF Stays
        <3>5. QED
            BY <1>1, <3>1, <3>2, <3>3, <3>4 DEF RowOK, Earned
    <2>3. CASE m # of[w]
        <3>1. row'[m] = row[m] /\ pending'[m] = pending[m]
            BY <1>1, <2>1, <2>3 DEF PostUpdate, MediaInv, TablesOK
        <3>2. QED
            BY <1>2, <1>3, <3>1, RowsStay
    <2>4. QED
        BY <2>2, <2>3
<1>7. /\ pc'[w] = After(w)
      /\ \A v \in Workers \ {w} : /\ pc'[v] = pc[v] /\ of'[v] = of[v]
                                  /\ copy'[v] = copy[v] /\ revise'[v] = revise[v]
    BY <1>1 DEF MediaInv, TablesOK
<1>8. WorkerOK(w)'
    BY <1>7 DEF WorkerOK, After
<1>9. QED
    BY <1>2, <1>3, <1>5, <1>6, <1>7, <1>8, StepOf

LEMMA EndPutStep ==
    ASSUME MediaInv, NEW w \in Workers, EndPut(w) PROVE MediaInv'
<1> DEFINE x == NameOf(of[w], copy[w])
<1>1. pc[w] = "store" /\ UNCHANGED <<row, pending, of>> /\ UNCHANGED updates
    BY DEF EndPut, Fault, Fail, bounds
<1>2. updates \in Nat /\ updates' \in 0..MaxUpdates /\ updates <= updates'
    BY <1>1, MediaAssumption DEF MediaInv, TablesOK
<1>3. copy[w] \in Rows
    BY DEF MediaInv, TablesOK
<1>4. of[w] \in Images /\ copy[w].revision \in 1..(updates + 1)
    BY <1>1 DEF MediaInv, WorkerOK
<1>5. x \in Names /\ x[1] = of[w]
    BY <1>2, <1>4, MediaAssumption DEF NameOf, Names, MediaInv, TablesOK
<1>6. PICK e \in Vault!Settled \cup {Vault!Bare("shared")} : Vault!EndCall(x, w, e)
    BY DEF EndPut
<1>7. tainted \subseteq tainted'
    BY DEF EndPut
<1> HIDE DEF x
<1>8. /\ StoreOK' /\ Stays
      /\ (entry[x].state = "writing" => entry'[x].state = "whole") =>
             entry'[x].state = "whole" \/ x \in tainted'
    BY <1>5, <1>6, <1>7, EndCallStores DEF MediaInv
<1>9. CASE Stored(w, TRUE) /\ (entry'[x].state = "whole" \/ x \in tainted')
    <2> DEFINE node == IF w \in Listeners THEN [copy[w] EXCEPT !.status = "done"] ELSE copy[w]
    <2>1. node \in Rows /\ node.revision = copy[w].revision
        BY <1>3 DEF Rows, Statuses
    <2>2. CallSave(w, node, FALSE)
        BY <1>9 DEF Stored
    <2> HIDE DEF node
    <2>3. \A n \in Images : n = of[w] => Kept(n)'
        BY <1>5, <1>9 DEF Kept
    <2>4. Serves(w, of[w])
        BY <1>1 DEF Serves
    <2>5. of[w] \in Images =>
              /\ node.revision \in 1..(updates' + 1)
              /\ FALSE => node.revision <= updates'
        BY <1>1, <1>2, <1>4, <2>1
    <2>6. QED
        BY <1>1, <1>2, <1>8, <2>1, <2>2, <2>3, <2>4, <2>5, CallSaveStep
<1>10. CASE Stored(w, FALSE)
    <2>1. pc' = [pc EXCEPT ![w] = "idle"] /\ UNCHANGED <<copy, revise>>
        BY <1>10 DEF Stored, Goto
    <2>2. copy' = [copy EXCEPT ![w] = copy[w]]
        BY <2>1, SameCopy
    <2>3. pending' \in [Nodes -> Nat] /\ \A m \in Images : pending'[m] <= pending[m]
        BY <1>1 DEF MediaInv, TablesOK, Nodes
    <2>4. Serves(w, of[w])
        BY <1>1 DEF Serves
    <2>5. QED
        BY <1>1, <1>2, <1>3, <1>8, <2>1, <2>2, <2>3, <2>4, QuietStep
<1>11. \/ Stored(w, FALSE)
       \/ Stored(w, TRUE) /\ (entry'[x].state = "whole" \/ x \in tainted')
    BY <1>8 DEF EndPut, x
<1>12. QED
    BY <1>9, <1>10, <1>11

LEMMA GetFailsStep ==
    ASSUME MediaInv, NEW l \in Workers, GetFails(l) PROVE MediaInv'
<1> DEFINE node == [copy[l] EXCEPT !.status = "error"]
<1>1. /\ pc[l] = "get" /\ CallSave(l, node, of[l] \in Videos)
      /\ UNCHANGED <<row, pending, vaultVars, tainted, updates>> /\ Serves(l, of[l])
    BY DEF GetFails, bounds, Serves
<1>2. StoreOK' /\ Stays
    BY <1>1, StoreUnchanged DEF MediaInv
<1>3. updates \in Nat /\ updates' \in 0..MaxUpdates /\ updates <= updates'
    BY <1>1, MediaAssumption DEF MediaInv, TablesOK
<1>4. node \in Rows /\ node.revision = copy[l].revision /\ node.status = "error"
    BY DEF MediaInv, TablesOK, Rows, Statuses
<1> HIDE DEF node
<1>5. of[l] \in Images => node.revision \in 1..(updates' + 1) /\ of[l] \notin Videos
    BY <1>1, <1>4, MediaAssumption DEF MediaInv, WorkerOK
<1>6. (of[l] \in Videos) \in BOOLEAN
    OBVIOUS
<1>7. \A n \in Images : n = of[l] => (Earned(node) => Kept(n)')
    BY <1>4 DEF Earned
<1>8. QED
    BY <1>1, <1>2, <1>3, <1>4, <1>5, <1>6, <1>7, CallSaveStep

LEMMA GetImageStep ==
    ASSUME MediaInv, NEW l \in Workers, GetImage(l) PROVE MediaInv'
<1>1. /\ pc[l] = "get" /\ of[l] \in Images /\ Serves(l, of[l])
      /\ UNCHANGED <<row, pending, copy, revise, updates>>
    BY DEF GetImage, bounds, Serves
<1>2. updates \in Nat /\ updates' \in 0..MaxUpdates /\ updates <= updates'
    BY <1>1, MediaAssumption DEF MediaInv, TablesOK
<1>3. copy[l] \in Rows /\ copy' = [copy EXCEPT ![l] = copy[l]]
    BY <1>1, SameCopy
<1>4. copy[l].revision \in 1..(updates' + 1)
    BY <1>1 DEF MediaInv, WorkerOK
<1>5. NameOf(of[l], copy[l]) \in Names
    BY <1>1, <1>2, <1>4, MediaAssumption DEF NameOf, Names
<1>6. pending' \in [Nodes -> Nat] /\ \A m \in Images : pending'[m] <= pending[m]
    BY <1>1 DEF MediaInv, TablesOK, Nodes
<1>7. CASE pc' = [pc EXCEPT ![l] = "idle"] /\ UNCHANGED <<vaultVars, tainted>>
    <2>1. StoreOK' /\ Stays
        BY <1>7, StoreUnchanged DEF MediaInv
    <2>2. QED
        BY <1>1, <1>2, <1>3, <1>6, <1>7, <2>1, QuietStep
<1>8. CASE BeginPut(l, NameOf(of[l], copy[l]))
    <2>1. StoreOK' /\ Stays
        BY <1>5, <1>8, BeginPutStores DEF MediaInv
    <2>2. pc' = [pc EXCEPT ![l] = "store"]
        BY <1>8 DEF BeginPut, Goto
    <2>3. QED
        BY <1>1, <1>2, <1>3, <1>4, <1>6, <2>1, <2>2, QuietStep
<1>9. QED
    BY <1>7, <1>8 DEF GetImage, PutRefused, Goto

LEMMA GetVideoStep ==
    ASSUME MediaInv, NEW l \in Workers, GetVideo(l) PROVE MediaInv'
<1> DEFINE node == [copy[l] EXCEPT !.status = "done"]
<1>1. /\ of[l] \in Videos /\ CallSave(l, node, TRUE)
      /\ UNCHANGED <<row, pending, vaultVars, tainted, updates>> /\ Serves(l, of[l])
    BY DEF GetVideo, bounds, Serves
<1>2. StoreOK' /\ Stays
    BY <1>1, StoreUnchanged DEF MediaInv
<1>3. updates' \in 0..MaxUpdates /\ updates <= updates'
    BY <1>1, MediaAssumption DEF MediaInv, TablesOK
<1>4. node \in Rows
    BY DEF MediaInv, TablesOK, Rows, Statuses
<1> HIDE DEF node
<1>5. of[l] \notin Images
    BY <1>1, MediaAssumption
<1>6. QED
    BY <1>1, <1>2, <1>3, <1>4, <1>5, CallSaveStep

LEMMA ThumbnailStep ==
    ASSUME MediaInv, NEW l \in Workers, Thumbnail(l) PROVE MediaInv'
<1>1. /\ pc' = [pc EXCEPT ![l] = "idle"]
      /\ UNCHANGED <<vaultVars, of, copy, revise, tainted, updates>>
    BY DEF Thumbnail, Goto, bounds
<1>2. StoreOK' /\ Stays
    BY <1>1, StoreUnchanged DEF MediaInv
<1>3. updates' \in Nat /\ updates <= updates'
    BY <1>1, MediaAssumption DEF MediaInv, TablesOK
<1>4. /\ row' \in [Nodes -> Rows] /\ pending' \in [Nodes -> Nat]
      /\ \A m \in Images : RowOK(m)'
    <2>1. CASE UNCHANGED <<row, pending>>
        BY <1>2, <1>3, <2>1, RowsStay DEF MediaInv, TablesOK
    <2>2. ASSUME NEW n \in Images, NEW document, Fresh(document), Insert(n, document)
          PROVE  /\ row' \in [Nodes -> Rows] /\ pending' \in [Nodes -> Nat]
                 /\ \A m \in Images : RowOK(m)'
        <3>1. n \in Nodes
            BY DEF Nodes
        <3>2. QED
            BY <1>2, <1>3, <2>2, <3>1, InsertRows
    <2>3. "init" \in Statuses /\ TRUE \in BOOLEAN
        BY DEF Statuses
    <2>4. QED
        BY <2>1, <2>2, <2>3, FreshDocument DEF Thumbnail
<1>5. TablesOK'
    BY <1>1, <1>4 DEF MediaInv, TablesOK
<1>6. /\ pc'[l] = "idle"
      /\ \A v \in Workers \ {l} : /\ pc'[v] = pc[v] /\ of'[v] = of[v]
                                  /\ copy'[v] = copy[v] /\ revise'[v] = revise[v]
    BY <1>1 DEF MediaInv, TablesOK
<1>7. WorkerOK(l)'
    BY <1>6 DEF WorkerOK
<1>8. QED
    BY <1>2, <1>3, <1>4, <1>5, <1>6, <1>7, StepOf

\* A notification, the end of the process, or nothing.
LEMMA OutsideStep ==
    ASSUME MediaInv, (\E n \in Nodes : Notify(n)) \/ Crash \/ UNCHANGED mediaVars
    PROVE  MediaInv'
<1>1. UNCHANGED <<row, of, copy, revise, tainted, updates>>
    BY DEF Notify, Crash, Fault, Fail, frame, mediaVars, bounds
<1>2. StoreOK' /\ Stays
    <2>1. CASE Crash
        BY <1>1, <2>1, CrashStores DEF Crash, MediaInv
    <2>2. CASE ~Crash
        <3>1. UNCHANGED <<vaultVars, tainted>>
            BY <2>2 DEF Notify, mediaVars
        <3>2. QED
            BY <3>1, StoreUnchanged DEF MediaInv
    <2>3. QED
        BY <2>1, <2>2
<1>3. DOMAIN pc' = Workers /\ \A w \in Workers : pc'[w] = pc[w] \/ pc'[w] = "idle"
    BY DEF Notify, Crash, frame, mediaVars, MediaInv, TablesOK
<1>4. /\ pending' \in [Nodes -> Nat]
      /\ \A n \in Nodes : pending'[n] = 0 \/ pending'[n] = pending[n] \/ row[n] # NoRow
    BY DEF Notify, Crash, mediaVars, MediaInv, TablesOK
<1>5. TablesOK'
    BY <1>1, <1>3, <1>4 DEF MediaInv, TablesOK
<1>6. updates' \in Nat /\ updates <= updates'
    BY <1>1, MediaAssumption DEF MediaInv, TablesOK
<1>7. ASSUME NEW n \in Images PROVE RowOK(n)'
    <2>1. n \in Nodes
        BY DEF Nodes
    <2>2. QED
        BY <1>1, <1>2, <1>4, <1>6, <2>1, RowsStay
<1>8. ASSUME NEW w \in Workers PROVE WorkerOK(w)'
    <2>1. WorkerOK(w)
        BY DEF MediaInv
    <2>2. QED
        BY <1>1, <1>2, <1>3, <2>1 DEF WorkerOK, Stays, Earned
<1>9. QED
    BY <1>2, <1>5, <1>7, <1>8 DEF MediaInv

LEMMA NextMedia == ASSUME MediaInv, [MediaNext]_mediaVars PROVE MediaInv'
<1>1. ASSUME NEW w \in Clients, NEW n \in Nodes, Create(w, n) \/ Update(w, n) \/ Raw(w, n)
      PROVE  MediaInv'
    BY <1>1, CreateStep, UpdateStep, RawStep DEF Workers
<1>2. ASSUME NEW l \in Listeners, NEW n \in Nodes, Handle(l, n) PROVE MediaInv'
    BY <1>2, HandleStep DEF Workers
<1>3. ASSUME NEW w \in Workers, Continue(w) PROVE MediaInv'
    BY <1>3, SaveCheckStep, SaveWriteStep, EndPutStep, GetFailsStep, GetImageStep,
       GetVideoStep, ThumbnailStep DEF Continue
<1>4. QED
    BY <1>1, <1>2, <1>3, OutsideStep DEF MediaNext

\* An image that is done, and not by a client's word, was stored under some
\* revision, for any number of documents, notifications, stale saves, uploads,
\* failures and crashes, unless calls met on a name, one did not see what was
\* there, or an upload was lost unnoticed (ImageDownloadListener.Handle).
THEOREM DoneIsStored == MediaSpec => []DoneMeansStored
<1>1. MediaInit => MediaInv
    BY InitMedia
<1>2. MediaInv /\ [MediaNext]_mediaVars => MediaInv'
    BY NextMedia
<1>3. MediaInv => DoneMeansStored
    BY DEF MediaInv, RowOK, Kept, Earned, DoneMeansStored
<1>4. QED
    BY <1>1, <1>2, <1>3, PTL DEF MediaSpec

-----------------------------------------------------------------------------
(* Types: who is busy in the vault, and what waits to be asked for.        *)

\* A call of the vault is the Put of a worker that waits for it, under the name
\* of the copy it has.
Busied ==
    \A x \in Names : \A w \in busy[x] : pc[w] = "store" /\ x = NameOf(of[w], copy[w])

\* A node that has a source has been asked for: no Init has one.
Asked(node) == node.status = "init" => ~node.source

HoldInv ==
    /\ Busied
    /\ \A n \in Nodes : Asked(row[n])
    /\ \A w \in Workers : pc[w] \in {"check", "write"} => Asked(copy[w])

LEMMA HoldStep ==
    ASSUME MediaInv, HoldInv, NEW w \in Workers,
           \A v \in Workers \ {w} : pc'[v] = pc[v] /\ of'[v] = of[v] /\ copy'[v] = copy[v],
           \A x \in Names : \A v \in busy'[x] :
               \/ v # w /\ v \in Workers /\ v \in busy[x]
               \/ v = w /\ pc'[w] = "store" /\ x = NameOf(of'[w], copy'[w]),
           pc'[w] \in {"check", "write"} => Asked(copy'[w]),
           \A n \in Nodes : Asked(row'[n])
    PROVE  HoldInv'
<1>1. Busied'
    <2>1. SUFFICES ASSUME NEW x \in Names, NEW v \in busy'[x]
                   PROVE  pc'[v] = "store" /\ x = NameOf(of'[v], copy'[v])
        BY DEF Busied, NameOf
    <2>2. CASE v = w /\ pc'[w] = "store" /\ x = NameOf(of'[w], copy'[w])
        BY <2>2
    <2>3. CASE v # w /\ v \in Workers /\ v \in busy[x]
        <3>1. pc[v] = "store" /\ x = NameOf(of[v], copy[v])
            BY <2>3 DEF HoldInv, Busied
        <3>2. QED
            BY <2>3, <3>1
    <2>4. QED
        BY <2>2, <2>3
<1>2. ASSUME NEW v \in Workers, pc'[v] \in {"check", "write"} PROVE Asked(copy'[v])
    BY <1>2 DEF HoldInv
<1>3. (\A n \in Nodes : Asked(row[n]))' /\ (\A v \in Workers : pc[v] \in {"check", "write"} => Asked(copy[v]))'
    BY <1>2 DEF Asked
<1>4. QED
    BY <1>1, <1>3 DEF HoldInv

\* A worker that is not in a Put is busy nowhere.
LEMMA NotBusy ==
    ASSUME MediaInv, HoldInv, NEW w \in Workers, pc[w] # "store"
    PROVE  \A x \in Names : \A v \in busy[x] : v # w /\ v \in Workers /\ v \in busy[x]
BY DEF HoldInv, Busied, MediaInv, StoreOK

\* PreInsert and PreUpdate see to it that a source is asked for.
LEMMA PreUpdateAsks == ASSUME NEW node \in Rows PROVE Asked(PreUpdate(node))
BY DEF PreUpdate, Asked, Rows, Statuses

LEMMA InitHold == ASSUME MediaInit PROVE HoldInv
BY DEF MediaInit, HoldInv, Busied, Asked, NoRow

LEMMA InsertAsks ==
    ASSUME MediaInv, HoldInv, NEW n \in Nodes, NEW document, Fresh(document),
           Insert(n, document)
    PROVE  \A m \in Nodes : Asked(row'[m])
<1>1. row' = [row EXCEPT ![n] = PreUpdate(document)]
    BY DEF Insert
<1>2. Asked(PreUpdate(document))
    BY PreUpdateAsks DEF Fresh
<1>3. QED
    BY <1>1, <1>2 DEF MediaInv, TablesOK, HoldInv

\* A step of a worker that leaves the vault alone and is not in a Put.
LEMMA OutsideVault ==
    ASSUME MediaInv, HoldInv, NEW w \in Workers, pc[w] # "store", UNCHANGED busy,
           \A v \in Workers \ {w} : pc'[v] = pc[v] /\ of'[v] = of[v] /\ copy'[v] = copy[v],
           pc'[w] \in {"check", "write"} => Asked(copy'[w]),
           \A n \in Nodes : Asked(row'[n])
    PROVE  HoldInv'
BY NotBusy, HoldStep

LEMMA CallSaveAsks ==
    ASSUME MediaInv, NEW w \in Workers, NEW node \in Rows, NEW again, CallSave(w, node, again)
    PROVE  /\ pc'[w] = "check" /\ Asked(copy'[w])
           /\ \A v \in Workers \ {w} : pc'[v] = pc[v] /\ copy'[v] = copy[v]
BY PreUpdateAsks DEF CallSave, Goto, MediaInv, TablesOK

LEMMA BeginPutBusy ==
    ASSUME MediaInv, HoldInv, NEW w \in Workers, pc[w] # "store", NEW x \in Names,
           BeginPut(w, x), x = NameOf(of'[w], copy'[w])
    PROVE  /\ pc'[w] = "store" /\ \A v \in Workers \ {w} : pc'[v] = pc[v]
           /\ \A y \in Names : \A v \in busy'[y] :
                 \/ v # w /\ v \in Workers /\ v \in busy[y]
                 \/ v = w /\ pc'[w] = "store" /\ y = NameOf(of'[w], copy'[w])
<1>1. busy' = [busy EXCEPT ![x] = busy[x] \cup {w}]
    BY DEF BeginPut, Vault!BeginPut, Vault!Enter
<1>2. pc'[w] = "store" /\ \A v \in Workers \ {w} : pc'[v] = pc[v]
    BY DEF BeginPut, Goto, MediaInv, TablesOK
<1>3. ASSUME NEW y \in Names, NEW v \in busy'[y]
      PROVE  \/ v # w /\ v \in Workers /\ v \in busy[y]
             \/ v = w /\ pc'[w] = "store" /\ y = NameOf(of'[w], copy'[w])
    <2>1. v \in busy[y] \/ (y = x /\ v = w)
        BY <1>1, <1>3 DEF MediaInv, StoreOK
    <2>2. QED
        BY <1>2, <2>1, NotBusy
<1>4. QED
    BY <1>2, <1>3

LEMMA ClientsHold ==
    ASSUME MediaInv, HoldInv, NEW w \in Workers, NEW n \in Nodes,
           Create(w, n) \/ Update(w, n) \/ Raw(w, n)
    PROVE  HoldInv'
<1>1. pc[w] = "idle" /\ of' = [of EXCEPT ![w] = n] /\ n \in Nodes
    BY DEF Create, Update, Raw, Begin
<1>2. of'[w] = n /\ \A v \in Workers \ {w} : of'[v] = of[v]
    BY <1>1 DEF MediaInv, TablesOK
<1>3. row[n] \in Rows /\ Asked(row[n])
    BY DEF MediaInv, TablesOK, HoldInv
<1>4. CASE Create(w, n)
    <2>1. UNCHANGED <<busy, pc, copy>> /\ \E document : Fresh(document) /\ Insert(n, document)
        BY <1>4, FreshDocument DEF Create, vaultVars
    <2>2. QED
        BY <1>1, <1>2, <2>1, InsertAsks, OutsideVault
<1>5. CASE Update(w, n)
    <2>1. UNCHANGED <<busy, row>>
        BY <1>5 DEF Update, vaultVars
    <2>2. PICK node \in Rows : CallSave(w, node, TRUE)
        BY <1>3, <1>5, DocumentKeeps DEF Update
    <2>3. QED
        BY <1>1, <1>2, <2>1, <2>2, CallSaveAsks, OutsideVault DEF HoldInv
<1>6. CASE Raw(w, n)
    <2>1. UNCHANGED row /\ copy' = [copy EXCEPT ![w] = row[n]] /\ n \in Images /\ row[n] # NoRow
        BY <1>6 DEF Raw
    <2>2. copy'[w] = row[n] /\ \A v \in Workers \ {w} : copy'[v] = copy[v]
        BY <2>1 DEF MediaInv, TablesOK
    <2>3. CASE pc' = [pc EXCEPT ![w] = "idle"] /\ UNCHANGED busy
        <3>1. pc'[w] = "idle" /\ \A v \in Workers \ {w} : pc'[v] = pc[v]
            BY <2>3 DEF MediaInv, TablesOK
        <3>2. QED
            BY <1>1, <1>2, <2>1, <2>2, <2>3, <3>1, OutsideVault DEF HoldInv
    <2>4. CASE BeginPut(w, NameOf(n, row[n]))
        <3>1. NameOf(n, row[n]) \in Names
            <4>1. updates < MaxUpdates /\ updates \in Nat /\ row[n].revision \in 1..(updates + 1)
                BY <1>6, <2>1, MediaAssumption DEF Raw, Begin, MediaInv, TablesOK, RowOK
            <4>2. row[n].revision \in 1..(MaxUpdates + 1)
                BY <4>1, MediaAssumption
            <4>3. QED
                BY <2>1, <4>2 DEF NameOf, Names
        <3>2. NameOf(n, row[n]) = NameOf(of'[w], copy'[w])
            BY <1>2, <2>2
        <3>3. /\ pc'[w] = "store" /\ \A v \in Workers \ {w} : pc'[v] = pc[v]
              /\ \A y \in Names : \A v \in busy'[y] :
                    \/ v # w /\ v \in Workers /\ v \in busy[y]
                    \/ v = w /\ pc'[w] = "store" /\ y = NameOf(of'[w], copy'[w])
            BY <1>1, <2>4, <3>1, <3>2, BeginPutBusy
        <3>4. QED
            BY <1>2, <2>1, <2>2, <3>3, HoldStep DEF HoldInv
    <2>5. QED
        BY <1>6, <2>3, <2>4 DEF Raw, PutRefused, Goto, vaultVars
<1>7. QED
    BY <1>4, <1>5, <1>6

LEMMA HandleHold ==
    ASSUME MediaInv, HoldInv, NEW l \in Workers, NEW n \in Nodes, Handle(l, n)
    PROVE  HoldInv'
<1>1. pc[l] = "idle" /\ UNCHANGED <<row, busy>>
    BY DEF Handle, vaultVars
<1>2. pc'[l] \in {"idle", "get"}
    BY <1>1 DEF Handle, frame, Goto, MediaInv, TablesOK
<1>3. \A v \in Workers \ {l} : pc'[v] = pc[v] /\ of'[v] = of[v] /\ copy'[v] = copy[v]
    BY DEF Handle, frame, Goto, MediaInv, TablesOK
<1>4. QED
    BY <1>1, <1>2, <1>3, OutsideVault DEF HoldInv

LEMMA SaveHold ==
    ASSUME MediaInv, HoldInv, NEW w \in Workers, SaveCheck(w) \/ SaveWrite(w)
    PROVE  HoldInv'
<1>1. pc[w] \in {"check", "write"} /\ UNCHANGED <<busy, of>> /\ Asked(copy[w])
    BY DEF SaveCheck, SaveWrite, vaultVars, HoldInv
<1>2. copy[w] \in Rows
    BY DEF MediaInv, TablesOK
<1>3. \A v \in Workers \ {w} : pc'[v] = pc[v] /\ of'[v] = of[v] /\ copy'[v] = copy[v]
    BY <1>1 DEF SaveCheck, SaveWrite, Goto, MediaInv, TablesOK
<1>4. Asked(copy'[w])
    <2>1. CASE SaveCheck(w)
        <3>1. \/ UNCHANGED copy
              \/ \E r : copy' = [copy EXCEPT ![w] = [copy[w] EXCEPT !.revision = r]]
            BY <2>1 DEF SaveCheck
        <3>2. ASSUME NEW r, copy' = [copy EXCEPT ![w] = [copy[w] EXCEPT !.revision = r]]
              PROVE  Asked(copy'[w])
            <4>1. copy'[w] = [copy[w] EXCEPT !.revision = r]
                BY <3>2 DEF MediaInv, TablesOK
            <4>2. copy'[w].status = copy[w].status /\ copy'[w].source = copy[w].source
                BY <1>2, <4>1 DEF Rows
            <4>3. QED
                BY <1>1, <4>2 DEF Asked
        <3>3. QED
            BY <1>1, <3>1, <3>2
    <2>2. CASE SaveWrite(w)
        BY <1>1, <2>2 DEF SaveWrite
    <2>3. QED
        BY <2>1, <2>2
<1>5. \A n \in Nodes : Asked(row'[n])
    BY <1>1 DEF SaveCheck, SaveWrite, HoldInv, MediaInv, TablesOK
<1>6. QED
    BY <1>1, <1>3, <1>4, <1>5, OutsideVault

LEMMA EndPutHold ==
    ASSUME MediaInv, HoldInv, NEW w \in Workers, EndPut(w) PROVE HoldInv'
<1> DEFINE x == NameOf(of[w], copy[w])
<1>1. /\ pc[w] = "store" /\ UNCHANGED <<row, of>>
      /\ \E e : Vault!EndCall(x, w, e)
      /\ Stored(w, TRUE) \/ Stored(w, FALSE)
    BY DEF EndPut
<1>2. busy' = [busy EXCEPT ![x] = busy[x] \ {w}]
    BY <1>1 DEF Vault!EndCall
<1>3. ASSUME NEW y \in Names, NEW v \in busy'[y] PROVE v # w /\ v \in Workers /\ v \in busy[y]
    <2>1. v \in busy[y] /\ (y = x => v # w)
        BY <1>2, <1>3 DEF MediaInv, StoreOK
    <2>2. w \in busy[y] => y = x
        BY DEF HoldInv, Busied
    <2>3. QED
        BY <2>1, <2>2 DEF MediaInv, StoreOK
<1>4. /\ \A v \in Workers \ {w} : pc'[v] = pc[v] /\ copy'[v] = copy[v]
      /\ pc'[w] \in {"check", "write"} => Asked(copy'[w])
    <2>1. CASE Stored(w, FALSE)
        BY <2>1 DEF Stored, Goto, MediaInv, TablesOK
    <2>2. CASE Stored(w, TRUE)
        <3>1. [copy[w] EXCEPT !.status = "done"] \in Rows /\ copy[w] \in Rows
            BY DEF MediaInv, TablesOK, Rows, Statuses
        <3>2. PICK node \in Rows : CallSave(w, node, FALSE)
            BY <2>2, <3>1 DEF Stored
        <3>3. QED
            BY <3>2, CallSaveAsks
    <2>3. QED
        BY <1>1, <2>1, <2>2
<1>5. QED
    BY <1>1, <1>3, <1>4, HoldStep DEF HoldInv

LEMMA GetHold ==
    ASSUME MediaInv, HoldInv, NEW l \in Workers, GetFails(l) \/ GetImage(l) \/ GetVideo(l)
    PROVE  HoldInv'
<1>1. pc[l] = "get" /\ UNCHANGED <<row, of>>
    BY DEF GetFails, GetImage, GetVideo
<1>2. CASE GetFails(l) \/ GetVideo(l)
    <2>1. /\ [copy[l] EXCEPT !.status = "done"] \in Rows
          /\ [copy[l] EXCEPT !.status = "error"] \in Rows
        BY DEF MediaInv, TablesOK, Rows, Statuses
    <2>2. PICK node \in Rows, again \in {TRUE, of[l] \in Videos} : CallSave(l, node, again)
        BY <1>2, <2>1 DEF GetFails, GetVideo
    <2>3. UNCHANGED busy
        BY <1>2 DEF GetFails, GetVideo, vaultVars
    <2>4. QED
        BY <1>1, <2>2, <2>3, CallSaveAsks, OutsideVault DEF HoldInv
<1>3. CASE GetImage(l)
    <2> DEFINE x == NameOf(of[l], copy[l])
    <2>1. UNCHANGED copy /\ of[l] \in Images
        BY <1>3 DEF GetImage
    <2>2. CASE pc' = [pc EXCEPT ![l] = "idle"] /\ UNCHANGED busy
        <3>1. pc'[l] = "idle" /\ \A v \in Workers \ {l} : pc'[v] = pc[v]
            BY <2>2 DEF MediaInv, TablesOK
        <3>2. QED
            BY <1>1, <2>1, <2>2, <3>1, OutsideVault DEF HoldInv
    <2>3. CASE BeginPut(l, x)
        <3>1. x \in Names
            <4>1. copy[l].revision \in 1..(updates + 1) /\ updates \in 0..MaxUpdates
                BY <1>1, <2>1 DEF MediaInv, WorkerOK, TablesOK
            <4>2. copy[l].revision \in 1..(MaxUpdates + 1)
                BY <4>1, MediaAssumption
            <4>3. QED
                BY <2>1, <4>2 DEF NameOf, Names
        <3>2. x = NameOf(of'[l], copy'[l])
            BY <1>1, <2>1
        <3> HIDE DEF x
        <3>3. /\ pc'[l] = "store" /\ \A v \in Workers \ {l} : pc'[v] = pc[v]
              /\ \A y \in Names : \A v \in busy'[y] :
                    \/ v # l /\ v \in Workers /\ v \in busy[y]
                    \/ v = l /\ pc'[l] = "store" /\ y = NameOf(of'[l], copy'[l])
            BY <1>1, <2>3, <3>1, <3>2, BeginPutBusy
        <3>4. QED
            BY <1>1, <2>1, <3>3, HoldStep DEF HoldInv
    <2>4. QED
        BY <1>3, <2>2, <2>3 DEF GetImage, PutRefused, Goto, vaultVars
<1>4. QED
    BY <1>2, <1>3

LEMMA ThumbnailHold ==
    ASSUME MediaInv, HoldInv, NEW l \in Workers, Thumbnail(l) PROVE HoldInv'
<1>1. /\ pc[l] = "thumbnail" /\ pc' = [pc EXCEPT ![l] = "idle"]
      /\ UNCHANGED <<busy, of, copy>>
    BY DEF Thumbnail, Goto, vaultVars
<1>2. \A n \in Nodes : Asked(row'[n])
    <2>1. CASE UNCHANGED row
        BY <2>1 DEF HoldInv
    <2>2. ASSUME NEW n \in Images, NEW document, Fresh(document), Insert(n, document)
          PROVE  \A m \in Nodes : Asked(row'[m])
        BY <2>2, InsertAsks DEF Nodes
    <2>3. "init" \in Statuses /\ TRUE \in BOOLEAN
        BY DEF Statuses
    <2>4. QED
        BY <2>1, <2>2, <2>3, FreshDocument DEF Thumbnail
<1>3. pc'[l] = "idle" /\ \A v \in Workers \ {l} : pc'[v] = pc[v]
    BY <1>1 DEF MediaInv, TablesOK
<1>4. QED
    BY <1>1, <1>2, <1>3, OutsideVault

LEMMA OutsideHold ==
    ASSUME MediaInv, HoldInv, (\E n \in Nodes : Notify(n)) \/ Crash \/ UNCHANGED mediaVars
    PROVE  HoldInv'
<1>1. CASE Crash
    BY <1>1 DEF Crash, Vault!CrashAll, HoldInv, Busied, Asked
<1>2. CASE ~Crash
    <2>1. UNCHANGED <<row, busy, pc, of, copy>>
        BY <1>2 DEF Notify, mediaVars, vaultVars, frame
    <2>2. QED
        BY <2>1 DEF HoldInv, Busied, Asked, NameOf
<1>3. QED
    BY <1>1, <1>2

LEMMA NextHold == ASSUME MediaInv, HoldInv, [MediaNext]_mediaVars PROVE HoldInv'
<1>1. ASSUME NEW w \in Clients, NEW n \in Nodes, Create(w, n) \/ Update(w, n) \/ Raw(w, n)
      PROVE  HoldInv'
    BY <1>1, ClientsHold DEF Workers
<1>2. ASSUME NEW l \in Listeners, NEW n \in Nodes, Handle(l, n) PROVE HoldInv'
    BY <1>2, HandleHold DEF Workers
<1>3. ASSUME NEW w \in Workers, Continue(w) PROVE HoldInv'
    BY <1>3, SaveHold, EndPutHold, GetHold, ThumbnailHold DEF Continue
<1>4. QED
    BY <1>1, <1>2, <1>3, OutsideHold DEF MediaNext

\* The vault is busy only for workers in a Put, its entries are being written
\* exactly while it is, and no row that has a source rests in Init, which
\* nobody would ever download (PreInsert and PreUpdate of media_image.go and
\* media_youtube.go).
THEOREM MediaTypes == MediaSpec => []MediaTypeOK
<1>1. MediaInit => MediaInv /\ HoldInv
    BY InitMedia, InitHold
<1>2. MediaInv /\ HoldInv /\ [MediaNext]_mediaVars => MediaInv' /\ HoldInv'
    BY NextMedia, NextHold
<1>3. MediaInv /\ HoldInv => MediaTypeOK
    BY DEF MediaInv, StoreOK, TablesOK, HoldInv, Busied, Asked, MediaTypeOK
<1>4. QED
    BY <1>1, <1>2, <1>3, PTL DEF MediaSpec

=============================================================================
