------------------------------ MODULE HubProofs ------------------------------
(***************************************************************************)
(* Proofs about the pointers of the WebSocket list, for every number of    *)
(* connections, events and walks.                                          *)
(***************************************************************************)
EXTENDS Hub, Integers, TLAPS

Steps == {"new", "push", "open", "unlink", "left"}

Elements == Conns \cup {Root}

Pointers == Elements \cup {Nil}

Ring == {Root} \cup {c \in Conns : pc[c] \in {"open", "unlink"}}

PointersOK ==
    /\ pc \in [Conns -> Steps]
    /\ next \in [Elements -> Pointers] /\ prev \in [Elements -> Pointers]
    /\ at \in [Conns -> Pointers] /\ after \in [Conns -> Pointers]

RingOK == \A e \in Ring : /\ next[e] \in Ring /\ prev[e] \in Ring
                          /\ prev[next[e]] = e /\ next[prev[e]] = e

\* At most one route changes the list, and what it read still holds.
OneChanges ==
    /\ \A c, d \in Changing : c = d
    /\ \A c \in Conns :
        /\ pc[c] = "push" => at[c] = prev[Root] /\ after[c] = Root
        /\ pc[c] = "unlink" => at[c] = prev[c] /\ after[c] = next[c]

\* The strengthening of OneRing: without what a route has read it would not be
\* inductive, because a route writes what it read a step before.
Linked == PointersOK /\ RingOK /\ OneChanges

RingInv == ~raced => Linked

-----------------------------------------------------------------------------

LEMMA InitRing == ASSUME HubInit PROVE RingInv
<1>1. PointersOK
    BY HubAssumption DEF HubInit, PointersOK, Elements, Pointers, Steps
<1>2. RingOK
    BY HubAssumption DEF HubInit, RingOK, Ring
<1>3. OneChanges
    BY DEF HubInit, OneChanges, Changing
<1>4. QED
    BY <1>1, <1>2, <1>3 DEF RingInv, Linked

\* A step of a walk, or of the remote end.
LEMMA SameRing ==
    ASSUME Linked, UNCHANGED <<next, prev, pc, at, after>> PROVE Linked'
BY DEF Linked, PointersOK, RingOK, Ring, OneChanges, Changing

LEMMA ConnectRing ==
    ASSUME Linked, NEW c \in Conns, Connect(c), Changing = {} PROVE Linked'
<1>1. /\ pc[c] = "new" /\ pc' = [pc EXCEPT ![c] = "push"]
      /\ at' = [at EXCEPT ![c] = prev[Root]]
      /\ after' = [after EXCEPT ![c] = next[prev[Root]]]
      /\ UNCHANGED <<next, prev>>
    BY DEF Connect, ReadNeighbours, listVars
<1>2. Root \in Ring /\ prev[Root] \in Pointers /\ next[prev[Root]] = Root
    BY DEF Linked, RingOK, Ring, PointersOK, Elements
<1>3. PointersOK'
    BY <1>1, <1>2 DEF Linked, PointersOK, Elements, Pointers, Steps
<1>4. Ring' = Ring
    BY <1>1 DEF Ring, Linked, PointersOK
<1>5. RingOK'
    BY <1>1, <1>4 DEF Linked, RingOK
<1>6. ASSUME NEW d \in Conns, pc'[d] \in {"push", "unlink"} PROVE d = c
    BY <1>1, <1>6 DEF Changing, Linked, PointersOK
<1>7. pc'[c] = "push" /\ at'[c] = prev'[Root] /\ after'[c] = Root
    BY <1>1, <1>2 DEF Linked, PointersOK
<1>8. OneChanges'
    BY <1>6, <1>7 DEF OneChanges, Changing
<1>9. QED
    BY <1>3, <1>5, <1>8 DEF Linked

LEMMA PingFailsRing ==
    ASSUME Linked, NEW c \in Conns, PingFails(c), Changing = {} PROVE Linked'
<1>1. /\ pc[c] = "open" /\ pc' = [pc EXCEPT ![c] = "unlink"]
      /\ at' = [at EXCEPT ![c] = prev[c]] /\ after' = [after EXCEPT ![c] = next[c]]
      /\ UNCHANGED <<next, prev>>
    BY DEF PingFails, ReadNeighbours, listVars
<1>2. PointersOK'
    BY <1>1 DEF Linked, PointersOK, Elements, Pointers, Steps
<1>3. Ring' = Ring
    BY <1>1 DEF Ring, Linked, PointersOK
<1>4. RingOK'
    BY <1>1, <1>3 DEF Linked, RingOK
<1>5. ASSUME NEW d \in Conns, pc'[d] \in {"push", "unlink"} PROVE d = c
    BY <1>1, <1>5 DEF Changing, Linked, PointersOK
<1>6. pc'[c] = "unlink" /\ at'[c] = prev'[c] /\ after'[c] = next'[c]
    BY <1>1 DEF Linked, PointersOK
<1>7. OneChanges'
    BY <1>5, <1>6 DEF OneChanges, Changing
<1>8. QED
    BY <1>2, <1>4, <1>7 DEF Linked

\* The new element comes between the last one and the root.
LEMMA PushBackRing ==
    ASSUME Linked, NEW c \in Conns, PushBack(c) PROVE Linked'
<1> DEFINE p == prev[Root]
<1>1. /\ pc[c] = "push" /\ at[c] = p /\ after[c] = Root /\ c # Root
      /\ c \notin Ring /\ Root \in Ring /\ p \in Ring /\ next[p] = Root
      /\ Ring \subseteq Elements /\ c \in Elements
    BY HubAssumption DEF PushBack, Linked, OneChanges, RingOK, Ring, Elements
<1>2. /\ pc' = [pc EXCEPT ![c] = "open"]
      /\ next' = [next EXCEPT ![p] = c, ![c] = Root]
      /\ prev' = [prev EXCEPT ![Root] = c, ![c] = p]
      /\ at' = [at EXCEPT ![c] = Nil] /\ after' = [after EXCEPT ![c] = Nil]
    BY <1>1, HubAssumption DEF PushBack, Forget
<1>3. PointersOK'
    BY <1>1, <1>2 DEF Linked, PointersOK, Elements, Pointers, Steps
<1>4. Ring' = Ring \cup {c}
    BY <1>2 DEF Ring, Linked, PointersOK
<1>5. /\ next'[c] = Root /\ next'[p] = c
      /\ \A e \in Ring \ {p} : next'[e] = next[e]
      /\ prev'[c] = p /\ prev'[Root] = c
      /\ \A e \in Ring \ {Root} : prev'[e] = prev[e]
    BY <1>1, <1>2 DEF Linked, PointersOK
<1>6. ASSUME NEW e \in Ring'
      PROVE  /\ next'[e] \in Ring' /\ prev'[e] \in Ring'
             /\ prev'[next'[e]] = e /\ next'[prev'[e]] = e
    <2>1. CASE e = c
        BY <2>1, <1>1, <1>4, <1>5
    <2>2. CASE e # c
        <3>1. /\ e \in Ring /\ next[e] \in Ring /\ prev[e] \in Ring
              /\ prev[next[e]] = e /\ next[prev[e]] = e
            BY <2>2, <1>4, <1>6 DEF Linked, RingOK
        <3>2. next'[e] \in Ring' /\ prev'[next'[e]] = e
            BY <3>1, <1>1, <1>4, <1>5
        <3>3. prev'[e] \in Ring' /\ next'[prev'[e]] = e
            BY <3>1, <1>1, <1>4, <1>5
        <3>4. QED
            BY <3>2, <3>3
    <2>3. QED
        BY <2>1, <2>2
<1>7. RingOK'
    BY <1>6 DEF RingOK
<1>8. ASSUME NEW d \in Conns PROVE pc'[d] \notin {"push", "unlink"}
    BY <1>1, <1>2 DEF Linked, OneChanges, Changing, PointersOK
<1>9. OneChanges'
    BY <1>8 DEF OneChanges, Changing
<1>10. QED
    BY <1>3, <1>7, <1>9 DEF Linked

\* The neighbours of the element that leaves become neighbours.
LEMMA UnlinkRing ==
    ASSUME Linked, NEW c \in Conns, Unlink(c) PROVE Linked'
<1> DEFINE p == prev[c]
           n == next[c]
<1>1. /\ pc[c] = "unlink" /\ at[c] = p /\ after[c] = n /\ c # Root
      /\ c \in Ring /\ p \in Ring /\ n \in Ring /\ Root \in Ring /\ n # Nil
      /\ prev[n] = c /\ next[p] = c /\ Ring \subseteq Elements
    BY HubAssumption DEF Unlink, Linked, OneChanges, RingOK, Ring, Elements
<1>2. /\ pc' = [pc EXCEPT ![c] = "left"]
      /\ next' = [next EXCEPT ![p] = n, ![c] = Nil]
      /\ prev' = [prev EXCEPT ![n] = p, ![c] = Nil]
      /\ at' = [at EXCEPT ![c] = Nil] /\ after' = [after EXCEPT ![c] = Nil]
    BY <1>1 DEF Unlink, Forget
<1>3. PointersOK'
    BY <1>1, <1>2 DEF Linked, PointersOK, Elements, Pointers, Steps
<1>4. Ring' = Ring \ {c}
    BY <1>1, <1>2 DEF Ring, Linked, PointersOK
<1>5. /\ \A e \in Ring \ {p, c} : next'[e] = next[e]
      /\ \A e \in Ring \ {n, c} : prev'[e] = prev[e]
      /\ p # c => next'[p] = n
      /\ n # c => prev'[n] = p
    BY <1>1, <1>2 DEF Linked, PointersOK
<1>6. ASSUME NEW e \in Ring'
      PROVE  /\ next'[e] \in Ring' /\ prev'[e] \in Ring'
             /\ prev'[next'[e]] = e /\ next'[prev'[e]] = e
    <2>1. /\ e \in Ring /\ e # c /\ next[e] \in Ring /\ prev[e] \in Ring
          /\ prev[next[e]] = e /\ next[prev[e]] = e
        BY <1>4, <1>6 DEF Linked, RingOK
    <2>2. next'[e] \in Ring' /\ prev'[next'[e]] = e
        <3>1. CASE e = p
            BY <3>1, <2>1, <1>1, <1>4, <1>5
        <3>2. CASE e # p
            BY <3>2, <2>1, <1>1, <1>4, <1>5
        <3>3. QED
            BY <3>1, <3>2
    <2>3. prev'[e] \in Ring' /\ next'[prev'[e]] = e
        <3>1. CASE e = n
            BY <3>1, <2>1, <1>1, <1>4, <1>5
        <3>2. CASE e # n
            BY <3>2, <2>1, <1>1, <1>4, <1>5
        <3>3. QED
            BY <3>1, <3>2
    <2>4. QED
        BY <2>2, <2>3
<1>7. RingOK'
    BY <1>6 DEF RingOK
<1>8. ASSUME NEW d \in Conns PROVE pc'[d] \notin {"push", "unlink"}
    BY <1>1, <1>2 DEF Linked, OneChanges, Changing, PointersOK
<1>9. OneChanges'
    BY <1>8 DEF OneChanges, Changing
<1>10. QED
    BY <1>3, <1>7, <1>9 DEF Linked

LEMMA NextRing == ASSUME RingInv, [HubNext]_hubVars PROVE RingInv'
<1>1. SUFFICES ASSUME ~raced' PROVE Linked'
    BY DEF RingInv
<1>2. ASSUME NEW c \in Conns, Connect(c) \/ PingFails(c) PROVE Linked'
    <2>1. ~raced /\ Changing = {}
        BY <1>1, <1>2 DEF Connect, PingFails, ReadNeighbours
    <2>2. QED
        BY <1>2, <2>1, ConnectRing, PingFailsRing DEF RingInv
<1>3. ASSUME NEW c \in Conns, PushBack(c) \/ Unlink(c) PROVE Linked'
    <2>1. ~raced
        BY <1>1, <1>3 DEF PushBack, Unlink
    <2>2. QED
        BY <1>3, <2>1, PushBackRing, UnlinkRing DEF RingInv
<1>4. CASE \/ \E c \in Conns : Leave(c)
           \/ \E w \in Walks : BeginWalk(w) \/ Advance(w)
           \/ UNCHANGED hubVars
    <2>1. UNCHANGED <<next, prev, pc, at, after, raced>>
        BY <1>4 DEF Leave, BeginWalk, Advance, hubVars, listVars, routeVars
    <2>2. QED
        BY <1>1, <2>1, SameRing DEF RingInv
<1>5. QED
    BY <1>2, <1>3, <1>4 DEF HubNext

\* As long as no two routes change the list at the same time, it is one ring of
\* its root and the connections whose route is running.
THEOREM ListIsOneRing == HubSpec => []OneRing
<1>1. HubInit => RingInv
    BY InitRing
<1>2. RingInv /\ [HubNext]_hubVars => RingInv'
    BY NextRing
<1>3. RingInv => OneRing
    BY DEF RingInv, Linked, RingOK, Ring, OneRing
<1>4. QED
    BY <1>1, <1>2, <1>3, PTL DEF HubSpec

-----------------------------------------------------------------------------
(* What no race damages: the pointers of an element on the list, and the   *)
(* root's own, are never nil, so that the list leads back to its root.     *)

WalkSteps == {"idle", "walking", "done"}

WholeAt(c) ==
    /\ listed[c] <=> pc[c] \in {"open", "unlink"}
    /\ pc[c] = "push" => at[c] # Nil
    /\ listed[c] => next[c] # Nil /\ prev[c] # Nil
    /\ pc[c] = "unlink" => at[c] # Nil /\ after[c] # Nil

Whole ==
    /\ next[Root] # Nil /\ prev[Root] # Nil
    /\ \A c \in Conns : WholeAt(c)

WalkAt(w) ==
    /\ walk[w] = "walking" <=> cursor[w] \in Conns
    /\ walk[w] = "idle" => reached[w] = {}

WalksOK ==
    /\ walk \in [Walks -> WalkSteps] /\ cursor \in [Walks -> Conns \cup {Nil}]
    /\ reached \in [Walks -> SUBSET Conns] /\ expected \in [Walks -> SUBSET Conns]
    /\ \A w \in Walks : WalkAt(w)

Undamaged ==
    /\ PointersOK /\ listed \in [Conns -> BOOLEAN] /\ cut \in [Walks -> BOOLEAN]
    /\ Whole /\ WalksOK

LEMMA InitUndamaged == ASSUME HubInit PROVE Undamaged
<1>1. PointersOK
    BY HubAssumption DEF HubInit, PointersOK, Elements, Pointers, Steps
<1>2. listed \in [Conns -> BOOLEAN] /\ cut \in [Walks -> BOOLEAN]
    BY DEF HubInit
<1>3. Whole
    BY HubAssumption DEF HubInit, Whole, WholeAt
<1>4. WalksOK
    BY HubAssumption DEF HubInit, WalksOK, WalkAt, WalkSteps
<1>5. QED
    BY <1>1, <1>2, <1>3, <1>4 DEF Undamaged

\* What a walk looks at next is a connection, or nothing.
LEMMA StandsOnConns ==
    ASSUME Undamaged
    PROVE  /\ Front \in Conns \cup {Nil}
           /\ \A e \in Conns : Next(e) \in Conns \cup {Nil}
           /\ \A e \in Conns : Next(e) # Nil => listed[e] /\ Next(e) = next[e]
BY HubAssumption DEF Undamaged, Whole, WholeAt, PointersOK, Elements, Pointers, Front, Next

LEMMA StandKeepsWalks ==
    ASSUME Undamaged, NEW w \in Walks, NEW e \in Conns \cup {Nil}, Stand(w, e),
           expected' \in [Walks -> SUBSET Conns]
    PROVE  WalksOK'
<1>1. /\ cursor' = [cursor EXCEPT ![w] = e]
      /\ walk' = [walk EXCEPT ![w] = IF e = Nil THEN "done" ELSE "walking"]
      /\ reached' = [reached EXCEPT ![w] = @ \cup ({e} \ {Nil})]
    BY DEF Stand
<1>2. /\ walk' \in [Walks -> WalkSteps] /\ cursor' \in [Walks -> Conns \cup {Nil}]
      /\ reached' \in [Walks -> SUBSET Conns]
    BY <1>1 DEF Undamaged, WalksOK, WalkSteps
<1>3. ASSUME NEW v \in Walks PROVE WalkAt(v)'
    <2>1. CASE v = w
        BY <1>1, <2>1, HubAssumption DEF Undamaged, WalksOK, WalkAt
    <2>2. CASE v # w
        BY <1>1, <2>2 DEF Undamaged, WalksOK, WalkAt
    <2>3. QED
        BY <2>1, <2>2
<1>4. QED
    BY <1>2, <1>3 DEF WalksOK

\* A step of a walk.
LEMMA WalkUndamaged ==
    ASSUME Undamaged, NEW w \in Walks, BeginWalk(w) \/ Advance(w) PROVE Undamaged'
<1>1. PICK e \in Conns \cup {Nil} : Stand(w, e)
    <2>1. CASE BeginWalk(w)
        BY <2>1, StandsOnConns DEF BeginWalk
    <2>2. CASE Advance(w)
        <3>1. cursor[w] \in Conns
            BY <2>2 DEF Advance, Undamaged, WalksOK, WalkAt
        <3>2. QED
            BY <2>2, <3>1, StandsOnConns DEF Advance
    <2>3. QED
        BY <2>1, <2>2
<1>2. expected' \in [Walks -> SUBSET Conns]
    BY DEF BeginWalk, Advance, Undamaged, WalksOK
<1>3. WalksOK'
    BY <1>1, <1>2, StandKeepsWalks
<1>4. UNCHANGED <<next, prev, listed, pc, at, after, cut>>
    BY DEF BeginWalk, Advance, listVars, routeVars
<1>5. PointersOK' /\ Whole'
    BY <1>4 DEF Undamaged, PointersOK, Whole, WholeAt
<1>6. QED
    BY <1>3, <1>4, <1>5 DEF Undamaged

\* A step of a route leaves the walks alone.
LEMMA SameWalks == ASSUME Undamaged, UNCHANGED walkVars PROVE WalksOK'
BY DEF Undamaged, WalksOK, WalkAt, walkVars

LEMMA RouteUndamaged ==
    ASSUME Undamaged, NEW c \in Conns,
           Connect(c) \/ PushBack(c) \/ Leave(c) \/ PingFails(c) \/ Unlink(c)
    PROVE  Undamaged'
<1>1. WalksOK'
    BY SameWalks DEF Connect, PushBack, Leave, PingFails, Unlink
<1>2. c # Root /\ c # Nil /\ Root # Nil /\ c \in Elements /\ Root \in Elements
    BY HubAssumption DEF Elements
<1>3. CASE Connect(c)
    <2>1. /\ pc' = [pc EXCEPT ![c] = "push"] /\ UNCHANGED <<next, prev, listed, cut>>
          /\ at' = [at EXCEPT ![c] = prev[Root]]
          /\ after' = [after EXCEPT ![c] = next[prev[Root]]] /\ pc[c] = "new"
        BY <1>3 DEF Connect, ReadNeighbours, listVars
    <2>2. prev[Root] \in Elements /\ prev[Root] # Nil
        BY <1>2 DEF Undamaged, Whole, PointersOK, Pointers
    <2>3. PointersOK'
        BY <2>1, <2>2 DEF Undamaged, PointersOK, Pointers, Steps
    <2>4. ASSUME NEW d \in Conns PROVE WholeAt(d)'
        BY <2>1, <2>2 DEF Undamaged, PointersOK, Whole, WholeAt
    <2>5. QED
        BY <1>1, <2>1, <2>3, <2>4 DEF Undamaged, Whole
<1>4. CASE PingFails(c)
    <2>1. /\ pc' = [pc EXCEPT ![c] = "unlink"] /\ UNCHANGED <<next, prev, listed, cut>>
          /\ at' = [at EXCEPT ![c] = prev[c]]
          /\ after' = [after EXCEPT ![c] = next[c]] /\ pc[c] = "open"
        BY <1>4 DEF PingFails, ReadNeighbours, listVars
    <2>2. PointersOK'
        BY <1>2, <2>1 DEF Undamaged, PointersOK, Pointers, Steps
    <2>3. ASSUME NEW d \in Conns PROVE WholeAt(d)'
        BY <2>1 DEF Undamaged, PointersOK, Whole, WholeAt
    <2>4. QED
        BY <1>1, <2>1, <2>2, <2>3 DEF Undamaged, Whole
<1>5. CASE Leave(c)
    BY <1>1, <1>5 DEF Leave, listVars, Undamaged, PointersOK, Whole, WholeAt
<1>6. CASE PushBack(c) /\ after[c] = Nil
    <2>1. /\ pc' = [pc EXCEPT ![c] = "left"] /\ UNCHANGED <<listed, cut>>
          /\ next' = [next EXCEPT ![at[c]] = c] /\ prev' = [prev EXCEPT ![c] = at[c]]
          /\ at' = [at EXCEPT ![c] = Nil] /\ after' = [after EXCEPT ![c] = Nil]
          /\ pc[c] = "push"
        BY <1>6 DEF PushBack, Forget
    <2>2. at[c] \in Elements
        BY <2>1 DEF Undamaged, Whole, WholeAt, PointersOK, Pointers
    <2>3. PointersOK'
        BY <1>2, <2>1, <2>2 DEF Undamaged, PointersOK, Elements, Pointers, Steps
    <2>4. ASSUME NEW d \in Conns PROVE WholeAt(d)'
        BY <1>2, <2>1, <2>2 DEF Undamaged, PointersOK, Elements, Whole, WholeAt
    <2>5. next'[Root] # Nil /\ prev'[Root] # Nil
        BY <1>2, <2>1, <2>2 DEF Undamaged, PointersOK, Whole
    <2>6. QED
        BY <1>1, <2>1, <2>3, <2>4, <2>5 DEF Undamaged, Whole
<1>7. CASE PushBack(c) /\ after[c] # Nil
    <2>1. /\ pc' = [pc EXCEPT ![c] = "open"] /\ UNCHANGED cut
          /\ listed' = [listed EXCEPT ![c] = TRUE]
          /\ next' = [next EXCEPT ![at[c]] = c, ![c] = after[c]]
          /\ prev' = [prev EXCEPT ![after[c]] = c, ![c] = at[c]]
          /\ at' = [at EXCEPT ![c] = Nil] /\ after' = [after EXCEPT ![c] = Nil]
          /\ pc[c] = "push"
        BY <1>7 DEF PushBack, Forget
    <2>2. at[c] \in Elements /\ after[c] \in Elements /\ at[c] # Nil /\ after[c] # Nil
        BY <1>7, <2>1 DEF Undamaged, Whole, WholeAt, PointersOK, Pointers
    <2>3. PointersOK'
        BY <1>2, <2>1, <2>2 DEF Undamaged, PointersOK, Elements, Pointers, Steps
    <2>4. ASSUME NEW d \in Conns PROVE WholeAt(d)'
        <3>1. CASE d = c
            BY <1>2, <2>1, <2>2, <3>1 DEF Undamaged, PointersOK, Elements, WholeAt
        <3>2. CASE d # c
            BY <1>2, <2>1, <2>2, <3>2 DEF Undamaged, PointersOK, Elements, Whole, WholeAt
        <3>3. QED
            BY <3>1, <3>2
    <2>5. next'[Root] # Nil /\ prev'[Root] # Nil
        BY <1>2, <2>1, <2>2 DEF Undamaged, PointersOK, Whole
    <2>6. listed' \in [Conns -> BOOLEAN]
        BY <2>1 DEF Undamaged
    <2>7. QED
        BY <1>1, <2>1, <2>3, <2>4, <2>5, <2>6 DEF Undamaged, Whole
<1>8. CASE Unlink(c)
    <2>1. /\ pc[c] = "unlink" /\ at[c] \in Elements /\ after[c] \in Elements
          /\ at[c] # Nil /\ after[c] # Nil
        BY <1>8 DEF Unlink, Undamaged, Whole, WholeAt, PointersOK, Pointers
    <2>2. /\ pc' = [pc EXCEPT ![c] = "left"] /\ listed' = [listed EXCEPT ![c] = FALSE]
          /\ next' = [next EXCEPT ![at[c]] = after[c], ![c] = Nil]
          /\ prev' = [prev EXCEPT ![after[c]] = at[c], ![c] = Nil]
          /\ at' = [at EXCEPT ![c] = Nil] /\ after' = [after EXCEPT ![c] = Nil]
          /\ cut' = [w \in Walks |-> cut[w] \/ walk[w] = "walking"]
        BY <1>8, <2>1 DEF Unlink, Forget
    <2>3. PointersOK'
        BY <1>2, <2>1, <2>2 DEF Undamaged, PointersOK, Elements, Pointers, Steps
    <2>4. ASSUME NEW d \in Conns PROVE WholeAt(d)'
        <3>1. CASE d = c
            BY <1>2, <2>1, <2>2, <3>1 DEF Undamaged, PointersOK, Elements, WholeAt
        <3>2. CASE d # c
            BY <1>2, <2>1, <2>2, <3>2 DEF Undamaged, PointersOK, Elements, Whole, WholeAt
        <3>3. QED
            BY <3>1, <3>2
    <2>5. next'[Root] # Nil /\ prev'[Root] # Nil
        BY <1>2, <2>1, <2>2 DEF Undamaged, PointersOK, Whole
    <2>6. listed' \in [Conns -> BOOLEAN] /\ cut' \in [Walks -> BOOLEAN]
        BY <2>2 DEF Undamaged
    <2>7. QED
        BY <1>1, <2>3, <2>4, <2>5, <2>6 DEF Undamaged, Whole
<1>9. QED
    BY <1>3, <1>4, <1>5, <1>6, <1>7, <1>8

LEMMA NextUndamaged == ASSUME Undamaged, [HubNext]_hubVars PROVE Undamaged'
<1>1. CASE UNCHANGED hubVars
    BY <1>1 DEF hubVars, listVars, routeVars, walkVars, Undamaged, PointersOK, Whole,
                WholeAt, WalksOK, WalkAt
<1>2. CASE HubNext
    BY <1>2, RouteUndamaged, WalkUndamaged DEF HubNext
<1>3. QED
    BY <1>1, <1>2

LEMMA AlwaysUndamaged == HubSpec => []Undamaged
BY InitUndamaged, NextUndamaged, PTL DEF HubSpec

\* Whatever routes change the list at the same time, its root and the elements
\* on it never lose their neighbours (PushBack, Remove).
THEOREM HubTypes == HubSpec => []HubTypeOK
<1>1. Undamaged => HubTypeOK
    BY DEF Undamaged, PointersOK, Elements, Pointers, Whole, WholeAt, WalksOK, WalkAt,
           HubTypeOK
<1>2. QED
    BY <1>1, AlwaysUndamaged, PTL

-----------------------------------------------------------------------------
(* Nobody gets an event twice.  A list that a race has damaged is no ring, *)
(* and a route may put an element before one that was there first; but     *)
(* there is always an order of the connections that its pointers follow,   *)
(* and a walk only goes up in it.                                          *)

\* Who was on the list, or is.
Public == {c \in Conns : pc[c] \notin {"new", "push"}}

\* Nothing leads to a connection before its writes.
Unseen ==
    /\ \A e \in Elements : {next[e], prev[e]} \subseteq Public \cup {Root, Nil}
    /\ \A c \in Conns : {at[c], after[c]} \subseteq Public \cup {Root, Nil}
    /\ \A w \in Walks : reached[w] \subseteq Public /\ cursor[w] \in Public \cup {Nil}

Ranks == [Conns -> Int]

\* What is not on the list any more need not be in order: no walk goes on there.
Precedes(rank, a, b) == a \in Conns /\ b \in Conns /\ listed[a] => rank[a] < rank[b]

Climbs(rank, w) ==
    walk[w] = "walking" => \A e \in reached[w] : rank[e] <= rank[cursor[w]]

Ascends(rank) ==
    /\ \A c \in Conns : Precedes(rank, c, next[c])
    /\ \A c \in Conns : listed[c] => Precedes(rank, prev[c], c)
    /\ \A c \in Changing : Precedes(rank, at[c], after[c])
    /\ \A w \in Walks : Climbs(rank, w)

InOrder(a, b) == \A rank \in Ranks : Ascends(rank) => Precedes(rank, a, b)

\* The ranks are bounded, for the rank of an element at the end of the list.
Ordered ==
    \E rank \in Ranks :
        /\ Ascends(rank)
        /\ \E top \in Int : \A c \in Conns : rank[c] <= top

OrderInv == Undamaged /\ Unseen /\ Ordered

LEMMA InitOrder == ASSUME HubInit PROVE OrderInv
<1>1. Undamaged
    BY InitUndamaged
<1>2. Unseen
    BY HubAssumption DEF HubInit, Unseen, Elements
<1>3. Ordered
    <2> DEFINE rank == [c \in Conns |-> 0]
    <2>1. rank \in Ranks /\ \A c \in Conns : rank[c] <= 0
        BY DEF Ranks
    <2>2. Ascends(rank)
        BY DEF HubInit, Ascends, Precedes, Changing, Climbs
    <2>3. QED
        BY <2>1, <2>2 DEF Ordered
<1>4. QED
    BY <1>1, <1>2, <1>3 DEF OrderInv

\* Connect and PingFails: what a route reads on the list is in order.
LEMMA ReadOrder ==
    ASSUME OrderInv, NEW c \in Conns, Connect(c) \/ PingFails(c), Undamaged'
    PROVE  OrderInv'
<1>1. /\ UNCHANGED <<next, prev, listed, walk, cursor, reached>>
      /\ c # Root /\ c # Nil /\ Root # Nil /\ c \in Elements /\ Root \in Elements
    BY HubAssumption DEF Connect, PingFails, listVars, walkVars, Elements
<1>2. PICK p \in Public \cup {Root, Nil}, n \in Public \cup {Root, Nil} :
        /\ at' = [at EXCEPT ![c] = p] /\ after' = [after EXCEPT ![c] = n]
        /\ InOrder(p, n)
    <2>1. CASE Connect(c)
        <3> DEFINE p == prev[Root]
                   n == next[prev[Root]]
        <3>1. p \in Public \cup {Root} /\ p \in Elements
            BY <1>1 DEF OrderInv, Undamaged, Whole, Unseen, Public, Elements
        <3>2. n \in Public \cup {Root, Nil}
            BY <3>1 DEF OrderInv, Unseen
        <3>3. InOrder(p, n)
            BY DEF InOrder, Ascends, Precedes
        <3>4. at' = [at EXCEPT ![c] = p] /\ after' = [after EXCEPT ![c] = n]
            BY <2>1 DEF Connect, ReadNeighbours
        <3> HIDE DEF p, n
        <3>5. QED
            BY <3>1, <3>2, <3>3, <3>4
    <2>2. CASE PingFails(c)
        <3> DEFINE p == prev[c]
                   n == next[c]
        <3>1. p \in Public \cup {Root, Nil} /\ n \in Public \cup {Root, Nil}
            BY <1>1 DEF OrderInv, Unseen
        <3>2. listed[c]
            BY <2>2 DEF PingFails, OrderInv, Undamaged, Whole, WholeAt
        <3>3. ASSUME NEW rank \in Ranks, Ascends(rank) PROVE Precedes(rank, p, n)
            <4>1. Precedes(rank, p, c) /\ Precedes(rank, c, n)
                BY <3>2, <3>3 DEF Ascends
            <4>2. QED
                BY <3>2, <4>1 DEF Precedes, Ranks
        <3>4. InOrder(p, n)
            BY <3>3 DEF InOrder
        <3>5. at' = [at EXCEPT ![c] = p] /\ after' = [after EXCEPT ![c] = n]
            BY <2>2 DEF PingFails, ReadNeighbours
        <3> HIDE DEF p, n
        <3>6. QED
            BY <3>1, <3>4, <3>5
    <2>3. QED
        BY <2>1, <2>2
<1>3. PICK label \in {"push", "unlink"} :
        /\ pc' = [pc EXCEPT ![c] = label]
        /\ label = "push" => pc[c] = "new"
        /\ label = "unlink" => pc[c] = "open"
    BY DEF Connect, PingFails
<1>4. Public' = Public
    BY <1>3 DEF Public, OrderInv, Undamaged, PointersOK
<1>5. Unseen'
    BY <1>1, <1>2, <1>4 DEF Unseen, OrderInv, Undamaged, PointersOK
<1>6. Ordered'
    <2>1. PICK rank \in Ranks :
            /\ Ascends(rank)
            /\ \E top \in Int : \A d \in Conns : rank[d] <= top
        BY DEF OrderInv, Ordered
    <2>2. ASSUME NEW d \in Conns, d \in Changing' PROVE Precedes(rank, at[d], after[d])'
        <3>1. CASE d = c
            <4>1. at'[d] = p /\ after'[d] = n
                BY <1>2, <3>1 DEF OrderInv, Undamaged, PointersOK
            <4>2. Precedes(rank, p, n)
                BY <1>2, <2>1 DEF InOrder
            <4>3. QED
                BY <1>1, <4>1, <4>2 DEF Precedes
        <3>2. CASE d # c
            <4>1. d \in Changing /\ at'[d] = at[d] /\ after'[d] = after[d]
                BY <1>2, <1>3, <2>2, <3>2 DEF Changing, OrderInv, Undamaged, PointersOK
            <4>2. Precedes(rank, at[d], after[d])
                BY <2>1, <4>1 DEF Ascends
            <4>3. QED
                BY <1>1, <4>1, <4>2 DEF Precedes
        <3>3. QED
            BY <3>1, <3>2
    <2>3. \A d \in Changing' : Precedes(rank, at[d], after[d])'
        BY <2>2 DEF Changing
    <2>4. Ascends(rank)'
        BY <1>1, <2>1, <2>3 DEF Ascends, Precedes, Climbs
    <2>5. QED
        BY <2>1, <2>4 DEF Ordered
<1>7. QED
    BY <1>5, <1>6 DEF OrderInv

\* The ranks after PushBack of c, before n or, where n is no element, at the end.
Inserted(rank, c, n, top) ==
    [d \in Conns |-> IF d # c THEN 2 * rank[d]
                     ELSE IF n \in Conns THEN 2 * rank[n] - 1 ELSE 2 * top + 1]

\* The others keep their order, and c comes right before n, or last.
Between(rank, new, c, n) ==
    /\ \A d, e \in Conns \ {c} :
          /\ rank[d] < rank[e] => new[d] < new[e]
          /\ rank[d] <= rank[e] => new[d] <= new[e]
    /\ n \in Conns => new[c] < new[n]
    /\ \A d \in Conns \ {c} : (n \in Conns => rank[d] < rank[n]) => new[d] < new[c]

LEMMA InsertedRanks ==
    ASSUME NEW rank \in Ranks, NEW top \in Int, \A d \in Conns : rank[d] <= top,
           NEW c \in Conns, NEW n, n # c
    PROVE  /\ Inserted(rank, c, n, top) \in Ranks
           /\ \A d \in Conns : Inserted(rank, c, n, top)[d] <= 2 * top + 1
           /\ Between(rank, Inserted(rank, c, n, top), c, n)
BY DEF Inserted, Ranks, Between

LEMMA PushBackOrder ==
    ASSUME OrderInv, NEW c \in Conns, PushBack(c), Undamaged' PROVE OrderInv'
<1>0. PICK a, n : a = at[c] /\ n = after[c]
    OBVIOUS
<1>1. /\ c # Root /\ c # Nil /\ Root # Nil /\ c \in Elements /\ Root \in Elements
      /\ pc[c] = "push" /\ ~listed[c]
    BY HubAssumption DEF PushBack, Elements, OrderInv, Undamaged, Whole, WholeAt
<1>2. /\ UNCHANGED <<walk, cursor, reached>>
      /\ at' = [at EXCEPT ![c] = Nil] /\ after' = [after EXCEPT ![c] = Nil]
    BY DEF PushBack, Forget, walkVars
<1>3. /\ a \in Public \cup {Root} /\ n \in Public \cup {Root, Nil} /\ c \notin Public
      /\ a # c /\ n # c
    BY <1>0, <1>1 DEF OrderInv, Unseen, Undamaged, Whole, WholeAt, Public
<1>4. PICK label \in {"open", "left"} : pc' = [pc EXCEPT ![c] = label]
    BY DEF PushBack
<1>5. Public' = Public \cup {c} /\ Changing' = Changing \ {c}
    BY <1>4 DEF Public, Changing, OrderInv, Undamaged, PointersOK
<1>6. /\ next'[a] = c
      /\ listed'[c] => next'[c] = n /\ prev'[c] = a /\ n # Nil
      /\ n \in Conns /\ listed'[n] => prev'[n] \in {c, prev[n]}
      /\ \A e \in Elements \ {a, c} : next'[e] = next[e]
      /\ \A e \in Elements \ {n, c} : prev'[e] = prev[e]
      /\ next'[c] \in {next[c], n} /\ prev'[c] = a
      /\ n \in Elements => prev'[n] \in {c, prev[n]}
      /\ \A d \in Conns \ {c} : listed'[d] = listed[d]
    <2>1. a \in Elements
        BY <1>3 DEF Public, Elements
    <2>2. CASE n = Nil
        <3>1. /\ next' = [next EXCEPT ![a] = c] /\ prev' = [prev EXCEPT ![c] = a]
              /\ UNCHANGED listed
            BY <1>0, <2>2 DEF PushBack
        <3>2. QED
            BY <1>1, <1>3, <2>1, <2>2, <3>1 DEF OrderInv, Undamaged, PointersOK, Elements
    <2>3. CASE n # Nil
        <3>1. /\ next' = [next EXCEPT ![a] = c, ![c] = n]
              /\ prev' = [prev EXCEPT ![n] = c, ![c] = a]
              /\ listed' = [listed EXCEPT ![c] = TRUE]
            BY <1>0, <2>3 DEF PushBack
        <3>2. n \in Elements
            BY <1>3, <2>3 DEF Public, Elements
        <3>3. QED
            BY <1>1, <1>3, <2>1, <2>3, <3>1, <3>2 DEF OrderInv, Undamaged, PointersOK, Elements
    <2>4. QED
        BY <2>2, <2>3
<1>7. Unseen'
    <2>1. ASSUME NEW e \in Elements
          PROVE  {next'[e], prev'[e]} \subseteq Public' \cup {Root, Nil}
        BY <1>3, <1>5, <1>6 DEF OrderInv, Unseen
    <2>2. ASSUME NEW d \in Conns
          PROVE  {at'[d], after'[d]} \subseteq Public' \cup {Root, Nil}
        BY <1>2, <1>5 DEF OrderInv, Unseen, Undamaged, PointersOK
    <2>3. QED
        BY <1>2, <1>5, <2>1, <2>2 DEF OrderInv, Unseen
<1>8. Ordered'
    <2>1. PICK rank \in Ranks :
            /\ Ascends(rank)
            /\ \E top \in Int : \A d \in Conns : rank[d] <= top
        BY DEF OrderInv, Ordered
    <2>2. PICK top \in Int : \A d \in Conns : rank[d] <= top
        BY <2>1
    <2>3. PICK new \in Ranks : (\A d \in Conns : new[d] <= 2 * top + 1) /\ Between(rank, new, c, n)
        BY <1>3, <2>2, InsertedRanks
    \* Between the elements that were there.
    <2>4. ASSUME NEW d, NEW e, d # c, e # c, Precedes(rank, d, e) PROVE Precedes(new, d, e)'
        BY <1>6, <2>3, <2>4 DEF Precedes, Between
    <2>5. Precedes(new, a, c)'
        <3>1. SUFFICES ASSUME a \in Conns, listed'[a] PROVE new[a] < new[c]
            BY DEF Precedes
        <3>2. c \in Changing
            BY <1>1 DEF Changing
        <3>3. Precedes(rank, a, n)
            BY <1>0, <2>1, <3>2 DEF Ascends
        <3>4. listed[a]
            BY <1>3, <1>6, <3>1
        <3>5. n \in Conns => rank[a] < rank[n]
            BY <3>1, <3>3, <3>4 DEF Precedes
        <3>6. QED
            BY <1>3, <2>3, <3>1, <3>5 DEF Between
    <2>6. Precedes(new, c, n)'
        BY <2>3 DEF Precedes, Between
    <2>7. ASSUME NEW d \in Conns PROVE Precedes(new, d, next[d])'
        <3>1. CASE d = c
            BY <1>6, <2>6, <3>1 DEF Precedes
        <3>2. CASE d = a
            BY <1>6, <2>5, <3>2 DEF Precedes
        <3>3. CASE d # c /\ d # a
            <4>1. next'[d] = next[d] /\ next[d] # c
                BY <1>3, <1>1, <1>6, <3>3 DEF Elements, OrderInv, Unseen
            <4>2. Precedes(rank, d, next[d])
                BY <2>1 DEF Ascends
            <4>3. QED
                BY <2>4, <3>3, <4>1, <4>2 DEF Precedes
        <3>4. QED
            BY <3>1, <3>2, <3>3
    <2>8. ASSUME NEW d \in Conns, listed'[d] PROVE Precedes(new, prev[d], d)'
        <3>1. CASE d = c
            BY <1>6, <2>5, <3>1 DEF Precedes
        <3>2. CASE d # c /\ prev'[d] = c
            <4>1. d = n
                BY <1>1, <1>3, <1>6, <3>2 DEF Elements, OrderInv, Unseen
            <4>2. QED
                BY <2>6, <3>2, <4>1 DEF Precedes
        <3>3. CASE d # c /\ prev'[d] # c
            <4>1. prev'[d] = prev[d] /\ listed[d]
                BY <1>6, <2>8, <3>3 DEF Elements
            <4>2. Precedes(rank, prev[d], d)
                BY <2>1, <4>1 DEF Ascends
            <4>3. QED
                BY <2>4, <3>3, <4>1, <4>2 DEF Precedes
        <3>4. QED
            BY <3>1, <3>2, <3>3
    <2>9. ASSUME NEW d \in Changing' PROVE Precedes(new, at[d], after[d])'
        <3>1. d \in Changing /\ d # c /\ d \in Conns
            BY <1>5, <2>9 DEF Changing
        <3>2. at'[d] = at[d] /\ after'[d] = after[d] /\ at[d] # c /\ after[d] # c
            BY <1>1, <1>2, <1>3, <3>1 DEF OrderInv, Unseen, Undamaged, PointersOK
        <3>3. Precedes(rank, at[d], after[d])
            BY <2>1, <3>1 DEF Ascends
        <3>4. QED
            BY <2>4, <3>2, <3>3 DEF Precedes
    <2>10. ASSUME NEW w \in Walks PROVE Climbs(new, w)'
        <3>1. c \notin reached[w] /\ reached[w] \subseteq Conns /\ cursor[w] # c
              /\ (walk[w] = "walking" => cursor[w] \in Conns)
            BY <1>1, <1>3 DEF OrderInv, Unseen, Undamaged, WalksOK, WalkAt, Public
        <3>2. Climbs(rank, w)
            BY <2>1 DEF Ascends
        <3>3. QED
            BY <1>2, <2>3, <3>1, <3>2 DEF Climbs, Between
    <2>11. Ascends(new)'
        BY <2>7, <2>8, <2>9, <2>10 DEF Ascends
    <2>12. 2 * top + 1 \in Int
        OBVIOUS
    <2>13. QED
        BY <2>3, <2>11, <2>12 DEF Ordered
<1>9. QED
    BY <1>7, <1>8 DEF OrderInv

LEMMA UnlinkOrder ==
    ASSUME OrderInv, NEW c \in Conns, Unlink(c), Undamaged' PROVE OrderInv'
<1> DEFINE a == at[c]
           n == after[c]
<1>1. /\ c # Root /\ c # Nil /\ Root # Nil /\ c \in Elements /\ Root \in Elements
      /\ pc[c] = "unlink" /\ c \in Changing
    BY HubAssumption DEF Unlink, Elements, Changing
<1>2. a \in Public \cup {Root} /\ n \in Public \cup {Root} /\ n # Nil
    BY <1>1 DEF OrderInv, Unseen, Undamaged, Whole, WholeAt
<1>3. /\ UNCHANGED <<walk, cursor, reached>>
      /\ at' = [at EXCEPT ![c] = Nil] /\ after' = [after EXCEPT ![c] = Nil]
      /\ next' = [next EXCEPT ![a] = n, ![c] = Nil]
      /\ prev' = [prev EXCEPT ![n] = a, ![c] = Nil]
      /\ listed' = [listed EXCEPT ![c] = FALSE] /\ pc' = [pc EXCEPT ![c] = "left"]
    BY <1>2 DEF Unlink, Forget, walkVars
<1>4. Public' = Public /\ Changing' = Changing \ {c}
    BY <1>1, <1>3 DEF Public, Changing, OrderInv, Undamaged, PointersOK
<1>5. /\ \A e \in Elements : next'[e] = next[e] \/ (e = a /\ next'[e] = n) \/ next'[e] = Nil
      /\ \A e \in Elements : prev'[e] = prev[e] \/ (e = n /\ prev'[e] = a) \/ prev'[e] = Nil
      /\ \A d \in Conns : listed'[d] => listed[d]
    <2>1. a \in Elements /\ n \in Elements
        BY <1>2 DEF Public, Elements
    <2>2. QED
        BY <1>1, <1>3, <2>1 DEF OrderInv, Undamaged, PointersOK
<1> HIDE DEF a, n
<1>6. Unseen'
    BY <1>2, <1>3, <1>4, <1>5 DEF OrderInv, Unseen, Undamaged, PointersOK
<1>7. Ordered'
    <2>1. PICK rank \in Ranks :
            /\ Ascends(rank)
            /\ \E top \in Int : \A d \in Conns : rank[d] <= top
        BY DEF OrderInv, Ordered
    <2>2. Precedes(rank, a, n)
        BY <1>1, <2>1 DEF Ascends, a, n
    <2>3. ASSUME NEW d, NEW e, Precedes(rank, d, e) PROVE Precedes(rank, d, e)'
        BY <1>5, <2>3 DEF Precedes
    <2>4. ASSUME NEW d PROVE Precedes(rank, d, Nil)' /\ Precedes(rank, Nil, d)'
        BY HubAssumption DEF Precedes
    <2>5. ASSUME NEW d \in Conns PROVE Precedes(rank, d, next[d])'
        <3>1. d \in Elements
            BY DEF Elements
        <3>2. Precedes(rank, d, next[d])
            BY <2>1 DEF Ascends
        <3>3. QED
            BY <1>5, <2>2, <2>3, <2>4, <3>1, <3>2 DEF Precedes
    <2>6. ASSUME NEW d \in Conns, listed'[d] PROVE Precedes(rank, prev[d], d)'
        <3>1. d \in Elements /\ listed[d]
            BY <1>5, <2>6 DEF Elements
        <3>2. Precedes(rank, prev[d], d)
            BY <2>1, <3>1 DEF Ascends
        <3>3. QED
            BY <1>5, <2>2, <2>3, <2>4, <3>1, <3>2 DEF Precedes
    <2>7. ASSUME NEW d \in Changing' PROVE Precedes(rank, at[d], after[d])'
        <3>1. d \in Changing /\ d # c /\ d \in Conns
            BY <1>4, <2>7 DEF Changing
        <3>2. at'[d] = at[d] /\ after'[d] = after[d]
            BY <1>3, <3>1 DEF OrderInv, Undamaged, PointersOK
        <3>3. Precedes(rank, at[d], after[d])
            BY <2>1, <3>1 DEF Ascends
        <3>4. QED
            BY <2>3, <3>2, <3>3 DEF Precedes
    <2>8. Ascends(rank)'
        BY <1>3, <2>1, <2>5, <2>6, <2>7 DEF Ascends, Climbs
    <2>9. QED
        BY <2>1, <2>8 DEF Ordered
<1>8. QED
    BY <1>6, <1>7 DEF OrderInv

\* The element a walk goes on to is higher than all it stood on.
LEMMA Higher ==
    ASSUME OrderInv, NEW w \in Walks, walk[w] = "walking", Next(cursor[w]) # Nil,
           NEW rank \in Ranks, Ascends(rank)
    PROVE  /\ Next(cursor[w]) \in Conns
           /\ \A e \in reached[w] : rank[e] < rank[Next(cursor[w])]
<1>1. cursor[w] \in Conns /\ reached[w] \subseteq Conns
    BY DEF OrderInv, Undamaged, WalksOK, WalkAt
<1>2. Next(cursor[w]) \in Conns /\ listed[cursor[w]] /\ Next(cursor[w]) = next[cursor[w]]
    BY <1>1, StandsOnConns DEF OrderInv
<1>3. rank[cursor[w]] < rank[Next(cursor[w])]
    BY <1>1, <1>2 DEF Ascends, Precedes
<1>4. \A e \in reached[w] : rank[e] <= rank[cursor[w]]
    BY DEF Ascends, Climbs
<1>5. QED
    BY <1>1, <1>2, <1>3, <1>4 DEF Ranks

LEMMA WalkOrder ==
    ASSUME OrderInv, NEW w \in Walks, BeginWalk(w) \/ Advance(w), Undamaged'
    PROVE  OrderInv'
<1>1. /\ UNCHANGED <<next, prev, listed, pc, at, after>>
      /\ Public' = Public /\ Changing' = Changing
    BY DEF BeginWalk, Advance, listVars, routeVars, Public, Changing
<1>2. PICK e : /\ Stand(w, e)
               /\ e = IF walk[w] = "idle" THEN Front ELSE Next(cursor[w])
    BY DEF BeginWalk, Advance
<1>3. /\ cursor' = [cursor EXCEPT ![w] = e]
      /\ walk' = [walk EXCEPT ![w] = IF e = Nil THEN "done" ELSE "walking"]
      /\ reached' = [reached EXCEPT ![w] = @ \cup ({e} \ {Nil})]
    BY <1>2 DEF Stand
<1>4. e \in Public \cup {Nil}
    <2>1. CASE walk[w] = "idle"
        BY <1>2, <2>1 DEF Front, OrderInv, Unseen, Elements
    <2>2. CASE walk[w] # "idle"
        <3>1. cursor[w] \in Conns
            BY <2>2 DEF BeginWalk, Advance, OrderInv, Undamaged, WalksOK, WalkAt
        <3>2. QED
            BY <1>2, <2>2, <3>1 DEF Next, OrderInv, Unseen, Elements
    <2>3. QED
        BY <2>1, <2>2
<1>5. Unseen'
    <2>1. ASSUME NEW v \in Walks
          PROVE  reached'[v] \subseteq Public /\ cursor'[v] \in Public \cup {Nil}
        BY <1>3, <1>4 DEF OrderInv, Unseen, Undamaged, WalksOK
    <2>2. QED
        BY <1>1, <2>1 DEF OrderInv, Unseen
<1>6. Ordered'
    <2>1. PICK rank \in Ranks :
            /\ Ascends(rank)
            /\ \E top \in Int : \A d \in Conns : rank[d] <= top
        BY DEF OrderInv, Ordered
    <2>2. ASSUME NEW v \in Walks PROVE Climbs(rank, v)'
        <3>1. CASE v # w
            BY <1>3, <2>1, <3>1 DEF Ascends, Climbs, OrderInv, Undamaged, WalksOK
        <3>2. CASE v = w
            <4>1. SUFFICES ASSUME e # Nil
                           PROVE  \A d \in reached[w] \cup {e} : rank[d] <= rank[e]
                BY <1>3, <3>2 DEF Climbs, OrderInv, Undamaged, WalksOK
            <4>2. e \in Conns
                BY <1>4, <4>1 DEF Public
            <4>3. CASE walk[w] = "idle"
                BY <4>2, <4>3 DEF OrderInv, Undamaged, WalksOK, WalkAt, Ranks
            <4>4. CASE walk[w] # "idle"
                <5>1. walk[w] = "walking" /\ e = Next(cursor[w])
                    BY <1>2, <4>4 DEF BeginWalk, Advance
                <5>2. \A d \in reached[w] : rank[d] < rank[e]
                    BY <2>1, <4>1, <5>1, Higher
                <5>3. reached[w] \subseteq Conns
                    BY DEF OrderInv, Undamaged, WalksOK
                <5>4. QED
                    BY <4>2, <5>2, <5>3 DEF Ranks
            <4>5. QED
                BY <4>3, <4>4
        <3>3. QED
            BY <3>1, <3>2
    <2>3. Ascends(rank)'
        BY <1>1, <2>1, <2>2 DEF Ascends, Precedes
    <2>4. QED
        BY <2>1, <2>3 DEF Ordered
<1>7. QED
    BY <1>5, <1>6 DEF OrderInv

LEMMA NextOrder == ASSUME OrderInv, [HubNext]_hubVars PROVE OrderInv'
<1>1. Undamaged'
    BY NextUndamaged DEF OrderInv
<1>2. ASSUME UNCHANGED <<next, prev, listed, pc, at, after, walk, cursor, reached>>
      PROVE  OrderInv'
    BY <1>1, <1>2 DEF OrderInv, Unseen, Ordered, Ascends, Precedes, Climbs, Public, Changing
<1>3. ASSUME UNCHANGED hubVars \/ \E c \in Conns : Leave(c) PROVE OrderInv'
    BY <1>2, <1>3 DEF hubVars, listVars, routeVars, walkVars, Leave
<1>4. ASSUME HubNext, ~\E c \in Conns : Leave(c) PROVE OrderInv'
    BY <1>1, <1>4, ReadOrder, PushBackOrder, UnlinkOrder, WalkOrder DEF HubNext
<1>5. QED
    BY <1>3, <1>4

LEMMA AlwaysOrdered == HubSpec => []OrderInv
BY InitOrder, NextOrder, PTL DEF HubSpec

\* A step of a walk does not go back to a connection.
SendsOnce ==
    \A w \in Walks : cursor'[w] \notin {cursor[w], Nil} => cursor'[w] \notin reached[w]

LEMMA StepSendsOnce == ASSUME OrderInv, HubNext PROVE SendsOnce
<1>1. ASSUME NEW w \in Walks, BeginWalk(w) \/ Advance(w), NEW v \in Walks,
             cursor'[v] \notin {cursor[v], Nil}
      PROVE  cursor'[v] \notin reached[v]
    <2>1. PICK e : /\ cursor' = [cursor EXCEPT ![w] = e]
                   /\ e = IF walk[w] = "idle" THEN Front ELSE Next(cursor[w])
        BY <1>1 DEF BeginWalk, Advance, Stand
    <2>2. v = w /\ cursor'[v] = e
        BY <1>1, <2>1 DEF OrderInv, Undamaged, WalksOK
    <2>3. CASE walk[w] = "idle"
        BY <2>2, <2>3 DEF OrderInv, Undamaged, WalksOK, WalkAt
    <2>4. CASE walk[w] # "idle"
        <3>1. walk[w] = "walking" /\ e = Next(cursor[w]) /\ e # Nil
            BY <1>1, <2>1, <2>2, <2>4 DEF BeginWalk, Advance
        <3>2. PICK rank \in Ranks : Ascends(rank)
            BY DEF OrderInv, Ordered
        <3>3. e \in Conns /\ \A d \in reached[w] : rank[d] < rank[e]
            BY <3>1, <3>2, Higher
        <3>4. ~(rank[e] < rank[e])
            BY <3>2, <3>3 DEF Ranks
        <3>5. QED
            BY <2>2, <3>3, <3>4
    <2>5. QED
        BY <2>3, <2>4
<1>2. ASSUME NEW c \in Conns,
             Connect(c) \/ PushBack(c) \/ Leave(c) \/ PingFails(c) \/ Unlink(c)
      PROVE  SendsOnce
    BY <1>2 DEF Connect, PushBack, Leave, PingFails, Unlink, walkVars, SendsOnce
<1>3. QED
    BY <1>1, <1>2 DEF HubNext, SendsOnce

\* However damaged the list is, no walk comes to a connection twice: no event is
\* sent twice, and with finitely many connections the walk ends (the handlers of
\* events and the PreHook of api_http.go).
THEOREM NobodyTwice == HubSpec => SentOnce
<1>1. OrderInv /\ [HubNext]_hubVars => [SendsOnce]_hubVars
    BY StepSendsOnce
<1>2. HubSpec => [][SendsOnce]_hubVars
    BY <1>1, AlwaysOrdered, PTL DEF HubSpec
<1>3. QED
    BY <1>2 DEF SendsOnce, SentOnce

-----------------------------------------------------------------------------
(* A walk reaches everybody.  That next and prev undo each other does not  *)
(* exclude a second ring beside the root's; this does.                     *)

Closed(S) == Root \in S /\ \A e \in S : next[e] \in S

OneCycle == \A S \in SUBSET Ring : Closed(S) => S = Ring

\* Where a walk has been, next leads to where it has been, but for where it is.
Trail(w) ==
    /\ expected[w] \subseteq Ring /\ reached[w] \subseteq Ring \ {Root}
    /\ cursor[w] \in reached[w] /\ next[Root] \in reached[w]
    /\ \A e \in reached[w] : e # cursor[w] => next[e] \in reached[w]

WalkInv(w) ==
    /\ walk[w] = "walking" => Trail(w)
    /\ walk[w] = "done" => expected[w] \subseteq reached[w]

ReachInv == ~raced => OneCycle /\ \A w \in Walks : ~cut[w] => WalkInv(w)

\* The elements of the ring are those on the list.
LEMMA RingIsListed ==
    ASSUME Undamaged PROVE Ring = {Root} \cup {c \in Conns : listed[c]}
BY DEF Undamaged, Whole, WholeAt, Ring

LEMMA InitReach == ASSUME HubInit PROVE ReachInv
<1>1. Ring = {Root}
    BY DEF HubInit, Ring
<1>2. QED
    BY <1>1 DEF HubInit, ReachInv, OneCycle, Closed, WalkInv

LEMMA PushBackReach ==
    ASSUME Linked, Linked', Undamaged, OneCycle, NEW c \in Conns, PushBack(c)
    PROVE  /\ OneCycle'
           /\ \A w \in Walks : WalkInv(w) => WalkInv(w)'
<1>0. PICK p : p = prev[Root]
    OBVIOUS
<1>1. /\ pc[c] = "push" /\ at[c] = p /\ after[c] = Root /\ c # Root
      /\ c \notin Ring /\ Root \in Ring /\ p \in Ring /\ next[p] = Root
      /\ Ring \subseteq Elements /\ c \in Elements
    BY <1>0, HubAssumption DEF PushBack, Linked, OneChanges, RingOK, Ring, Elements
<1>2. /\ pc' = [pc EXCEPT ![c] = "open"] /\ UNCHANGED walkVars
      /\ next' = [next EXCEPT ![p] = c, ![c] = Root]
    BY <1>1, HubAssumption DEF PushBack
<1>3. Ring' = Ring \cup {c}
    BY <1>1, <1>2 DEF Ring, Linked, PointersOK
<1>4. /\ next'[c] = Root /\ next'[p] = c
      /\ \A e \in Ring \ {p} : next'[e] = next[e]
    BY <1>1, <1>2 DEF Linked, PointersOK
<1>5. ASSUME NEW S \in SUBSET Ring', Closed(S)' PROVE S = Ring'
    <2>1. S \ {c} \in SUBSET Ring
        BY <1>3
    <2>2. ASSUME NEW e \in S \ {c} PROVE next[e] \in S \ {c}
        <3>1. CASE e = p
            BY <1>1, <1>5, <3>1 DEF Closed
        <3>2. CASE e # p
            <4>1. e \in Ring /\ next[e] \in Ring /\ next'[e] = next[e]
                BY <1>3, <1>4, <3>2 DEF Linked, RingOK
            <4>2. QED
                BY <1>1, <1>5, <4>1 DEF Closed
        <3>3. QED
            BY <3>1, <3>2
    <2>3. Closed(S \ {c})
        BY <1>1, <1>5, <2>2 DEF Closed
    <2>4. S \ {c} = Ring
        BY <2>1, <2>3 DEF OneCycle
    <2>5. c \in S
        BY <1>1, <1>4, <1>5, <2>4 DEF Closed
    <2>6. QED
        BY <1>3, <2>4, <2>5
<1>6. OneCycle'
    BY <1>5 DEF OneCycle
<1>7. ASSUME NEW w \in Walks, WalkInv(w) PROVE WalkInv(w)'
    <2>1. UNCHANGED <<walk, cursor, expected, reached>>
        BY <1>2 DEF walkVars
    <2>2. CASE walk[w] = "walking"
        <3>1. /\ expected[w] \subseteq Ring /\ reached[w] \subseteq Ring \ {Root}
              /\ cursor[w] \in reached[w] /\ next[Root] \in reached[w]
              /\ \A e \in reached[w] : e # cursor[w] => next[e] \in reached[w]
            BY <1>7, <2>2 DEF WalkInv, Trail
        <3>2. p # Root
            BY <1>1, <3>1
        <3>3. next'[Root] = next[Root]
            BY <1>1, <1>4, <3>2
        <3>4. ASSUME NEW e \in reached[w], e # cursor[w] PROVE next'[e] \in reached[w]
            <4>1. next[e] \in reached[w] /\ e # p
                BY <1>1, <3>1, <3>4
            <4>2. QED
                BY <1>4, <3>1, <4>1
        <3>5. Trail(w)'
            BY <1>3, <2>1, <3>1, <3>3, <3>4 DEF Trail
        <3>6. QED
            BY <2>1, <2>2, <3>5 DEF WalkInv
    <2>3. CASE walk[w] # "walking"
        BY <1>7, <2>1, <2>3 DEF WalkInv
    <2>4. QED
        BY <2>2, <2>3
<1>8. QED
    BY <1>6, <1>7

LEMMA UnlinkReach ==
    ASSUME Linked, Linked', Undamaged, OneCycle, NEW c \in Conns, Unlink(c)
    PROVE  /\ OneCycle'
           /\ \A w \in Walks : WalkInv(w) /\ ~cut'[w] => WalkInv(w)'
<1>0. PICK p, n : p = prev[c] /\ n = next[c]
    OBVIOUS
<1>1. /\ pc[c] = "unlink" /\ at[c] = p /\ after[c] = n /\ c # Root
      /\ c \in Ring /\ p \in Ring /\ n \in Ring /\ Root \in Ring /\ n # Nil
      /\ prev[n] = c /\ next[p] = c /\ next[c] = n /\ Ring \subseteq Elements
    BY <1>0, HubAssumption DEF Unlink, Linked, OneChanges, RingOK, Ring, Elements
<1>2. /\ pc' = [pc EXCEPT ![c] = "left"] /\ UNCHANGED walkVars
      /\ next' = [next EXCEPT ![p] = n, ![c] = Nil]
      /\ cut' = [w \in Walks |-> cut[w] \/ walk[w] = "walking"]
    BY <1>1 DEF Unlink
<1>3. Ring' = Ring \ {c}
    BY <1>1, <1>2 DEF Ring, Linked, PointersOK
<1>4. /\ \A e \in Ring \ {p, c} : next'[e] = next[e]
      /\ p # c => next'[p] = n
    BY <1>1, <1>2 DEF Linked, PointersOK
<1>5. ASSUME NEW S \in SUBSET Ring', Closed(S)' PROVE S = Ring'
    <2>1. p \in S
        <3>1. SUFFICES ASSUME p \notin S PROVE FALSE
            OBVIOUS
        <3>2. Closed(S)
            BY <1>3, <1>4, <1>5, <3>1 DEF Closed
        <3>3. S = Ring
            BY <1>3, <3>2 DEF OneCycle
        <3>4. QED
            BY <1>1, <3>1, <3>3
    <2>2. p # c /\ n \in S
        BY <1>3, <1>4, <1>5, <2>1 DEF Closed
    <2>3. ASSUME NEW e \in S \cup {c} PROVE next[e] \in S \cup {c}
        <3>1. CASE e = p
            BY <1>1, <3>1
        <3>2. CASE e = c
            BY <1>1, <2>2, <3>2
        <3>3. CASE e # p /\ e # c
            BY <1>3, <1>4, <1>5, <3>3 DEF Closed
        <3>4. QED
            BY <3>1, <3>2, <3>3
    <2>4. Closed(S \cup {c}) /\ S \cup {c} \in SUBSET Ring
        BY <1>1, <1>3, <1>5, <2>3 DEF Closed
    <2>5. S \cup {c} = Ring
        BY <2>4 DEF OneCycle
    <2>6. QED
        BY <1>3, <2>5
<1>6. OneCycle'
    BY <1>5 DEF OneCycle
<1>7. ASSUME NEW w \in Walks, WalkInv(w), ~cut'[w] PROVE WalkInv(w)'
    <2>1. walk[w] # "walking" /\ UNCHANGED <<walk, expected, reached>>
        BY <1>2, <1>7 DEF walkVars
    <2>2. QED
        BY <1>7, <2>1 DEF WalkInv
<1>8. QED
    BY <1>6, <1>7

\* A walk that stood on its last element has been round the ring.
LEMMA WalkReach ==
    ASSUME Linked, Undamaged, OneCycle, NEW w \in Walks, BeginWalk(w) \/ Advance(w),
           WalkInv(w)
    PROVE  WalkInv(w)'
<1>1. UNCHANGED <<next, pc>> /\ Ring' = Ring
    BY DEF BeginWalk, Advance, listVars, routeVars, Ring
<1>2. PICK e : /\ cursor' = [cursor EXCEPT ![w] = e]
               /\ walk' = [walk EXCEPT ![w] = IF e = Nil THEN "done" ELSE "walking"]
               /\ reached' = [reached EXCEPT ![w] = @ \cup ({e} \ {Nil})]
               /\ e = IF walk[w] = "idle" THEN Front ELSE Next(cursor[w])
    BY DEF BeginWalk, Advance, Stand
<1>3. /\ walk'[w] = IF e = Nil THEN "done" ELSE "walking"
      /\ reached'[w] = reached[w] \cup ({e} \ {Nil}) /\ cursor'[w] = e
    BY <1>2 DEF Undamaged, WalksOK
<1>4. Root \in Ring /\ Nil \notin Ring /\ \A d \in Ring : next[d] \in Ring
    BY HubAssumption DEF Ring, Linked, RingOK
<1>5. CASE BeginWalk(w)
    <2>1. /\ reached[w] = {} /\ e = Front
          /\ expected'[w] = {c \in Conns : listed[c]}
        BY <1>2, <1>5 DEF BeginWalk, Undamaged, WalksOK, WalkAt
    <2>2. Ring = {Root} \cup expected'[w] /\ Root \notin expected'[w]
        BY <2>1, RingIsListed, HubAssumption
    <2>3. CASE next[Root] = Root
        <3>1. e = Nil
            BY <2>1, <2>3 DEF Front
        <3>2. Closed({Root}) /\ {Root} \in SUBSET Ring
            BY <1>4, <2>3 DEF Closed
        <3>3. expected'[w] = {}
            BY <2>2, <3>2 DEF OneCycle
        <3>4. QED
            BY <1>3, <3>1, <3>3 DEF WalkInv
    <2>4. CASE next[Root] # Root
        <3>1. e = next[Root] /\ e \in Ring \ {Root} /\ e # Nil
            BY <1>4, <2>1, <2>4 DEF Front
        <3>2. reached'[w] = {e}
            BY <1>3, <2>1, <3>1
        <3>3. Trail(w)'
            BY <1>1, <1>3, <2>2, <3>1, <3>2 DEF Trail
        <3>4. QED
            BY <1>3, <3>1, <3>3 DEF WalkInv
    <2>5. QED
        BY <2>3, <2>4
<1>6. CASE Advance(w)
    <2>1. walk[w] = "walking" /\ e = Next(cursor[w]) /\ expected' = expected
        BY <1>2, <1>6 DEF Advance
    <2>2. /\ expected[w] \subseteq Ring /\ reached[w] \subseteq Ring \ {Root}
          /\ cursor[w] \in reached[w] /\ next[Root] \in reached[w]
          /\ \A d \in reached[w] : d # cursor[w] => next[d] \in reached[w]
        BY <2>1 DEF WalkInv, Trail
    <2>3. listed[cursor[w]]
        BY <2>2, RingIsListed
    <2>4. CASE next[cursor[w]] = Root
        <3>1. e = Nil
            BY <2>1, <2>4 DEF Next
        <3>2. Closed(reached[w] \cup {Root}) /\ reached[w] \cup {Root} \in SUBSET Ring
            BY <1>4, <2>2, <2>4 DEF Closed
        <3>3. reached[w] \cup {Root} = Ring
            BY <3>2 DEF OneCycle
        <3>4. Root \notin expected[w]
            BY HubAssumption DEF Undamaged, WalksOK
        <3>5. QED
            BY <1>3, <2>1, <2>2, <3>1, <3>3, <3>4 DEF WalkInv
    <2>5. CASE next[cursor[w]] # Root
        <3>1. e = next[cursor[w]] /\ e \in Ring \ {Root} /\ e # Nil
            BY <1>4, <2>1, <2>2, <2>3, <2>5 DEF Next
        <3>2. reached'[w] = reached[w] \cup {e}
            BY <1>3, <3>1
        <3>3. \A d \in reached'[w] : d # e => next[d] \in reached'[w]
            BY <2>2, <3>1, <3>2
        <3>4. Trail(w)'
            BY <1>1, <1>3, <2>1, <2>2, <3>1, <3>2, <3>3 DEF Trail
        <3>5. QED
            BY <1>3, <3>1, <3>4 DEF WalkInv
    <2>6. QED
        BY <2>4, <2>5
<1>7. QED
    BY <1>5, <1>6

LEMMA NextReach ==
    ASSUME RingInv, RingInv', Undamaged, ReachInv, [HubNext]_hubVars PROVE ReachInv'
<1>1. SUFFICES ASSUME ~raced'
               PROVE  OneCycle' /\ \A w \in Walks : ~cut'[w] => WalkInv(w)'
    BY DEF ReachInv
<1>2. ~raced
    BY <1>1 DEF HubNext, Connect, PushBack, Leave, PingFails, Unlink, ReadNeighbours,
                BeginWalk, Advance, hubVars
<1>3. Linked /\ Linked' /\ OneCycle /\ \A w \in Walks : ~cut[w] => WalkInv(w)
    BY <1>1, <1>2 DEF RingInv, ReachInv
<1>4. ASSUME UNCHANGED <<next, walkVars, cut>>, Ring' = Ring
      PROVE  OneCycle' /\ \A w \in Walks : ~cut'[w] => WalkInv(w)'
    BY <1>3, <1>4 DEF OneCycle, Closed, WalkInv, Trail, walkVars
<1>5. ASSUME NEW c \in Conns, Connect(c) \/ Leave(c) \/ PingFails(c)
      PROVE  OneCycle' /\ \A w \in Walks : ~cut'[w] => WalkInv(w)'
    <2>1. UNCHANGED <<next, walkVars, cut>>
        BY <1>5 DEF Connect, Leave, PingFails, listVars
    <2>2. Ring' = Ring
        BY <1>5 DEF Connect, Leave, PingFails, Ring, Undamaged, PointersOK
    <2>3. QED
        BY <1>4, <2>1, <2>2
<1>6. ASSUME NEW c \in Conns, PushBack(c)
      PROVE  OneCycle' /\ \A w \in Walks : ~cut'[w] => WalkInv(w)'
    <2>1. UNCHANGED cut
        BY <1>6 DEF PushBack
    <2>2. QED
        BY <1>3, <1>6, <2>1, PushBackReach
<1>7. ASSUME NEW c \in Conns, Unlink(c)
      PROVE  OneCycle' /\ \A w \in Walks : ~cut'[w] => WalkInv(w)'
    <2>1. \A w \in Walks : cut[w] => cut'[w]
        BY <1>7 DEF Unlink
    <2>2. QED
        BY <1>3, <1>7, <2>1, UnlinkReach
<1>8. ASSUME NEW w \in Walks, BeginWalk(w) \/ Advance(w)
      PROVE  OneCycle' /\ \A v \in Walks : ~cut'[v] => WalkInv(v)'
    <2>1. UNCHANGED <<next, pc, cut>> /\ Ring' = Ring
        BY <1>8 DEF BeginWalk, Advance, listVars, routeVars, Ring
    <2>2. OneCycle'
        BY <1>3, <2>1 DEF OneCycle, Closed
    <2>3. ASSUME NEW v \in Walks, v # w
          PROVE  UNCHANGED <<walk[v], cursor[v], reached[v], expected[v]>>
        BY <1>8, <2>3 DEF BeginWalk, Advance, Stand, Undamaged, WalksOK
    <2>4. ASSUME NEW v \in Walks, ~cut'[v] PROVE WalkInv(v)'
        <3>1. WalkInv(v)
            BY <1>3, <2>1, <2>4
        <3>2. CASE v = w
            BY <1>3, <1>8, <3>1, <3>2, WalkReach
        <3>3. CASE v # w
            BY <2>1, <2>3, <3>1, <3>3 DEF WalkInv, Trail
        <3>4. QED
            BY <3>2, <3>3
    <2>5. QED
        BY <2>2, <2>4
<1>9. CASE UNCHANGED hubVars
    BY <1>4, <1>9 DEF hubVars, listVars, routeVars, walkVars, Ring
<1>10. QED
    BY <1>5, <1>6, <1>7, <1>8, <1>9 DEF HubNext

\* A broadcast and the shutdown reach every connection that was there when they
\* began, whoever joins meanwhile, unless one leaves meanwhile or routes change
\* the list at the same time (the handlers of events, the PreHook).
THEOREM WalkReachesAll == HubSpec => []EverybodyReached
<1>1. RingInv /\ Undamaged /\ ReachInv /\ [HubNext]_hubVars => (RingInv /\ ReachInv)'
    BY NextRing, NextReach
<1>2. HubInit => RingInv /\ ReachInv
    BY InitRing, InitReach
<1>3. HubSpec => []ReachInv
    BY <1>1, <1>2, AlwaysUndamaged, PTL DEF HubSpec
<1>4. ReachInv => EverybodyReached
    BY DEF ReachInv, WalkInv, EverybodyReached
<1>5. QED
    BY <1>3, <1>4, PTL

=============================================================================
