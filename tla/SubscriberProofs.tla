--------------------------- MODULE SubscriberProofs ---------------------------
(***************************************************************************)
(* Proofs about the dispatcher of notifications, for any number of         *)
(* channels, handlers and notifications, and whatever the goroutines of    *)
(* the handlers remove from the lists while they are walked.               *)
(***************************************************************************)
EXTENDS Subscriber, SequenceTheorems, TLAPS

-----------------------------------------------------------------------------
(* container/list.                                                         *)

NoRepeats(list) == \A i, j \in 1 .. Len(list) : list[i] = list[j] => i = j

\* What is left of a list when position k leaves it.
Shortened(list, k, new) ==
    /\ Len(new) = Len(list) - 1
    /\ \A i \in 1 .. Len(new) : new[i] = IF i < k THEN list[i] ELSE list[i + 1]

LEMMA WithoutShortens ==
    ASSUME NEW S, NEW list \in Seq(S), NEW e \in Elements(list)
    PROVE  /\ Without(list, e) \in Seq(S)
           /\ \E k \in 1 .. Len(list) : list[k] = e /\ Shortened(list, k, Without(list, e))
<1> DEFINE k == CHOOSE i \in 1 .. Len(list) : list[i] = e
           before == SubSeq(list, 1, k - 1)
           after == SubSeq(list, k + 1, Len(list))
<1>1. k \in 1 .. Len(list) /\ list[k] = e
    BY DEF Elements
<1>2. Without(list, e) = before \o after
    BY DEF Without
<1> HIDE DEF k
<1>3. /\ before \in Seq(S) /\ Len(before) = k - 1
      /\ \A i \in 1 .. k - 1 : before[i] = list[i]
    BY <1>1
<1>4. /\ after \in Seq(S) /\ Len(after) = Len(list) - k
      /\ \A i \in 1 .. Len(list) - k : after[i] = list[k + i]
    BY <1>1
<1> HIDE DEF before, after
<1>5. before \o after \in Seq(S) /\ Len(before \o after) = Len(list) - 1
    <2>1. Len(list) \in Nat /\ k \in Int /\ (k - 1) + (Len(list) - k) = Len(list) - 1
        BY <1>1
    <2>2. before \o after \in Seq(S)
        BY <1>3, <1>4
    <2>3. Len(before \o after) = Len(before) + Len(after)
        BY <1>3, <1>4, ConcatProperties
    <2> QED
        BY <1>3, <1>4, <2>1, <2>2, <2>3
<1>6. ASSUME NEW i \in 1 .. Len(list) - 1
      PROVE  (before \o after)[i] = IF i < k THEN list[i] ELSE list[i + 1]
    <2>1. CASE i < k
        BY <1>1, <1>3, <1>4, <2>1
    <2>2. CASE i >= k
        <3>1. (before \o after)[i] = after[i - (k - 1)]
            BY <1>1, <1>3, <1>4, <2>2
        <3>2. i - (k - 1) \in 1 .. Len(list) - k /\ k + (i - (k - 1)) = i + 1
            BY <1>1, <2>2
        <3> QED
            BY <1>1, <1>4, <2>2, <3>1, <3>2
    <2>3. i \in Int /\ k \in Int /\ (i < k \/ i >= k)
        BY <1>1
    <2> QED
        BY <2>1, <2>2, <2>3
<1> QED
    BY <1>1, <1>2, <1>5, <1>6 DEF Shortened

\* What is on list new stands in the same order on list, and repeats nobody that
\* is not repeated there.
OrderKept(list, new) ==
    \A a, b \in 1 .. Len(new) :
        \E c, d \in 1 .. Len(list) :
            list[c] = new[a] /\ list[d] = new[b] /\ (c < d <=> a < b) /\ (c = d <=> a = b)

LEMMA ShortenedOrder ==
    ASSUME NEW S, NEW list \in Seq(S), NEW new \in Seq(S), NEW k \in 1 .. Len(list),
           Shortened(list, k, new)
    PROVE  OrderKept(list, new)
<1> DEFINE m(a) == IF a < k THEN a ELSE a + 1
<1>1. Len(list) \in Nat /\ Len(new) = Len(list) - 1
    BY DEF Shortened
<1>2. \A a \in 1 .. Len(new) : m(a) \in 1 .. Len(list) /\ list[m(a)] = new[a]
    BY <1>1 DEF Shortened
<1>3. \A a, b \in 1 .. Len(new) : (m(a) < m(b) <=> a < b) /\ (m(a) = m(b) <=> a = b)
    BY <1>1
<1> HIDE DEF m
<1> QED
    BY <1>2, <1>3 DEF OrderKept

LEMMA WithoutOrder ==
    ASSUME NEW S, NEW list \in Seq(S), NEW e
    PROVE  Without(list, e) \in Seq(S) /\ OrderKept(list, Without(list, e))
<1>1. CASE e \in Elements(list)
    BY <1>1, WithoutShortens, ShortenedOrder
<1>2. CASE e \notin Elements(list)
    <2>1. Without(list, e) = list
        BY <1>2 DEF Without
    <2> QED
        BY <2>1 DEF OrderKept
<1> QED
    BY <1>1, <1>2

LEMMA NobodyRepeated ==
    ASSUME NEW list, NEW new, OrderKept(list, new), NoRepeats(list)
    PROVE  NoRepeats(new)
<1> SUFFICES ASSUME NEW a \in 1 .. Len(new), NEW b \in 1 .. Len(new), new[a] = new[b]
             PROVE  a = b
    BY DEF NoRepeats
<1>1. PICK c \in 1 .. Len(list), d \in 1 .. Len(list) :
            list[c] = new[a] /\ list[d] = new[b] /\ (c = d <=> a = b)
    BY DEF OrderKept
<1> QED
    BY <1>1 DEF NoRepeats

LEMMA NextElementFollows ==
    ASSUME NEW S, NEW list \in Seq(S), NoRepeats(list), NEW e, Nil \notin S
    PROVE  LET x == NextElement(list, e) IN
           /\ x \in S \cup {Nil}
           /\ x # Nil => \E i \in 1 .. Len(list) - 1 : list[i] = e /\ list[i + 1] = x
           /\ x = Nil => \A i \in 1 .. Len(list) : list[i] = e => i = Len(list)
<1>1. CASE \E i \in 1 .. Len(list) - 1 : list[i] = e
    <2> DEFINE i == CHOOSE i \in 1 .. Len(list) - 1 : list[i] = e
    <2>1. i \in 1 .. Len(list) - 1 /\ list[i] = e
        BY <1>1
    <2>2. NextElement(list, e) = list[1 + i]
        BY <1>1 DEF NextElement
    <2> HIDE DEF i
    <2>3. i + 1 \in 1 .. Len(list) /\ 1 + i = i + 1
        BY <2>1
    <2>4. list[i + 1] \in S
        BY <2>3
    <2> QED
        BY <2>1, <2>2, <2>3, <2>4
<1>2. CASE ~\E i \in 1 .. Len(list) - 1 : list[i] = e
    <2>1. NextElement(list, e) = Nil
        BY <1>2 DEF NextElement
    <2> QED
        BY <1>2, <2>1
<1> QED
    BY <1>1, <1>2

-----------------------------------------------------------------------------
(* The invariant.                                                          *)

Walking == pc \in {"spawn", "advance"}

\* Who a walk has been to, and the list it is on.
Walk == cursor[current]
List == handlers[sent[current]]

ListsOK == \A c \in DOMAIN handlers : NoRepeats(handlers[c])

\* Each event is in the queue at most once, and has not been walked for yet.
QueueOK ==
    /\ \A m \in 1 .. Len(sent) : sent[m] \in DOMAIN handlers
    /\ \A n \in Events : cursor[n] # <<>> => n \in 1 .. Len(sent)
    /\ \A i \in 1 .. Len(notify) :
           notify[i] # Nil => notify[i] \in 1 .. Len(sent) /\ cursor[notify[i]] = <<>>
    /\ \A i, j \in 1 .. Len(notify) : notify[i] # Nil /\ notify[i] = notify[j] => i = j

CursorOK ==
    /\ ~init => pc = "off"
    /\ ~Walking => current = Nil
    /\ Walking => current \in Events /\ Walk \in Seq(Handlers) /\ Walk # <<>>

\* Those before the cursor, as far as they are on the list still, are before it.
OrderOK ==
    Walking => \A i \in 1 .. Len(Walk) - 1 : \A a, b \in 1 .. Len(List) :
                   List[a] = Walk[i] /\ List[b] = Last(Walk) => a < b

\* A goroutine was started for a handler that the walk has been to.
CallsOK ==
    \A n \in Events, h \in Handlers :
        /\ calls[n][h] # "none" =>
               \E i \in 1 .. Len(cursor[n]) :
                   /\ cursor[n][i] = h
                   /\ pc = "spawn" /\ n = current => i # Len(cursor[n])
        /\ calls[n][h] = "answered" => h \in Stoppers

\* No handler has left the list of channel c.
NobodyLeft(c) ==
    \A m \in DOMAIN sent, h \in Stoppers : sent[m] = c => calls[m][h] # "ended"

\* Then a walk has been to the first so many of its list, and has called them.
ReachedOK ==
    Walking /\ NobodyLeft(sent[current]) =>
        \A i \in 1 .. Len(Walk) :
            /\ i \in 1 .. Len(List) /\ List[i] = Walk[i]
            /\ calls[current][Walk[i]] # "none" \/ (pc = "spawn" /\ i = Len(Walk))

SubInv ==
    /\ SubTypeOK /\ ListsOK /\ QueueOK /\ CursorOK
    /\ HandledOnce /\ OrderOK /\ CallsOK /\ ReachedOK

LEMMA SubInvInit == SubInit => SubInv
<1> SUFFICES ASSUME SubInit PROVE SubInv
    OBVIOUS
<1>1. DOMAIN handlers = {} /\ Len(sent) = 0 /\ Len(notify) = 0
    BY DEF SubInit
<1>2. SubTypeOK
    <2>1. /\ <<>> \in Seq(Events \cup {Nil}) /\ <<>> \in Seq(Channels) /\ Len(sent) <= MaxEvents
          /\ <<>> \in Seq(Handlers \cup {Nil}) /\ 0 \in 0 .. MaxReconnects
        BY <1>1, SubscriberConstants
    <2>2. /\ cursor \in [Events -> Seq(Handlers \cup {Nil})]
          /\ calls \in [Events -> [Handlers -> CallStates]]
        BY <2>1 DEF SubInit, CallStates
    <2> QED
        BY <1>1, <2>1, <2>2 DEF SubInit, SubTypeOK
<1>3. ListsOK /\ QueueOK /\ CursorOK /\ HandledOnce
    BY <1>1 DEF SubInit, ListsOK, QueueOK, CursorOK, HandledOnce, Walking
<1>4. OrderOK /\ CallsOK /\ ReachedOK
    BY DEF SubInit, OrderOK, CallsOK, ReachedOK, Walking
<1> QED
    BY <1>2, <1>3, <1>4 DEF SubInv

-----------------------------------------------------------------------------
(* Steps that have nothing to do with the walk.                            *)

Aside ==
    /\ UNCHANGED <<handlers, listening, notify, sent, reconnects, current, cursor, calls>>
    /\ Walking' <=> Walking
    /\ pc' = "spawn" <=> pc = "spawn"
    /\ ~init' => pc' = "off"

LEMMA AsideKeeps ==
    ASSUME SubInv, Aside, SubTypeOK'
    PROVE  SubInv'
<1>1. ListsOK' /\ QueueOK' /\ CursorOK' /\ HandledOnce'
    BY DEF SubInv, Aside, ListsOK, QueueOK, CursorOK, HandledOnce, Walk
<1>2. OrderOK' /\ CallsOK'
    <2>1. OrderOK'
        BY DEF SubInv, Aside, OrderOK, Walk, List
    <2>2. CallsOK'
        BY DEF SubInv, Aside, CallsOK
    <2> QED
        BY <2>1, <2>2
<1>3. ReachedOK'
    BY DEF SubInv, Aside, ReachedOK, NobodyLeft, Walk, List
<1> QED
    BY <1>1, <1>2, <1>3 DEF SubInv

LEMMA AsideSteps ==
    ASSUME SubInv, \/ Register \/ Stop \/ Exit \/ Close \/ ReceiveNil
                   \/ UNCHANGED subVars
    PROVE  SubInv'
<1>1. CASE Register
    <2>1. ~Walking
        BY <1>1 DEF SubInv, CursorOK, Register, Walking
    <2>2. SubTypeOK' /\ Aside
        BY <1>1, <2>1 DEF SubInv, SubTypeOK, Register, Aside, Walking
    <2> QED
        BY <2>2, AsideKeeps
<1>2. CASE Stop \/ Exit \/ Close \/ ReceiveNil
    <2>1. SubTypeOK' /\ Aside
        BY <1>2 DEF SubInv, SubTypeOK, CursorOK, Stop, Exit, Close, ReceiveNil, Aside, Walking
    <2> QED
        BY <2>1, AsideKeeps
<1>3. CASE UNCHANGED subVars
    <2>1. SubTypeOK' /\ Aside
        BY <1>3 DEF SubInv, SubTypeOK, CursorOK, subVars, Aside, Walking
    <2> QED
        BY <2>1, AsideKeeps
<1> QED
    BY <1>1, <1>2, <1>3

-----------------------------------------------------------------------------
(* A handler is added before the dispatcher runs.                          *)

LEMMA ListenMessageKeeps ==
    ASSUME SubInv, NEW c \in Channels, NEW h \in Handlers, ListenMessage(c, h)
    PROVE  SubInv'
<1>1. /\ DOMAIN handlers' = DOMAIN handlers \cup {c} /\ ~init
      /\ \A d \in DOMAIN handlers : h \notin Elements(handlers[d])
      /\ handlers'[c] = IF c \in DOMAIN handlers THEN Append(handlers[c], h) ELSE <<h>>
      /\ \A d \in DOMAIN handlers \ {c} : handlers'[d] = handlers[d]
      /\ listening' = listening \cup {c}
      /\ UNCHANGED <<init, notify, sent, reconnects, pc, current, cursor, calls, stopping,
                     crashed>>
    BY DEF ListenMessage
<1>2. \A d \in DOMAIN handlers : handlers[d] \in Seq(Handlers)
    BY DEF SubInv, SubTypeOK
<1>3. \A d \in DOMAIN handlers' : handlers'[d] \in Seq(Handlers)
    <2>1. \A l \in Seq(Handlers) : Append(l, h) \in Seq(Handlers)
        OBVIOUS
    <2>2. <<h>> \in Seq(Handlers)
        OBVIOUS
    <2> QED
        BY <1>1, <1>2, <2>1, <2>2
<1>4. SubTypeOK'
    BY <1>1, <1>3 DEF SubInv, SubTypeOK
<1>5. NoRepeats(handlers'[c])
    <2>1. CASE c \in DOMAIN handlers
        <3> DEFINE l == handlers[c]
        <3>1. l \in Seq(Handlers) /\ NoRepeats(l) /\ \A i \in 1 .. Len(l) : l[i] # h
            BY <1>1, <1>2, <2>1 DEF SubInv, ListsOK, Elements
        <3>2. handlers'[c] = Append(l, h)
            BY <1>1, <2>1
        <3> HIDE DEF l
        <3>3. /\ Len(Append(l, h)) = Len(l) + 1 /\ Append(l, h)[Len(l) + 1] = h
              /\ \A i \in 1 .. Len(l) : Append(l, h)[i] = l[i]
            BY <3>1
        <3> QED
            BY <3>1, <3>2, <3>3 DEF NoRepeats
    <2>2. CASE c \notin DOMAIN handlers
        <3>1. handlers'[c] = <<h>>
            BY <1>1, <2>2
        <3> QED
            BY <3>1 DEF NoRepeats
    <2> QED
        BY <2>1, <2>2
<1>6. ListsOK'
    BY <1>1, <1>5 DEF SubInv, ListsOK
<1>7. ~Walking' /\ ~Walking
    BY <1>1 DEF SubInv, CursorOK, Walking
<1>8. QueueOK' /\ CursorOK' /\ HandledOnce'
    BY <1>1, <1>7 DEF SubInv, QueueOK, CursorOK, HandledOnce
<1>9. OrderOK' /\ CallsOK' /\ ReachedOK'
    BY <1>1, <1>7 DEF SubInv, OrderOK, CallsOK, ReachedOK
<1> QED
    BY <1>4, <1>6, <1>8, <1>9 DEF SubInv

-----------------------------------------------------------------------------
(* Notifications arrive.                                                   *)

LEMMA NotifyKeeps ==
    ASSUME SubInv, NEW c \in Channels, Notify(c)
    PROVE  SubInv'
<1> DEFINE n == Len(sent) + 1
<1>1. /\ c \in listening /\ Len(sent) < MaxEvents
      /\ sent' = Append(sent, c) /\ notify' = Append(notify, n)
      /\ UNCHANGED <<handlers, init, listening, reconnects, pc, current, cursor, calls,
                     stopping, crashed>>
    BY DEF Notify
<1>2. sent \in Seq(Channels) /\ notify \in Seq(Events \cup {Nil}) /\ listening \subseteq DOMAIN handlers
    BY DEF SubInv, SubTypeOK
<1>3. n \in Events /\ n # Nil /\ Len(sent) \in Nat
    BY <1>1, <1>2, SubscriberConstants DEF Events
<1>4. /\ Len(sent') = n /\ sent'[n] = c /\ DOMAIN sent = 1 .. Len(sent) /\ DOMAIN sent' = 1 .. n
      /\ \A m \in 1 .. Len(sent) : sent'[m] = sent[m]
    BY <1>1, <1>2
<1> HIDE DEF n
<1>5. /\ Len(notify') = Len(notify) + 1 /\ notify'[Len(notify) + 1] = n /\ Len(notify) \in Nat
      /\ \A i \in 1 .. Len(notify) : notify'[i] = notify[i]
    BY <1>1, <1>2
<1>6. \A m \in 1 .. Len(sent) : m \in 1 .. n /\ m # n
    BY <1>3 DEF n
<1>7. SubTypeOK'
    <2>1. sent' \in Seq(Channels) /\ notify' \in Seq(Events \cup {Nil})
        BY <1>1, <1>2, <1>3
    <2>2. Len(sent') <= MaxEvents
        BY <1>1, <1>3, <1>4, SubscriberConstants DEF n
    <2> QED
        BY <1>1, <2>1, <2>2 DEF SubInv, SubTypeOK
<1>8. ListsOK' /\ CursorOK' /\ HandledOnce'
    BY <1>1 DEF SubInv, ListsOK, CursorOK, HandledOnce, Walking, Walk
<1>9. cursor[n] = <<>>
    BY <1>3, <1>6 DEF SubInv, QueueOK
<1>10. QueueOK'
    <2>1. \A m \in 1 .. Len(sent') : sent'[m] \in DOMAIN handlers'
        <3>1. \A m \in 1 .. n : m = n \/ m \in 1 .. Len(sent)
            BY <1>3 DEF n
        <3> QED
            BY <1>1, <1>2, <1>4, <3>1 DEF SubInv, QueueOK
    <2>2. \A m \in Events : cursor'[m] # <<>> => m \in 1 .. Len(sent')
        BY <1>1, <1>4, <1>6 DEF SubInv, QueueOK
    <2>3. \A i \in 1 .. Len(notify') : i \in 1 .. Len(notify) \/ i = Len(notify) + 1
        BY <1>5
    <2>4. \A i \in 1 .. Len(notify') :
              notify'[i] # Nil => notify'[i] \in 1 .. Len(sent') /\ cursor'[notify'[i]] = <<>>
        <3>1. n \in 1 .. n
            BY <1>3 DEF n
        <3> QED
            BY <1>1, <1>4, <1>5, <1>6, <1>9, <2>3, <3>1 DEF SubInv, QueueOK
    <2>5. \A i, j \in 1 .. Len(notify') : notify'[i] # Nil /\ notify'[i] = notify'[j] => i = j
        BY <1>5, <1>6, <2>3 DEF SubInv, QueueOK
    <2> QED
        BY <2>1, <2>2, <2>4, <2>5 DEF QueueOK
<1>11. Walking => current \in Events /\ Walk # <<>> /\ current \in 1 .. Len(sent)
    BY DEF SubInv, CursorOK, QueueOK, Walk
<1>12. Walking => List' = List
    BY <1>1, <1>4, <1>11 DEF List
<1>13. Walk' = Walk /\ (Walking' <=> Walking)
    BY <1>1 DEF Walk, Walking
<1>14. OrderOK' /\ CallsOK'
    BY <1>1, <1>12, <1>13 DEF SubInv, OrderOK, CallsOK
<1>15. ASSUME Walking, NobodyLeft(sent[current])' PROVE NobodyLeft(sent[current])
    BY <1>1, <1>4, <1>6, <1>11, <1>15 DEF NobodyLeft
<1>16. ReachedOK'
    BY <1>1, <1>12, <1>13, <1>15 DEF SubInv, ReachedOK
<1> QED
    BY <1>7, <1>8, <1>10, <1>14, <1>16 DEF SubInv

LEMMA ReconnectKeeps ==
    ASSUME SubInv, Reconnect
    PROVE  SubInv'
<1>1. /\ notify' = Append(notify, Nil)
      /\ UNCHANGED <<handlers, init, listening, sent, pc, current, cursor, calls, stopping,
                     crashed>>
    BY DEF Reconnect
<1>2. notify \in Seq(Events \cup {Nil})
    BY DEF SubInv, SubTypeOK
<1>3. /\ Len(notify') = Len(notify) + 1 /\ notify'[Len(notify) + 1] = Nil /\ Len(notify) \in Nat
      /\ \A i \in 1 .. Len(notify) : notify'[i] = notify[i]
    BY <1>1, <1>2
<1>4. reconnects' \in 0 .. MaxReconnects
    BY SubscriberConstants DEF Reconnect, SubInv, SubTypeOK
<1>5. notify' \in Seq(Events \cup {Nil})
    BY <1>1, <1>2
<1>6. SubTypeOK'
    BY <1>1, <1>4, <1>5 DEF SubInv, SubTypeOK
<1>7. /\ ListsOK' /\ CursorOK' /\ HandledOnce'
      /\ OrderOK' /\ CallsOK'
    <2>1. ListsOK' /\ CursorOK' /\ HandledOnce'
        BY <1>1 DEF SubInv, ListsOK, CursorOK, HandledOnce, Walking, Walk
    <2>2. OrderOK'
        BY <1>1 DEF SubInv, OrderOK, Walking, Walk, List
    <2>3. CallsOK'
        BY <1>1 DEF SubInv, CallsOK
    <2> QED
        BY <2>1, <2>2, <2>3
<1>8. ReachedOK'
    BY <1>1 DEF SubInv, ReachedOK, NobodyLeft, Walking, Walk, List
<1>9. \A i \in 1 .. Len(notify') : i \in 1 .. Len(notify) \/ i = Len(notify) + 1
    BY <1>3
<1>10. QueueOK'
    BY <1>1, <1>3, <1>9 DEF SubInv, QueueOK
<1> QED
    BY <1>6, <1>7, <1>8, <1>10 DEF SubInv

-----------------------------------------------------------------------------
(* The walk.                                                               *)

LEMMA ReceiveKeeps ==
    ASSUME SubInv, Receive
    PROVE  SubInv'
<1> DEFINE n == notify[1]
           first == Front(handlers[sent[n]])
<1>1. /\ pc = "select" /\ notify # <<>> /\ n # Nil /\ notify' = Tail(notify)
      /\ IF first = Nil
         THEN UNCHANGED <<pc, current, cursor>>
         ELSE pc' = "spawn" /\ current' = n /\ cursor' = [cursor EXCEPT ![n] = <<first>>]
      /\ UNCHANGED <<handlers, init, listening, sent, reconnects, calls, stopping, crashed>>
    BY DEF Receive, SubInv, SubTypeOK
<1>2. notify \in Seq(Events \cup {Nil}) /\ Len(notify) \in Nat /\ 1 \in 1 .. Len(notify)
    BY <1>1 DEF SubInv, SubTypeOK
<1>3. /\ n \in 1 .. Len(sent) /\ cursor[n] = <<>> /\ n \in Events
      /\ \A i \in 1 .. Len(notify) : notify[i] = n => i = 1
      /\ handlers[sent[n]] \in Seq(Handlers) /\ init
    <2>1. n \in Events
        BY <1>1, <1>2
    <2>2. n \in 1 .. Len(sent) /\ cursor[n] = <<>>
        BY <1>1, <1>2 DEF SubInv, QueueOK
    <2>3. \A i \in 1 .. Len(notify) : notify[i] = n => i = 1
        BY <1>1, <1>2 DEF SubInv, QueueOK
    <2>4. handlers[sent[n]] \in Seq(Handlers)
        BY <2>2 DEF SubInv, SubTypeOK, QueueOK
    <2>5. init
        BY <1>1 DEF SubInv, CursorOK
    <2> QED
        BY <2>1, <2>2, <2>3, <2>4, <2>5
<1>4. /\ notify' \in Seq(Events \cup {Nil}) /\ Len(notify') = Len(notify) - 1
      /\ \A i \in 1 .. Len(notify') : i + 1 \in 1 .. Len(notify) /\ notify'[i] = notify[i + 1]
    BY <1>1, <1>2
<1>5. \A i \in 1 .. Len(notify') : notify'[i] # n
    BY <1>2, <1>3, <1>4
<1>6. ~Walking
    BY <1>1 DEF Walking
<1> HIDE DEF n, first
<1>7. CASE first = Nil
    <2>1. UNCHANGED <<pc, current, cursor>>
        BY <1>1, <1>7
    <2>2. SubTypeOK' /\ ListsOK' /\ ~Walking'
        BY <1>1, <1>4, <1>6, <2>1 DEF SubInv, SubTypeOK, ListsOK, Walking
    <2>3. QueueOK'
        BY <1>1, <1>4, <2>1 DEF SubInv, QueueOK
    <2>4. CursorOK' /\ HandledOnce' /\ CallsOK'
        BY <1>1, <1>6, <2>1, <2>2 DEF SubInv, CursorOK, HandledOnce, CallsOK
    <2>5. OrderOK' /\ ReachedOK'
        BY <2>2 DEF OrderOK, ReachedOK
    <2> QED
        BY <2>2, <2>3, <2>4, <2>5 DEF SubInv
<1>8. CASE first # Nil
    <2>1. pc' = "spawn" /\ current' = n /\ cursor' = [cursor EXCEPT ![n] = <<first>>]
        BY <1>1, <1>8
    <2>2. /\ handlers[sent[n]] # <<>> /\ first = handlers[sent[n]][1]
          /\ 1 \in 1 .. Len(handlers[sent[n]]) /\ first \in Handlers
        BY <1>3, <1>8 DEF first, Front
    <2>3. /\ cursor'[n] = <<first>> /\ \A m \in Events \ {n} : cursor'[m] = cursor[m]
          /\ <<first>> \in Seq(Handlers) /\ Len(<<first>>) = 1 /\ <<first>>[1] = first
          /\ Walk' = <<first>> /\ List' = handlers[sent[n]]
        BY <1>1, <1>3, <2>1, <2>2 DEF SubInv, SubTypeOK, Walk, List
    <2>4. SubTypeOK'
        <3>1. cursor' \in [Events -> Seq(Handlers \cup {Nil})]
            BY <1>3, <2>1, <2>2 DEF SubInv, SubTypeOK
        <3> QED
            BY <1>1, <1>3, <1>4, <2>1, <3>1 DEF SubInv, SubTypeOK
    <2>5. ListsOK' /\ CursorOK' /\ Walking'
        BY <1>1, <1>3, <2>1, <2>3 DEF SubInv, ListsOK, CursorOK, Walking
    <2>6. QueueOK'
        <3>1. \A m \in Events : cursor'[m] # <<>> => m \in 1 .. Len(sent')
            BY <1>1, <1>3, <2>3 DEF SubInv, QueueOK
        <3>2. \A i \in 1 .. Len(notify') :
                  notify'[i] # Nil => notify'[i] \in 1 .. Len(sent') /\ cursor'[notify'[i]] = <<>>
            <4>1. \A i \in 1 .. Len(notify') : notify'[i] # Nil => notify'[i] \in Events
                BY <1>4
            <4> QED
                BY <1>1, <1>4, <1>5, <2>3, <4>1 DEF SubInv, QueueOK
        <3>3. \A i, j \in 1 .. Len(notify') : notify'[i] # Nil /\ notify'[i] = notify'[j] => i = j
            BY <1>4 DEF SubInv, QueueOK
        <3> QED
            BY <1>1, <3>1, <3>2, <3>3 DEF SubInv, QueueOK
    <2>7. HandledOnce'
        <3>1. \A i, j \in DOMAIN <<first>> : i < j => FALSE
            OBVIOUS
        <3> QED
            BY <2>3, <3>1 DEF SubInv, HandledOnce
    <2>8. OrderOK'
        BY <2>3 DEF OrderOK
    <2>9. CallsOK'
        <3>1. \A h \in Handlers : calls[n][h] = "none"
            BY <1>3 DEF SubInv, CallsOK
        <3> QED
            BY <1>1, <2>1, <2>3, <3>1 DEF SubInv, CallsOK
    <2>10. ReachedOK'
        BY <2>1, <2>2, <2>3 DEF ReachedOK
    <2> QED
        BY <2>4, <2>5, <2>6, <2>7, <2>8, <2>9, <2>10 DEF SubInv
<1> QED
    BY <1>7, <1>8

LEMMA SpawnKeeps ==
    ASSUME SubInv, Spawn
    PROVE  SubInv'
<1> DEFINE x == Last(Walk)
<1>1. /\ pc = "spawn" /\ pc' = "advance"
      /\ calls' = [calls EXCEPT ![current][x] = "started"]
      /\ UNCHANGED <<handlers, init, listening, notify, sent, reconnects, current, cursor,
                     stopping, crashed>>
    BY DEF Spawn, Walk
<1>2. Walking /\ Walking' /\ Walk' = Walk /\ List' = List
    BY <1>1 DEF Walking, Walk, List
<1>3. current \in Events /\ Walk \in Seq(Handlers) /\ Walk # <<>>
    BY <1>2 DEF SubInv, CursorOK
<1>4. Len(Walk) \in Nat /\ Len(Walk) \in 1 .. Len(Walk) /\ x = Walk[Len(Walk)] /\ x \in Handlers
    BY <1>3 DEF Last
<1>5. /\ calls'[current][x] = "started"
      /\ \A n \in Events, h \in Handlers : n # current \/ h # x => calls'[n][h] = calls[n][h]
      /\ calls' \in [Events -> [Handlers -> CallStates]]
    BY <1>1, <1>3, <1>4 DEF SubInv, SubTypeOK, CallStates
<1>6. calls[current][x] = "none"
    <2> SUFFICES ASSUME calls[current][x] # "none" PROVE FALSE
        OBVIOUS
    <2>1. PICK i \in 1 .. Len(Walk) : Walk[i] = x /\ i # Len(Walk)
        BY <1>1, <1>3, <1>4 DEF SubInv, CallsOK, Walk
    <2>2. i < Len(Walk) /\ i \in DOMAIN cursor[current] /\ Len(Walk) \in DOMAIN cursor[current]
        BY <1>3, <1>4, <2>1 DEF Walk
    <2> QED
        BY <1>3, <1>4, <2>1, <2>2 DEF SubInv, HandledOnce, Walk
<1>7. SubTypeOK'
    BY <1>1, <1>5 DEF SubInv, SubTypeOK
<1>8. ListsOK' /\ QueueOK' /\ CursorOK' /\ HandledOnce'
    BY <1>1, <1>2 DEF SubInv, ListsOK, QueueOK, CursorOK, HandledOnce
<1>9. OrderOK'
    BY <1>2 DEF SubInv, OrderOK
<1>10. CallsOK'
    <2> SUFFICES ASSUME NEW n \in Events, NEW h \in Handlers
                 PROVE  /\ calls'[n][h] # "none" => \E i \in 1 .. Len(cursor[n]) : cursor[n][i] = h
                        /\ calls'[n][h] = "answered" => h \in Stoppers
        BY <1>1 DEF CallsOK
    <2>1. CASE n = current /\ h = x
        BY <1>4, <1>5, <2>1 DEF Walk
    <2>2. CASE n # current \/ h # x
        BY <1>5, <2>2 DEF SubInv, CallsOK
    <2> QED
        BY <2>1, <2>2
<1>11. ASSUME NobodyLeft(sent[current])' PROVE NobodyLeft(sent[current])
    <2>1. \A m \in DOMAIN sent : m \in Events
        <3>1. sent \in Seq(Channels) /\ Len(sent) <= MaxEvents
            BY DEF SubInv, SubTypeOK
        <3> QED
            BY <3>1, SubscriberConstants DEF Events
    <2> QED
        BY <1>1, <1>5, <1>6, <1>11, <2>1, SubscriberConstants DEF NobodyLeft
<1> HIDE DEF x
<1>12. ASSUME NobodyLeft(sent[current])', NEW i \in 1 .. Len(Walk)
       PROVE  /\ i \in 1 .. Len(List) /\ List[i] = Walk[i]
              /\ calls'[current][Walk[i]] # "none"
    <2>1. /\ i \in 1 .. Len(List) /\ List[i] = Walk[i]
          /\ calls[current][Walk[i]] # "none" \/ i = Len(Walk)
        BY <1>2, <1>11, <1>12 DEF SubInv, ReachedOK
    <2>2. Walk[i] \in Handlers
        BY <1>3
    <2> QED
        BY <1>3, <1>4, <1>5, <2>1, <2>2
<1>13. ReachedOK'
    BY <1>1, <1>2, <1>12 DEF ReachedOK
<1> QED
    BY <1>7, <1>8, <1>9, <1>10, <1>13 DEF SubInv

LEMMA AdvanceKeeps ==
    ASSUME SubInv, Advance
    PROVE  SubInv'
<1> DEFINE next == NextElement(List, Last(Walk))
           len == Len(Walk)
<1>1. /\ pc = "advance" /\ cursor' = [cursor EXCEPT ![current] = Append(Walk, next)]
      /\ IF next = Nil
         THEN pc' = "select" /\ current' = Nil
         ELSE pc' = "spawn" /\ current' = current
      /\ UNCHANGED <<handlers, init, listening, notify, sent, reconnects, calls, stopping,
                     crashed>>
    BY DEF Advance, Walk, List, SubInv, SubTypeOK
<1>2. Walking /\ current \in Events /\ Walk \in Seq(Handlers) /\ Walk # <<>>
    BY <1>1 DEF SubInv, CursorOK, Walking
<1>3. current \in 1 .. Len(sent) /\ List \in Seq(Handlers) /\ NoRepeats(List)
    BY <1>2 DEF SubInv, SubTypeOK, QueueOK, ListsOK, Walk, List
<1>4. len \in Nat /\ len \in 1 .. len /\ Last(Walk) = Walk[len] /\ \A i \in 1 .. len : Walk[i] \in Handlers
    BY <1>2 DEF Last
<1>5. Nil \notin Handlers
    BY SubscriberConstants
<1>6. /\ next \in Handlers \cup {Nil}
      /\ next # Nil => \E i \in 1 .. Len(List) - 1 : List[i] = Walk[len] /\ List[i + 1] = next
      /\ next = Nil => \A i \in 1 .. Len(List) : List[i] = Walk[len] => i = Len(List)
    BY <1>3, <1>4, <1>5, NextElementFollows
<1> DEFINE w == Append(Walk, next)
<1>7. /\ Len(w) = len + 1 /\ w[len + 1] = next /\ \A i \in 1 .. len : w[i] = Walk[i]
      /\ w \in Seq(Handlers \cup {Nil}) /\ w # <<>> /\ (next # Nil => w \in Seq(Handlers))
      /\ \A i \in 1 .. len + 1 : i \in 1 .. len \/ i = len + 1
    BY <1>2, <1>4, <1>6
<1> HIDE DEF next, len, w
<1>8. cursor' = [cursor EXCEPT ![current] = w]
    BY <1>1 DEF w
<1>9. cursor'[current] = w /\ \A n \in Events \ {current} : cursor'[n] = cursor[n]
    BY <1>2, <1>8 DEF SubInv, SubTypeOK
<1>10. SubTypeOK'
    <2>1. cursor' \in [Events -> Seq(Handlers \cup {Nil})]
        BY <1>2, <1>7, <1>8 DEF SubInv, SubTypeOK
    <2> QED
        BY <1>1, <1>2, <2>1 DEF SubInv, SubTypeOK
<1>11. ListsOK' /\ QueueOK'
    <2>1. \A i \in 1 .. Len(notify) : notify[i] # current
        BY <1>2, SubscriberConstants DEF SubInv, QueueOK, Walk
    <2>2. \A i \in 1 .. Len(notify) : notify[i] # Nil => notify[i] \in Events
        BY DEF SubInv, SubTypeOK
    <2>3. \A i \in 1 .. Len(notify) : notify[i] # Nil => cursor'[notify[i]] = cursor[notify[i]]
        BY <1>9, <2>1, <2>2
    <2> QED
        BY <1>1, <1>2, <1>3, <1>9, <2>3 DEF SubInv, ListsOK, QueueOK, Walk
<1>12. \A i \in 1 .. len : Walk[i] # next
    <2>1. CASE next = Nil
        BY <1>4, <1>5, <2>1
    <2>2. CASE next # Nil
        <3> SUFFICES ASSUME NEW j \in 1 .. len, Walk[j] = next PROVE FALSE
            OBVIOUS
        <3>1. PICK i \in 1 .. Len(List) - 1 : List[i] = Walk[len] /\ List[i + 1] = next
            BY <1>6, <2>2
        <3>2. i \in 1 .. Len(List) /\ i + 1 \in 1 .. Len(List) /\ i # i + 1 /\ ~(i + 1 < i)
            BY <1>3, <3>1
        <3>3. CASE j = len
            BY <3>1, <3>2, <3>3, <1>3 DEF NoRepeats
        <3>4. CASE j # len
            <4>1. j \in 1 .. len - 1
                BY <1>4, <3>4
            <4> QED
                BY <1>2, <1>4, <3>1, <3>2, <4>1 DEF SubInv, OrderOK, len
        <3> QED
            BY <3>3, <3>4
    <2> QED
        BY <2>1, <2>2
<1>13. HandledOnce'
    <2> SUFFICES ASSUME NEW n \in Events, NEW i \in DOMAIN cursor'[n], NEW j \in DOMAIN cursor'[n],
                        i < j
                 PROVE  cursor'[n][i] # cursor'[n][j]
        BY DEF HandledOnce
    <2>1. CASE n # current
        BY <1>9, <2>1 DEF SubInv, HandledOnce
    <2>2. CASE n = current
        <3>1. DOMAIN w = 1 .. len + 1 /\ DOMAIN Walk = 1 .. len
            BY <1>2, <1>7 DEF len
        <3>2. i \in 1 .. len
            BY <1>4, <1>9, <2>2, <3>1
        <3>3. CASE j = len + 1
            BY <1>7, <1>9, <1>12, <2>2, <3>2, <3>3
        <3>4. CASE j \in 1 .. len
            <4>1. i \in DOMAIN Walk /\ j \in DOMAIN Walk
                BY <3>1, <3>2, <3>4
            <4>2. Walk[i] # Walk[j]
                BY <1>2, <4>1 DEF SubInv, HandledOnce, Walk
            <4> QED
                BY <1>7, <1>9, <2>2, <3>2, <3>4, <4>2
        <3> QED
            BY <1>7, <1>9, <2>2, <3>1, <3>3, <3>4
    <2> QED
        BY <2>1, <2>2
<1>14. CallsOK'
    <2> SUFFICES ASSUME NEW n \in Events, NEW h \in Handlers
                 PROVE  /\ calls[n][h] # "none" =>
                               \E i \in 1 .. Len(cursor'[n]) :
                                   /\ cursor'[n][i] = h
                                   /\ pc' = "spawn" /\ n = current' => i # Len(cursor'[n])
                        /\ calls[n][h] = "answered" => h \in Stoppers
        BY <1>1 DEF CallsOK
    <2>1. calls[n][h] = "answered" => h \in Stoppers
        BY DEF SubInv, CallsOK
    <2>2. ASSUME calls[n][h] # "none"
          PROVE  \E i \in 1 .. Len(cursor'[n]) :
                     /\ cursor'[n][i] = h
                     /\ pc' = "spawn" /\ n = current' => i # Len(cursor'[n])
        <3>1. PICK i \in 1 .. Len(cursor[n]) : cursor[n][i] = h
            BY <2>2 DEF SubInv, CallsOK
        <3>2. CASE n # current
            <4>1. ~(pc' = "spawn" /\ n = current')
                BY <1>1, <3>2
            <4> QED
                BY <1>9, <3>1, <3>2, <4>1
        <3>3. CASE n = current
            <4>1. i \in 1 .. len /\ Walk[i] = h
                BY <3>1, <3>3 DEF len, Walk
            <4>2. i \in 1 .. len + 1 /\ i # len + 1 /\ w[i] = h
                BY <1>4, <1>7, <4>1
            <4> QED
                BY <1>7, <1>9, <3>3, <4>2
        <3> QED
            BY <3>2, <3>3
    <2> QED
        BY <2>1, <2>2
<1>15. CASE next = Nil
    <2>1. CursorOK' /\ OrderOK' /\ ReachedOK'
        BY <1>1, <1>2, <1>15 DEF SubInv, CursorOK, OrderOK, ReachedOK, Walking
    <2> QED
        BY <1>10, <1>11, <1>13, <1>14, <2>1 DEF SubInv
<1>16. CASE next # Nil
    <2>1. pc' = "spawn" /\ current' = current /\ Walk' = w /\ List' = List
        BY <1>1, <1>9, <1>16 DEF Walk, List
    <2>2. CursorOK'
        BY <1>1, <1>2, <1>7, <1>16, <2>1 DEF SubInv, CursorOK, Walking
    <2>3. PICK i \in 1 .. Len(List) - 1 : List[i] = Walk[len] /\ List[i + 1] = next
        BY <1>6, <1>16
    <2>4. i \in 1 .. Len(List) /\ i + 1 \in 1 .. Len(List)
        BY <1>3, <2>3
    <2>5. OrderOK'
        <3> SUFFICES ASSUME NEW j \in 1 .. len, NEW a \in 1 .. Len(List), NEW b \in 1 .. Len(List),
                            List[a] = Walk[j], List[b] = next
                     PROVE  a < b
            <4>1. (len + 1) - 1 = len /\ Last(w) = next
                BY <1>4, <1>7 DEF Last
            <4> QED
                BY <1>7, <2>1, <4>1 DEF OrderOK
        <3>1. b = i + 1
            BY <1>3, <2>3, <2>4 DEF NoRepeats
        <3>2. CASE j = len
            BY <1>3, <2>3, <2>4, <3>1, <3>2 DEF NoRepeats
        <3>3. CASE j # len
            <4>1. j \in 1 .. len - 1
                BY <1>4, <3>3
            <4>2. a < i
                BY <1>2, <1>4, <2>3, <2>4, <4>1 DEF SubInv, OrderOK, len
            <4> QED
                BY <3>1, <4>2
        <3> QED
            BY <3>2, <3>3
    <2>6. ReachedOK'
        <3> SUFFICES ASSUME NobodyLeft(sent[current]), NEW j \in 1 .. len + 1
                     PROVE  /\ j \in 1 .. Len(List) /\ List[j] = w[j]
                            /\ calls[current][w[j]] # "none" \/ j = len + 1
            BY <1>1, <1>7, <2>1 DEF ReachedOK, NobodyLeft
        <3>1. \A k \in 1 .. len : /\ k \in 1 .. Len(List) /\ List[k] = Walk[k]
                                  /\ calls[current][Walk[k]] # "none"
            BY <1>1, <1>2 DEF SubInv, ReachedOK, len
        <3>2. i = len
            BY <1>3, <1>4, <2>3, <2>4, <3>1 DEF NoRepeats
        <3>3. CASE j = len + 1
            BY <1>7, <2>3, <2>4, <3>2, <3>3
        <3>4. CASE j \in 1 .. len
            BY <1>7, <3>1, <3>4
        <3> QED
            BY <1>7, <3>3, <3>4
    <2> QED
        BY <1>10, <1>11, <1>13, <1>14, <2>2, <2>5, <2>6 DEF SubInv
<1> QED
    BY <1>15, <1>16

-----------------------------------------------------------------------------
(* The goroutines of the handlers.                                         *)

\* What a step of one goroutine of event n keeps, whatever it does to the list.
LEMMA CallStep ==
    ASSUME SubInv, NEW n \in Events, NEW h \in Handlers, NEW x \in CallStates,
           calls[n][h] # "none", x # "none", x = "answered" => h \in Stoppers,
           calls[n][h] # "ended",
           calls' = [calls EXCEPT ![n][h] = x],
           UNCHANGED <<init, listening, notify, sent, reconnects, pc, current, cursor,
                       stopping, crashed>>
    PROVE  /\ CursorOK' /\ HandledOnce' /\ CallsOK'
           /\ calls' \in [Events -> [Handlers -> CallStates]]
           /\ \A m \in Events, g \in Handlers : calls[m][g] # "none" => calls'[m][g] # "none"
           /\ calls'[n][h] = x
           /\ n \in 1 .. Len(sent) /\ sent[n] \in DOMAIN handlers
           /\ NobodyLeft(sent[current])' => NobodyLeft(sent[current])
<1>1. /\ calls'[n][h] = x
      /\ \A m \in Events, g \in Handlers : m # n \/ g # h => calls'[m][g] = calls[m][g]
      /\ calls' \in [Events -> [Handlers -> CallStates]]
    BY DEF SubInv, SubTypeOK
<1>2. CursorOK' /\ HandledOnce'
    BY DEF SubInv, CursorOK, HandledOnce, Walking, Walk
<1>3. \A m \in Events, g \in Handlers : calls[m][g] # "none" => calls'[m][g] # "none"
    BY <1>1
<1>4. CallsOK'
    <2> SUFFICES ASSUME NEW m \in Events, NEW g \in Handlers
                 PROVE  /\ calls'[m][g] # "none" =>
                              \E i \in 1 .. Len(cursor[m]) :
                                  /\ cursor[m][i] = g
                                  /\ pc = "spawn" /\ m = current => i # Len(cursor[m])
                        /\ calls'[m][g] = "answered" => g \in Stoppers
        BY DEF CallsOK
    <2> QED
        BY <1>1 DEF SubInv, CallsOK
<1>5. n \in 1 .. Len(sent)
    <2>1. PICK i \in 1 .. Len(cursor[n]) : cursor[n][i] = h
        BY DEF SubInv, CallsOK
    <2>2. cursor[n] # <<>>
        BY <2>1
    <2> QED
        BY <2>2 DEF SubInv, QueueOK
<1>6. sent[n] \in DOMAIN handlers
    BY <1>5 DEF SubInv, QueueOK
<1>7. ASSUME NobodyLeft(sent[current])' PROVE NobodyLeft(sent[current])
    <2>1. \A m \in DOMAIN sent : m \in Events
        <3>1. sent \in Seq(Channels) /\ Len(sent) <= MaxEvents
            BY DEF SubInv, SubTypeOK
        <3> QED
            BY <3>1, SubscriberConstants DEF Events
    <2> QED
        BY <1>1, <1>7, <2>1, SubscriberConstants DEF NobodyLeft
<1> QED
    BY <1>1, <1>2, <1>3, <1>4, <1>5, <1>6, <1>7

LEMMA CallKeeps ==
    ASSUME SubInv, NEW n \in Events, NEW h \in Handlers, Handle(n, h) \/ Answer(n, h)
    PROVE  SubInv'
<1>1. /\ calls[n][h] \in {"started", "running"}
      /\ \E x \in CallStates \ {"none"} :
            calls' = [calls EXCEPT ![n][h] = x] /\ (x = "answered" => h \in Stoppers)
      /\ UNCHANGED <<handlers, init, listening, notify, sent, reconnects, pc, current, cursor,
                     stopping, crashed>>
    BY DEF Handle, Answer, CallStates
<1>2. PICK x \in CallStates \ {"none"} :
            calls' = [calls EXCEPT ![n][h] = x] /\ (x = "answered" => h \in Stoppers)
    BY <1>1
<1>3. /\ CursorOK' /\ HandledOnce' /\ CallsOK'
      /\ calls' \in [Events -> [Handlers -> CallStates]]
      /\ \A m \in Events, g \in Handlers : calls[m][g] # "none" => calls'[m][g] # "none"
      /\ NobodyLeft(sent[current])' => NobodyLeft(sent[current])
    BY <1>1, <1>2, CallStep
<1>4. SubTypeOK'
    BY <1>1, <1>3 DEF SubInv, SubTypeOK
<1>5. ListsOK' /\ QueueOK'
    BY <1>1 DEF SubInv, ListsOK, QueueOK
<1>6. OrderOK'
    BY <1>1 DEF SubInv, OrderOK, Walking, Walk, List
<1>7. ReachedOK'
    <2> SUFFICES ASSUME Walking, NobodyLeft(sent[current])', NEW i \in 1 .. Len(Walk)
                 PROVE  /\ i \in 1 .. Len(List) /\ List[i] = Walk[i]
                        /\ calls'[current][Walk[i]] # "none" \/ (pc = "spawn" /\ i = Len(Walk))
        BY <1>1 DEF ReachedOK, Walking, Walk, List, NobodyLeft
    <2>1. NobodyLeft(sent[current])
        BY <1>3
    <2>2. /\ i \in 1 .. Len(List) /\ List[i] = Walk[i]
          /\ calls[current][Walk[i]] # "none" \/ (pc = "spawn" /\ i = Len(Walk))
        BY <2>1 DEF SubInv, ReachedOK
    <2>3. current \in Events /\ Walk[i] \in Handlers
        BY DEF SubInv, CursorOK
    <2> QED
        BY <1>3, <2>2, <2>3
<1> QED
    BY <1>3, <1>4, <1>5, <1>6, <1>7 DEF SubInv

LEMMA RemoveHandlerKeeps ==
    ASSUME SubInv, NEW n \in Events, NEW h \in Handlers, RemoveHandler(n, h)
    PROVE  SubInv'
<1>1. PICK e \in Readable(n, h) :
            IF e = Nil
            THEN crashed' = TRUE /\ UNCHANGED <<handlers, calls>>
            ELSE /\ handlers' = [handlers EXCEPT ![sent[n]] = Without(@, e)]
                 /\ calls' = [calls EXCEPT ![n][h] = "ended"]
                 /\ UNCHANGED crashed
    BY DEF RemoveHandler
<1>2. /\ calls[n][h] = "answered"
      /\ UNCHANGED <<init, listening, notify, sent, reconnects, pc, current, cursor, stopping>>
    BY DEF RemoveHandler
<1>3. CASE e = Nil
    <2>1. SubTypeOK' /\ Aside
        BY <1>1, <1>2, <1>3 DEF SubInv, SubTypeOK, CursorOK, Aside, Walking
    <2> QED
        BY <2>1, AsideKeeps
<1>4. CASE e # Nil
    <2> DEFINE c == sent[n]
               new == Without(handlers[c], e)
    <2>1. handlers' = [handlers EXCEPT ![c] = new] /\ calls' = [calls EXCEPT ![n][h] = "ended"]
          /\ UNCHANGED crashed
        BY <1>1, <1>4
    <2>2. /\ CursorOK' /\ HandledOnce' /\ CallsOK'
          /\ calls' \in [Events -> [Handlers -> CallStates]]
          /\ \A m \in Events, g \in Handlers : calls[m][g] # "none" => calls'[m][g] # "none"
          /\ calls'[n][h] = "ended"
          /\ n \in 1 .. Len(sent) /\ c \in DOMAIN handlers
          /\ NobodyLeft(sent[current])' => NobodyLeft(sent[current])
        BY <1>2, <2>1, CallStep DEF CallStates
    <2>3. handlers[c] \in Seq(Handlers) /\ NoRepeats(handlers[c]) /\ h \in Stoppers
        BY <1>2, <2>2 DEF SubInv, SubTypeOK, ListsOK, CallsOK
    <2>4. new \in Seq(Handlers) /\ OrderKept(handlers[c], new)
        BY <2>3, WithoutOrder
    <2> HIDE DEF new
    <2>5. /\ DOMAIN handlers' = DOMAIN handlers /\ handlers'[c] = new
          /\ \A d \in DOMAIN handlers : d # c => handlers'[d] = handlers[d]
        BY <2>1, <2>2
    <2>6. SubTypeOK'
        BY <1>2, <2>1, <2>2, <2>4, <2>5 DEF SubInv, SubTypeOK
    <2>7. NoRepeats(new)
        BY <2>3, <2>4, NobodyRepeated
    <2>8. ListsOK' /\ QueueOK'
        BY <1>2, <2>5, <2>7 DEF SubInv, ListsOK, QueueOK
    <2>9. Walking' = Walking /\ Walk' = Walk
        BY <1>2 DEF Walking, Walk
    <2>10. ASSUME Walking PROVE /\ current \in Events /\ Walk \in Seq(Handlers)
                                /\ sent[current] \in DOMAIN handlers
        BY <2>10 DEF SubInv, CursorOK, QueueOK, Walk
    <2>11. OrderOK'
        <3> SUFFICES ASSUME Walking, NEW i \in 1 .. Len(Walk) - 1,
                            NEW a \in 1 .. Len(List'), NEW b \in 1 .. Len(List'),
                            List'[a] = Walk[i], List'[b] = Last(Walk)
                     PROVE  a < b
            BY <2>9 DEF OrderOK
        <3>1. CASE sent[current] = c
            <4>1. List' = new /\ List = handlers[c]
                BY <1>2, <2>5, <3>1 DEF List
            <4>2. PICK p, q \in 1 .. Len(List) : /\ List[p] = List'[a] /\ List[q] = List'[b]
                                                 /\ p < q <=> a < b
                BY <2>4, <4>1 DEF OrderKept
            <4>3. p < q
                BY <4>2 DEF SubInv, OrderOK
            <4> QED
                BY <4>2, <4>3
        <3>2. CASE sent[current] # c
            <4>1. List' = List
                BY <1>2, <2>5, <2>10, <3>2 DEF List
            <4> QED
                BY <4>1 DEF SubInv, OrderOK
        <3> QED
            BY <3>1, <3>2
    <2>12. ReachedOK'
        <3> SUFFICES ASSUME Walking, NobodyLeft(sent[current])', NEW i \in 1 .. Len(Walk)
                     PROVE  /\ i \in 1 .. Len(List') /\ List'[i] = Walk[i]
                            /\ calls'[current][Walk[i]] # "none" \/ (pc = "spawn" /\ i = Len(Walk))
            BY <1>2, <2>9 DEF ReachedOK, NobodyLeft
        <3>1. sent[current] # c
            BY <1>2, <2>2, <2>3 DEF NobodyLeft, SubInv, SubTypeOK
        <3>2. List' = List
            BY <1>2, <2>5, <2>10, <3>1 DEF List
        <3>3. NobodyLeft(sent[current])
            BY <2>2
        <3>4. /\ i \in 1 .. Len(List) /\ List[i] = Walk[i]
              /\ calls[current][Walk[i]] # "none" \/ (pc = "spawn" /\ i = Len(Walk))
            BY <3>3 DEF SubInv, ReachedOK
        <3>5. current \in Events /\ Walk[i] \in Handlers
            BY <2>10
        <3> QED
            BY <2>2, <3>2, <3>4, <3>5
    <2> QED
        BY <2>2, <2>6, <2>8, <2>11, <2>12 DEF SubInv
<1> QED
    BY <1>3, <1>4

-----------------------------------------------------------------------------

LEMMA SubInvStep == SubInv /\ [SubNext]_subVars => SubInv'
<1> SUFFICES ASSUME SubInv, [SubNext]_subVars PROVE SubInv'
    OBVIOUS
<1>1. CASE \E c \in Channels, h \in Handlers : ListenMessage(c, h)
    BY <1>1, ListenMessageKeeps
<1>2. CASE Register \/ Stop \/ Exit \/ Close \/ UNCHANGED subVars
    BY <1>2, AsideSteps
<1>3. CASE (\E c \in Channels : Notify(c)) \/ Reconnect
    BY <1>3, NotifyKeeps, ReconnectKeeps
<1>4. CASE Dispatch
    BY <1>4, AsideSteps, ReceiveKeeps, SpawnKeeps, AdvanceKeeps DEF Dispatch
<1>5. CASE \E n \in Events, h \in Handlers : Call(n, h)
    BY <1>5, CallKeeps, RemoveHandlerKeeps DEF Call
<1> QED
    BY <1>1, <1>2, <1>3, <1>4, <1>5 DEF SubNext

\* The map of lists, the queue and the states of the goroutines stay what they
\* are said to be, for any number of channels, handlers and notifications.
THEOREM SubscriberTypes == SubSpec => []SubTypeOK
<1>1. SubInv => SubTypeOK
    BY DEF SubInv
<1> QED
    BY <1>1, SubInvInit, SubInvStep, PTL DEF SubSpec

\* A walk comes to no handler twice, although the goroutines it has started
\* remove elements from under it, their own or, by the shared variable of the
\* loop, one of another handler.
THEOREM OnceEach == SubSpec => []HandledOnce
<1>1. SubInv => HandledOnce
    BY DEF SubInv
<1> QED
    BY <1>1, SubInvInit, SubInvStep, PTL DEF SubSpec

Skipped ==
    \A n \in Events :
          /\ current = n /\ current' # n
          /\ \A m \in DOMAIN sent, h \in Stoppers :
                sent[m] = sent[n] => calls[m][h] # "ended"
          => \A h \in Elements(handlers[sent[n]]) : calls'[n][h] # "none"

LEMMA WalkEnds ==
    ASSUME SubInv, [SubNext]_subVars
    PROVE  [Skipped]_subVars
<1> SUFFICES ASSUME SubNext, NEW n \in Events, current = n, current' # n, NobodyLeft(sent[n]),
                    NEW h \in Elements(handlers[sent[n]])
             PROVE  calls'[n][h] # "none"
    BY DEF Skipped, NobodyLeft
<1>1. Walking
    BY SubscriberConstants DEF SubInv, CursorOK
<1>2. Advance /\ NextElement(List, Last(Walk)) = Nil /\ calls' = calls
    BY <1>1 DEF SubNext, ListenMessage, Register, Stop, Exit, Close, Notify, Reconnect, Dispatch,
                ReceiveNil, Receive, Spawn, Advance, Call, Handle, Answer, RemoveHandler,
                Walking, Walk, List
<1>3. pc = "advance" /\ Walk \in Seq(Handlers) /\ Walk # <<>> /\ n \in 1 .. Len(sent)
    BY <1>1, <1>2 DEF Advance, SubInv, CursorOK, QueueOK, Walk
<1>4. List \in Seq(Handlers) /\ NoRepeats(List)
    BY <1>3 DEF SubInv, SubTypeOK, QueueOK, ListsOK, List
<1>5. \A i \in 1 .. Len(Walk) : /\ i \in 1 .. Len(List) /\ List[i] = Walk[i]
                                /\ calls[n][Walk[i]] # "none"
    BY <1>1, <1>3 DEF SubInv, ReachedOK
<1>6. Len(Walk) \in 1 .. Len(Walk) /\ Last(Walk) = Walk[Len(Walk)]
    BY <1>3 DEF Last
<1>7. \A i \in 1 .. Len(List) : List[i] = Last(Walk) => i = Len(List)
    BY <1>2, <1>4, NextElementFollows, SubscriberConstants
<1>8. Len(Walk) = Len(List)
    BY <1>5, <1>6, <1>7
<1>9. PICK i \in 1 .. Len(List) : List[i] = h
    BY DEF Elements, List
<1> QED
    BY <1>2, <1>5, <1>8, <1>9

\* Until a handler has left its list, a walk ends with everybody called.
THEOREM EverybodyCalled == SubSpec => NobodySkipped
BY WalkEnds, SubInvInit, SubInvStep, PTL DEF SubSpec, NobodySkipped, Skipped

=============================================================================
