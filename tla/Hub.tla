--------------------------------- MODULE Hub ---------------------------------
(***************************************************************************)
(* The WebSocket hub (plugins/api/api_http.go): a container/list of        *)
(* connections.  The stream route of each connection adds and removes its  *)
(* element; a goroutine per event walks the list and writes the event; the *)
(* hook of the shutdown walks it and closes.  Nobody takes a lock, so the  *)
(* list is modelled by its pointers, and what changes them by two steps:   *)
(* the reads of the neighbours, and the writes.                            *)
(***************************************************************************)
EXTENDS Naturals, FiniteSets

CONSTANTS
    Conns, Events,
    Root, Nil,  \* the list's own element, and the nil pointer
    Hook        \* the walk of the PreHook

\* The root, nil and the connections are different pointers.
ASSUME HubAssumption == Root # Nil /\ Root \notin Conns /\ Nil \notin Conns

Walks == Events \cup {Hook}

VARIABLES
    next, prev, listed,     \* of each element; listed: its list is not nil
    pc, at, after,          \* the route: its step, and the neighbours it read
    gone, closed,           \* the remote end has left; Close was called
    walk, cursor,           \* of each walk: its step and its variable e
    expected, reached,      \* on the list when it began; written to or closed
    cut,                    \* an element was removed while it walked
    raced                   \* two routes changed the list at the same time

listVars == <<next, prev, listed>>
routeVars == <<pc, at, after, gone>>
walkVars == <<walk, cursor, expected, reached>>
hubVars == <<listVars, routeVars, closed, walkVars, cut, raced>>

HubInit ==
    /\ next = [e \in Conns \cup {Root} |-> IF e = Root THEN Root ELSE Nil]
    /\ prev = next
    /\ listed = [c \in Conns |-> FALSE]
    /\ pc = [c \in Conns |-> "new"]
    /\ at = [c \in Conns |-> Nil] /\ after = [c \in Conns |-> Nil]
    /\ gone = {} /\ closed = {}
    /\ walk = [w \in Walks |-> "idle"]
    /\ cursor = [w \in Walks |-> Nil]
    /\ expected = [w \in Walks |-> {}] /\ reached = [w \in Walks |-> {}]
    /\ cut = [w \in Walks |-> FALSE]
    /\ raced = FALSE

Changing == {c \in Conns : pc[c] \in {"push", "unlink"}}

-----------------------------------------------------------------------------
(* GET /nodes/stream.                                                      *)

\* Reads for a change of the list between p and n.
ReadNeighbours(c, p, n) ==
    /\ at' = [at EXCEPT ![c] = p]
    /\ after' = [after EXCEPT ![c] = n]
    /\ raced' = (raced \/ Changing # {})

Forget(c) == at' = [at EXCEPT ![c] = Nil] /\ after' = [after EXCEPT ![c] = Nil]

\* Upgrade, and PushBack up to its writes.
Connect(c) ==
    /\ pc[c] = "new"
    /\ pc' = [pc EXCEPT ![c] = "push"]
    /\ ReadNeighbours(c, prev[Root], next[prev[Root]])
    /\ UNCHANGED <<listVars, gone, closed, walkVars, cut>>

\* Mutation: the element is published before its own pointers are set.
PushBackEarly(c) ==
    /\ pc[c] = "push"
    /\ next' = [next EXCEPT ![at[c]] = c]
    /\ prev' = [prev EXCEPT ![after[c]] = c]
    /\ listed' = [listed EXCEPT ![c] = TRUE]
    /\ pc' = [pc EXCEPT ![c] = "open"]
    /\ UNCHANGED <<at, after, gone, closed, walkVars, cut, raced>>

\* A neighbour that has left meanwhile has no next: half of the writes are done
\* when that panics.
PushBack(c) ==
    /\ pc[c] = "push"
    /\ IF after[c] = Nil
       THEN /\ next' = [next EXCEPT ![at[c]] = c]
            /\ prev' = [prev EXCEPT ![c] = at[c]]
            /\ pc' = [pc EXCEPT ![c] = "left"]
            /\ UNCHANGED listed
       ELSE /\ next' = [next EXCEPT ![at[c]] = c, ![c] = after[c]]
            /\ prev' = [prev EXCEPT ![after[c]] = c, ![c] = at[c]]
            /\ listed' = [listed EXCEPT ![c] = TRUE]
            /\ pc' = [pc EXCEPT ![c] = "open"]
    /\ Forget(c)
    /\ UNCHANGED <<gone, closed, walkVars, cut, raced>>

\* The remote end leaves; readLoop ends and tells nobody.
Leave(c) ==
    /\ pc[c] = "open" /\ c \notin gone
    /\ gone' = gone \cup {c}
    /\ UNCHANGED <<listVars, pc, at, after, closed, walkVars, cut, raced>>

\* Mutation: the route ends without its deferred call.
PingFailsAndReturns(c) ==
    /\ pc[c] = "open" /\ c \in gone \cup closed
    /\ pc' = [pc EXCEPT ![c] = "left"]
    /\ UNCHANGED <<listVars, at, after, gone, closed, walkVars, cut, raced>>

\* The next ping fails: closeDefer, Remove up to its writes.
PingFails(c) ==
    /\ pc[c] = "open" /\ c \in gone \cup closed
    /\ closed' = closed \cup {c}
    /\ pc' = [pc EXCEPT ![c] = "unlink"]
    /\ ReadNeighbours(c, prev[c], next[c])
    /\ UNCHANGED <<listVars, gone, walkVars, cut>>

Unlink(c) ==
    /\ pc[c] = "unlink"
    /\ IF after[c] = Nil
       THEN next' = [next EXCEPT ![at[c]] = Nil] /\ UNCHANGED <<prev, listed>>
       ELSE /\ next' = [next EXCEPT ![at[c]] = after[c], ![c] = Nil]
            /\ prev' = [prev EXCEPT ![after[c]] = at[c], ![c] = Nil]
            /\ listed' = [listed EXCEPT ![c] = FALSE]
    /\ pc' = [pc EXCEPT ![c] = "left"]
    /\ cut' = [w \in Walks |-> cut[w] \/ walk[w] = "walking"]
    /\ Forget(c)
    /\ UNCHANGED <<gone, closed, walkVars, raced>>

-----------------------------------------------------------------------------
(* The walks.                                                              *)

Front == IF next[Root] = Root THEN Nil ELSE next[Root]

\* Element.Next, nil for an element that was removed.
Next(e) == IF listed[e] /\ next[e] # Root THEN next[e] ELSE Nil

\* The walk stands on e and writes to it, or closes it; an error of
\* WriteMessage is logged.
Stand(w, e) ==
    /\ cursor' = [cursor EXCEPT ![w] = e]
    /\ walk' = [walk EXCEPT ![w] = IF e = Nil THEN "done" ELSE "walking"]
    /\ reached' = [reached EXCEPT ![w] = @ \cup ({e} \ {Nil})]
    /\ closed' = IF w = Hook THEN closed \cup ({e} \ {Nil}) ELSE closed

BeginWalk(w) ==
    /\ walk[w] = "idle"
    /\ Stand(w, Front)
    /\ expected' = [expected EXCEPT ![w] = {c \in Conns : listed[c]}]
    /\ UNCHANGED <<listVars, routeVars, cut, raced>>

\* Mutation: the loop starts over after an element that was removed.
AdvanceOrRestart(w) ==
    /\ walk[w] = "walking"
    /\ Stand(w, IF listed[cursor[w]] THEN Next(cursor[w]) ELSE Front)
    /\ UNCHANGED <<listVars, routeVars, expected, cut, raced>>

\* Mutation: a dead connection is where the walk ends.
AdvanceWhileAlive(w) ==
    /\ walk[w] = "walking"
    /\ Stand(w, IF cursor[w] \in gone THEN Nil ELSE Next(cursor[w]))
    /\ UNCHANGED <<listVars, routeVars, expected, cut, raced>>

Advance(w) ==
    /\ walk[w] = "walking"
    /\ Stand(w, Next(cursor[w]))
    /\ UNCHANGED <<listVars, routeVars, expected, cut, raced>>

-----------------------------------------------------------------------------

HubNext ==
    \/ \E c \in Conns : Connect(c) \/ PushBack(c) \/ Leave(c) \/ PingFails(c) \/ Unlink(c)
    \/ \E w \in Walks : BeginWalk(w) \/ Advance(w)

HubSpec == HubInit /\ [][HubNext]_hubVars

-----------------------------------------------------------------------------
(* Properties.                                                             *)

HubTypeOK ==
    /\ next \in [Conns \cup {Root} -> Conns \cup {Root, Nil}]
    /\ prev \in [Conns \cup {Root} -> Conns \cup {Root, Nil}]
    /\ \A w \in Walks : walk[w] = "walking" <=> cursor[w] \in Conns
    \* even a damaged list leads back to its root
    /\ Nil \notin {next[Root], prev[Root]}
    /\ \A c \in Conns : listed[c] => prev[c] # Nil

\* Unless routes change the list at the same time, it is one ring of its root
\* and the connections whose route is running: next and prev undo each other,
\* and no route ends with its connection on the list.
OneRing ==
    ~raced =>
        LET ring == {Root} \cup {c \in Conns : pc[c] \in {"open", "unlink"}}
        IN  \A e \in ring : next[e] \in ring /\ prev[next[e]] = e /\ next[prev[e]] = e

\* A broadcast, and the shutdown, reach every connection that was there when
\* they began, whoever joins meanwhile, unless one leaves meanwhile or routes
\* change the list at the same time.
EverybodyReached ==
    \A w \in Walks :
        walk[w] = "done" /\ ~cut[w] /\ ~raced => expected[w] \subseteq reached[w]

\* Nobody gets an event twice, even from a list that a race has damaged: with
\* finitely many connections, a walk ends.
SentOnce ==
    [][\A w \in Walks : cursor'[w] \notin {cursor[w], Nil} =>
          cursor'[w] \notin reached[w]]_hubVars

=============================================================================
