------------------------------ MODULE Subscriber ------------------------------
(***************************************************************************)
(* The dispatcher of PostgreSQL notifications (core/pubsub.go): one        *)
(* goroutine takes notifications from the driver's listener, walks the     *)
(* list of handlers of the channel and starts a goroutine per handler.     *)
(*                                                                         *)
(* The lists are container/list: removing an element clears its links, so  *)
(* Next of a removed element is nil, and removing it again does nothing.   *)
(* An element is named by its handler.  The closures share the variable e  *)
(* of their loop with the dispatcher, without synchronization: they may    *)
(* read any value it has had since they were started.                      *)
(*                                                                         *)
(* The timer of the select (a Ping every 20 s without work) changes no     *)
(* state and is left out.                                                  *)
(***************************************************************************)
EXTENDS Integers, Sequences, FiniteSets

CONSTANTS
    Channels,
    Handlers,
    Stoppers,       \* the handlers that answer something else than Continue
    MaxEvents,      \* bound on the notifications sent
    MaxReconnects,  \* bound on the connections lost
    Nil

Events == 1 .. MaxEvents

ASSUME SubscriberConstants ==
    /\ Stoppers \subseteq Handlers
    /\ MaxEvents \in Nat /\ MaxReconnects \in Nat
    /\ Nil \notin Handlers \cup Channels \cup Events

VARIABLES
    handlers,     \* the lists, by channel; a channel without list is not in the map
    init,         \* Register has been called
    listening,    \* channels of s.channels, or of the listener once it exists
    notify,       \* the channel of the listener: events, and Nil after a reconnection
    sent,         \* the channel of each event sent so far
    reconnects,
    pc,           \* of the dispatcher
    current,      \* the notification it dispatches
    cursor,       \* the values e has had, by event
    calls,        \* state of the goroutine of an event and a handler
    stopping,     \* progress of Stop
    crashed       \* a goroutine has panicked: the process is gone

subVars == <<handlers, init, listening, notify, sent, reconnects, pc, current, cursor,
             calls, stopping, crashed>>

CallStates == {"none", "started", "running", "answered", "ended"}

SubTypeOK ==
    /\ DOMAIN handlers \subseteq Channels
    /\ \A c \in DOMAIN handlers : handlers[c] \in Seq(Handlers)
    /\ init \in BOOLEAN
    /\ listening \subseteq DOMAIN handlers
    /\ notify \in Seq(Events \cup {Nil})
    /\ sent \in Seq(Channels) /\ Len(sent) <= MaxEvents
    /\ reconnects \in 0 .. MaxReconnects
    /\ pc \in {"off", "select", "spawn", "advance", "stopped"}
    /\ current \in Events \cup {Nil}
    /\ cursor \in [Events -> Seq(Handlers \cup {Nil})]
    /\ calls \in [Events -> [Handlers -> CallStates]]
    /\ stopping \in {"no", "sending", "closing", "done"}
    /\ crashed \in BOOLEAN

SubInit ==
    /\ handlers = [c \in {} |-> <<>>]
    /\ init = FALSE /\ listening = {}
    /\ notify = <<>> /\ sent = <<>> /\ reconnects = 0
    /\ pc = "off" /\ current = Nil
    /\ cursor = [n \in Events |-> <<>>]
    /\ calls = [n \in Events |-> [h \in Handlers |-> "none"]]
    /\ stopping = "no" /\ crashed = FALSE

-----------------------------------------------------------------------------
(* container/list.                                                         *)

Elements(list) == {list[i] : i \in 1 .. Len(list)}

Front(list) == IF list = <<>> THEN Nil ELSE Head(list)

\* e.Next(): nil at the end of the list, and for an element that has left it.
NextElement(list, e) ==
    IF \E i \in 1 .. Len(list) - 1 : list[i] = e
    THEN list[1 + CHOOSE i \in 1 .. Len(list) - 1 : list[i] = e]
    ELSE Nil

\* Remove: e leaves the list, unless it has left it before.
Without(list, e) ==
    LET k == CHOOSE i \in 1 .. Len(list) : list[i] = e
    IN  IF e \in Elements(list)
        THEN SubSeq(list, 1, k - 1) \o SubSeq(list, k + 1, Len(list))
        ELSE list

Last(s) == s[Len(s)]

-----------------------------------------------------------------------------
(* ListenMessage, Register, Stop.                                          *)

\* All callers are Prepare hooks, which run before the hook that registers: the
\* branch that listens to a channel later is not taken.
ListenMessage(c, h) ==
    /\ ~crashed /\ ~init
    /\ \A d \in DOMAIN handlers : h \notin Elements(handlers[d])
    /\ handlers' = [d \in DOMAIN handlers \cup {c} |->
                       IF d \notin DOMAIN handlers THEN <<h>>
                       ELSE IF d = c THEN Append(handlers[d], h) ELSE handlers[d]]
    /\ listening' = listening \cup {c}
    /\ UNCHANGED <<init, notify, sent, reconnects, pc, current, cursor, calls, stopping,
                   crashed>>

Register ==
    /\ ~crashed /\ ~init
    /\ init' = TRUE
    /\ pc' = "select"
    /\ UNCHANGED <<handlers, listening, notify, sent, reconnects, current, cursor, calls,
                   stopping, crashed>>

\* Stop: the exit channel has no buffer, so the send waits for the select, also
\* for one that Register has not started yet.
Stop ==
    /\ ~crashed
    /\ stopping = "no"
    /\ stopping' = "sending"
    /\ UNCHANGED <<handlers, init, listening, notify, sent, reconnects, pc, current,
                   cursor, calls, crashed>>

Exit ==
    /\ ~crashed
    /\ pc = "select" /\ stopping = "sending"
    /\ pc' = "stopped"
    /\ stopping' = "closing"
    /\ UNCHANGED <<handlers, init, listening, notify, sent, reconnects, current, cursor,
                   calls, crashed>>

Close ==
    /\ ~crashed
    /\ stopping = "closing"
    /\ stopping' = "done"
    /\ UNCHANGED <<handlers, init, listening, notify, sent, reconnects, pc, current,
                   cursor, calls, crashed>>

-----------------------------------------------------------------------------
(* The database and the driver's listener (external).                      *)

Notify(c) ==
    /\ ~crashed /\ init /\ stopping # "done"
    /\ c \in listening
    /\ Len(sent) < MaxEvents
    /\ sent' = Append(sent, c)
    /\ notify' = Append(notify, Len(sent) + 1)
    /\ UNCHANGED <<handlers, init, listening, reconnects, pc, current, cursor, calls,
                   stopping, crashed>>

\* The driver says with a nil notification that it was disconnected.
Reconnect ==
    /\ ~crashed /\ init /\ stopping # "done"
    /\ reconnects < MaxReconnects
    /\ reconnects' = reconnects + 1
    /\ notify' = Append(notify, Nil)
    /\ UNCHANGED <<handlers, init, listening, sent, pc, current, cursor, calls, stopping,
                   crashed>>

-----------------------------------------------------------------------------
(* waitAndDispatch.                                                        *)

\* A nil notification: its Channel is logged, which dereferences nil.
ReceiveNil ==
    /\ ~crashed
    /\ pc = "select" /\ notify # <<>> /\ Head(notify) = Nil
    /\ crashed' = TRUE
    /\ UNCHANGED <<handlers, init, listening, notify, sent, reconnects, pc, current,
                   cursor, calls, stopping>>

\* Every channel that is listened to has a list, perhaps an empty one.
Receive ==
    /\ ~crashed
    /\ pc = "select" /\ notify # <<>> /\ Head(notify) # Nil
    /\ notify' = Tail(notify)
    /\ LET n == Head(notify)
           first == Front(handlers[sent[n]])
       IN  IF first = Nil
           THEN UNCHANGED <<pc, current, cursor>>
           ELSE /\ pc' = "spawn"
                /\ current' = n
                /\ cursor' = [cursor EXCEPT ![n] = <<first>>]
    /\ UNCHANGED <<handlers, init, listening, sent, reconnects, calls, stopping, crashed>>

Spawn ==
    /\ ~crashed /\ pc = "spawn"
    /\ calls' = [calls EXCEPT ![current][Last(cursor[current])] = "started"]
    /\ pc' = "advance"
    /\ UNCHANGED <<handlers, init, listening, notify, sent, reconnects, current, cursor,
                   stopping, crashed>>

\* Mutation: the loop starts over.
AdvanceFromFront ==
    /\ ~crashed /\ pc = "advance"
    /\ cursor' = [cursor EXCEPT ![current] = Append(@, Front(handlers[sent[current]]))]
    /\ pc' = "spawn"
    /\ UNCHANGED <<handlers, init, listening, notify, sent, reconnects, calls, stopping,
                   current, crashed>>

\* Mutation: the loop leaves the last handler out.
AdvanceBeforeLast ==
    /\ ~crashed /\ pc = "advance"
    /\ LET list == handlers[sent[current]]
           next == NextElement(list, Last(cursor[current]))
       IN  /\ cursor' = [cursor EXCEPT ![current] = Append(@, next)]
           /\ IF next = Nil \/ next = Last(list)
              THEN pc' = "select" /\ current' = Nil
              ELSE pc' = "spawn" /\ UNCHANGED current
    /\ UNCHANGED <<handlers, init, listening, notify, sent, reconnects, calls, stopping,
                   crashed>>

\* Mutation: the end of the list ends the goroutine.
AdvanceAndReturn ==
    /\ ~crashed /\ pc = "advance"
    /\ LET next == NextElement(handlers[sent[current]], Last(cursor[current]))
       IN  /\ cursor' = [cursor EXCEPT ![current] = Append(@, next)]
           /\ IF next = Nil
              THEN pc' = "stopped" /\ current' = Nil
              ELSE pc' = "spawn" /\ UNCHANGED current
    /\ UNCHANGED <<handlers, init, listening, notify, sent, reconnects, calls, stopping,
                   crashed>>

Advance ==
    /\ ~crashed /\ pc = "advance"
    /\ LET next == NextElement(handlers[sent[current]], Last(cursor[current]))
       IN  /\ cursor' = [cursor EXCEPT ![current] = Append(@, next)]
           /\ IF next = Nil
              THEN pc' = "select" /\ current' = Nil
              ELSE pc' = "spawn" /\ UNCHANGED current
    /\ UNCHANGED <<handlers, init, listening, notify, sent, reconnects, calls, stopping,
                   crashed>>

-----------------------------------------------------------------------------
(* The goroutine of handler h for event n.                                 *)

Handle(n, h) ==
    /\ ~crashed /\ calls[n][h] = "started"
    /\ calls' = [calls EXCEPT ![n][h] = "running"]
    /\ UNCHANGED <<handlers, init, listening, notify, sent, reconnects, pc, current,
                   cursor, stopping, crashed>>

Answer(n, h) ==
    /\ ~crashed /\ calls[n][h] = "running"
    /\ calls' = [calls EXCEPT ![n][h] = IF h \in Stoppers THEN "answered" ELSE "ended"]
    /\ UNCHANGED <<handlers, init, listening, notify, sent, reconnects, pc, current,
                   cursor, stopping, crashed>>

\* The values of e the goroutine may read: its own element, or a later one.
Readable(n, h) ==
    {cursor[n][i] : i \in {j \in 1 .. Len(cursor[n]) :
                              \E k \in 1 .. j : cursor[n][k] = h}}

\* Mutation: the channel is dropped with its last handler.
RemoveHandlerAndList(n, h) ==
    /\ ~crashed /\ calls[n][h] = "answered"
    /\ handlers' = [c \in {d \in DOMAIN handlers : d # sent[n] \/ Len(handlers[d]) > 1} |->
                       IF c = sent[n] THEN Without(handlers[c], h) ELSE handlers[c]]
    /\ calls' = [calls EXCEPT ![n][h] = "ended"]
    /\ UNCHANGED <<crashed, init, listening, notify, sent, reconnects, pc, current, cursor,
                   stopping>>

\* Remove(e); with nil it panics, and nothing recovers.
RemoveHandler(n, h) ==
    /\ ~crashed /\ calls[n][h] = "answered"
    /\ \E e \in Readable(n, h) :
          IF e = Nil
          THEN crashed' = TRUE /\ UNCHANGED <<handlers, calls>>
          ELSE /\ handlers' = [handlers EXCEPT ![sent[n]] = Without(@, e)]
               /\ calls' = [calls EXCEPT ![n][h] = "ended"]
               /\ UNCHANGED crashed
    /\ UNCHANGED <<init, listening, notify, sent, reconnects, pc, current, cursor, stopping>>

-----------------------------------------------------------------------------

Dispatch == ReceiveNil \/ Receive \/ Spawn \/ Advance

Call(n, h) == Handle(n, h) \/ Answer(n, h) \/ RemoveHandler(n, h)

SubNext ==
    \/ \E c \in Channels, h \in Handlers : ListenMessage(c, h)
    \/ Register \/ Stop \/ Exit \/ Close
    \/ \E c \in Channels : Notify(c)
    \/ Reconnect
    \/ Dispatch
    \/ \E n \in Events, h \in Handlers : Call(n, h)

SubSpec == SubInit /\ [][SubNext]_subVars

\* The scheduler serves the dispatcher and the caller of Stop; select chooses
\* among the ready cases at random, so that none is passed over forever.
FairSubSpec ==
    /\ SubSpec
    /\ SF_subVars(Dispatch) /\ SF_subVars(Exit) /\ WF_subVars(Close)

-----------------------------------------------------------------------------
(* Properties.                                                             *)

\* Nothing is handled twice: a walk never comes to a handler a second time,
\* whatever the goroutines remove from the list under it.
HandledOnce ==
    \A n \in Events : \A i, j \in DOMAIN cursor[n] :
        i < j => cursor[n][i] # cursor[n][j]

\* As long as no handler has left the list of a channel, a walk over it reaches
\* everybody who is on it, also with handlers that are about to leave.
NobodySkipped ==
    [][\A n \in Events :
          /\ current = n /\ current' # n
          /\ \A m \in DOMAIN sent, h \in Stoppers :
                sent[m] = sent[n] => calls[m][h] # "ended"
          => \A h \in Elements(handlers[sent[n]]) : calls'[n][h] # "none"]_subVars

\* Stop does not wait forever for a dispatcher that was started, whatever the
\* dispatcher is doing and whatever is left to dispatch.
StopReturns ==
    [](~crashed) => (init /\ stopping = "sending" ~> stopping = "done")

\* "received a nil notification, the underlying driver reconnect" and then
\* "continue" (core/pubsub.go:108): the dispatcher outlives a lost connection.
SurvivesReconnect == reconnects > 0 => ~crashed

=============================================================================
