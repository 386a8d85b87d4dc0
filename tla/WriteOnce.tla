------------------------------ MODULE WriteOnce ------------------------------
(***************************************************************************)
(* What the vault promises of the entry stored under a name: it is written *)
(* once.  While one call writes it, the entry is "writing"; once several   *)
(* calls have met on it, or a removal, it is "shared" and may end as       *)
(* anything; when no call is under way it has settled, whole, broken or    *)
(* absent, and then only a removal touches it again, or a Put whose look   *)
(* at it failed.                                                           *)
(***************************************************************************)
EXTENDS FiniteSets

CONSTANTS Names, Calls, Contents

VARIABLES
    entry,  \* by name, how the entry stands and what is or will be in it
    busy,   \* by name, the calls that write or remove it
    request,    \* call -> what it asks, "put" or "remove"
    failures    \* how many steps have failed

\* Requests and failures are the caller's and the driver's.
onceVars == <<entry, busy>>

Entry(state, content) == [state |-> state, content |-> content]
Bare(state) == [state |-> state]
Settled == {Bare("none"), Bare("broken")} \cup {Entry("whole", x) : x \in Contents}

OnceInit ==
    /\ entry = [n \in Names |-> Bare("none")]
    /\ busy = [n \in Names |-> {}]

Enter(n, c, e) ==
    /\ c \notin busy[n]
    /\ busy' = [busy EXCEPT ![n] = @ \cup {c}]
    /\ entry' = [entry EXCEPT ![n] = e]

BeginPut(n, c, x) ==
    /\ request'[c] = "put"
    /\ \/ busy[n] = {} /\ entry[n] = Bare("none") /\ Enter(n, c, Entry("writing", x))
       \/ busy[n] # {} /\ Enter(n, c, Bare("shared"))
       \/ failures' # failures /\ entry[n] # Bare("none") /\ Enter(n, c, Bare("shared"))

BeginRemove(n, c) ==
    /\ request'[c] = "remove"
    /\ Enter(n, c, Bare("shared"))

\* What an entry may be when nobody works on it any more: one that a single
\* call has written holds what that call was given, whole or not, or nothing.
Outcomes(e) ==
    IF e.state = "writing" THEN {Bare("none"), Bare("broken"), Entry("whole", e.content)}
    ELSE Settled

\* The last call to leave settles the entry.
EndCall(n, c, e) ==
    /\ c \in busy[n]
    /\ busy' = [busy EXCEPT ![n] = @ \ {c}]
    /\ entry' = [entry EXCEPT ![n] = e]
    /\ IF busy[n] = {c} THEN e \in Outcomes(entry[n]) ELSE e = Bare("shared")

\* The process ends in the middle of all its calls.
CrashAll ==
    /\ busy' = [n \in Names |-> {}]
    /\ entry' \in [Names -> Settled]
    /\ \A n \in Names :
          IF busy[n] = {} THEN entry'[n] = entry[n] ELSE entry'[n] \in Outcomes(entry[n])

OnceNext ==
    \/ \E n \in Names, c \in Calls :
        \/ \E x \in Contents : BeginPut(n, c, x)
        \/ BeginRemove(n, c)
        \/ \E e \in Settled \cup {Bare("shared")} : EndCall(n, c, e)
    \/ CrashAll

OnceSpec == OnceInit /\ [][OnceNext]_onceVars
=============================================================================
