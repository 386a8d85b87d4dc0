---------------------------- MODULE GatewayProofs ----------------------------
(***************************************************************************)
(* Proofs about the guard and the walks, for every number of clients and   *)
(* accounts, every validity of a token, and every content of the tables.   *)
(***************************************************************************)
EXTENDS Gateway, FiniteSetTheorems, SequenceTheorems, WellFoundedInduction, TLAPS

Labels == {"idle", "token", "tokenUser", "login", "loginUser", "loginCheck", "route",
           "answered"}

Tokens == [name : Names, expires : Nat]
LoginRecord == [name : Names, at : Nat]

\* The part of the type of the state the arguments below need.
GuardTypeOK ==
    /\ account \in [Accounts -> User]
    /\ clock \in Nat
    /\ pc \in [Clients -> Labels]
    /\ found \in [Clients -> User \cup {None}]
    /\ token \in [Clients -> Tokens \cup {None}]
    /\ sent \in [Clients -> Tokens \cup {None}]
    /\ logins \in SUBSET LoginRecord
    /\ checked \in [Clients -> Nat]
    /\ DOMAIN answer = Clients
    /\ DOMAIN request = Clients

\* A token comes from a login that is not later than now.
Earned(t) ==
    \E l \in logins : l.name = t.name /\ t.expires = l.at + Validity /\ l.at <= clock

TokensEarned ==
    \A c \in Clients :
        /\ token[c] # None => Earned(token[c])
        /\ sent[c] # None => Earned(sent[c])

\* Behind the token authenticator, a guarded request has a token that was valid
\* when it was looked at; the login authenticator sees no guarded request.
Admitted(c) ==
    /\ sent[c] # None
    /\ \E l \in logins :
        l.name = sent[c].name /\ checked[c] \in l.at..(l.at + Validity - 1)

ClientInv(c) ==
    /\ pc[c] = "tokenUser" => Guarded(request[c]) /\ Admitted(c)
    /\ pc[c] = "login" => ~Guarded(request[c])
    /\ pc[c] \in {"loginUser", "loginCheck"} => request[c].path = "login"
    /\ pc[c] = "loginCheck" => found[c] \in User
    /\ pc[c] = "route" /\ Guarded(request[c]) => Admitted(c)

GuardInv == \A c \in Clients : ClientInv(c)

SessionInv == GuardTypeOK /\ TokensEarned /\ GuardInv

-----------------------------------------------------------------------------
(* The steps outside the guard.                                            *)

\* A step that leaves the guard and its clients alone keeps SessionInv.
LEMMA OthersKeepSession ==
    ASSUME SessionInv, UNCHANGED <<pc, found, checked, request, sent, token, logins>>,
           account' \in [Accounts -> User], clock' \in Nat, clock <= clock',
           answer' = answer
    PROVE  SessionInv'
<1>1. GuardTypeOK'
    BY DEF SessionInv, GuardTypeOK
<1>2. TokensEarned'
    <2>1. ASSUME NEW t \in Tokens, Earned(t) PROVE Earned(t)'
        BY <2>1, SMT DEF Earned, SessionInv, GuardTypeOK, Tokens, LoginRecord
    <2>2. QED
        BY <2>1 DEF TokensEarned, SessionInv, GuardTypeOK
<1>3. GuardInv'
    BY DEF GuardInv, ClientInv, SessionInv, Admitted, Guarded
<1>4. QED
    BY <1>1, <1>2, <1>3 DEF SessionInv

LEMMA InitSession == GatewayInit => SessionInv
<1>1. SUFFICES ASSUME GatewayInit PROVE SessionInv
    OBVIOUS
<1>2. GuardTypeOK
    BY <1>1, GatewayAssumption DEF GatewayInit, GuardTypeOK, Labels, User
<1>3. TokensEarned
    BY <1>1 DEF GatewayInit, TokensEarned
<1>4. GuardInv
    BY <1>1 DEF GatewayInit, GuardInv, ClientInv
<1>5. QED
    BY <1>2, <1>3, <1>4 DEF SessionInv

LEMMA WriteSession ==
    ASSUME SessionInv, NEW i \in Ids, NEW d \in BOOLEAN, Write(i, d) PROVE SessionInv'
<1>1. UNCHANGED <<pc, found, checked, request, sent, token, logins, account, clock, answer>>
    BY DEF Write, serverVars
<1>2. QED
    BY <1>1, OthersKeepSession DEF SessionInv, GuardTypeOK

LEMMA SaveUserSession ==
    ASSUME SessionInv, NEW a \in Accounts, NEW n \in Names, NEW p \in Passwords,
           SaveUser(a, n, p)
    PROVE  SessionInv'
<1>1. UNCHANGED <<pc, found, checked, request, sent, token, logins, clock, answer>>
    BY DEF SaveUser, Others, clientVars, serverVars
<1>2. account' \in [Accounts -> User]
    BY DEF SaveUser, SessionInv, GuardTypeOK, User
<1>3. clock' \in Nat /\ clock <= clock'
    BY <1>1 DEF SessionInv, GuardTypeOK
<1>4. QED
    BY <1>1, <1>2, <1>3, OthersKeepSession

LEMMA TickSession == ASSUME SessionInv, Tick PROVE SessionInv'
<1>1. UNCHANGED <<pc, found, checked, request, sent, token, logins, account, answer>>
    BY DEF Tick, Others, clientVars, serverVars, tableVars
<1>2. clock' \in Nat /\ clock <= clock'
    BY DEF Tick, SessionInv, GuardTypeOK
<1>3. QED
    BY <1>1, <1>2, OthersKeepSession DEF SessionInv, GuardTypeOK

-----------------------------------------------------------------------------
(* The steps of a request.                                                 *)

\* A step on the request of c that leaves its token alone has only to keep
\* what is said of c.
LEMMA HandlingKeepsSession ==
    ASSUME SessionInv, NEW c \in Clients,
           UNCHANGED <<account, clock, request, sent, token, logins>>,
           NEW label \in Labels, pc' = [pc EXCEPT ![c] = label],
           NEW time \in Nat, checked' = [checked EXCEPT ![c] = time],
           NEW user \in User \cup {None}, found' = [found EXCEPT ![c] = user],
           DOMAIN answer' = Clients,
           ClientInv(c)'
    PROVE  SessionInv'
<1>1. GuardTypeOK'
    BY DEF SessionInv, GuardTypeOK
<1>2. TokensEarned'
    BY DEF SessionInv, TokensEarned, Earned
<1>3. ASSUME NEW d \in Clients, d # c PROVE ClientInv(d)'
    <2>1. pc'[d] = pc[d] /\ checked'[d] = checked[d] /\ found'[d] = found[d]
        BY <1>3 DEF SessionInv, GuardTypeOK
    <2>2. ClientInv(d)
        BY DEF SessionInv, GuardInv
    <2>3. QED
        BY <2>1, <2>2 DEF ClientInv, Admitted, Guarded
<1>4. GuardInv'
    BY <1>3 DEF GuardInv
<1>5. QED
    BY <1>1, <1>2, <1>4 DEF SessionInv

\* Where EXCEPT leaves a value as it was.
LEMMA SameAtClient ==
    ASSUME SessionInv, NEW c \in Clients
    PROVE  /\ checked[c] \in Nat /\ checked = [checked EXCEPT ![c] = checked[c]]
           /\ found[c] \in User \cup {None} /\ found = [found EXCEPT ![c] = found[c]]
    BY DEF SessionInv, GuardTypeOK

LEMMA TokenCredentialsSession ==
    ASSUME SessionInv, NEW c \in Clients, TokenCredentials(c) PROVE SessionInv'
<1>0. UNCHANGED <<account, clock, request, sent, token, logins, found>>
    BY DEF TokenCredentials, tableVars, clientVars
<1>1. CASE ~Guarded(request[c])
    <2>1. pc' = [pc EXCEPT ![c] = "login"] /\ UNCHANGED <<answer, checked>>
        BY <1>1 DEF TokenCredentials, Goto
    <2>2. ClientInv(c)'
        BY <2>1, <1>0, <1>1 DEF ClientInv, Guarded, SessionInv, GuardTypeOK
    <2>3. DOMAIN answer' = Clients /\ "login" \in Labels
        BY <2>1 DEF SessionInv, GuardTypeOK, Labels
    <2>4. QED
        BY <1>0, <2>1, <2>2, <2>3, SameAtClient, HandlingKeepsSession
<1>2. CASE Guarded(request[c]) /\ ~Parses(sent[c])
    <2>1. pc' = [pc EXCEPT ![c] = "answered"] /\ UNCHANGED checked
        BY <1>2 DEF TokenCredentials, Goto, Forbid
    <2>2. ClientInv(c)'
        BY <2>1 DEF ClientInv, SessionInv, GuardTypeOK
    <2>3. DOMAIN answer' = Clients /\ "answered" \in Labels
        BY <1>2 DEF TokenCredentials, Forbid, Responds, SessionInv, GuardTypeOK, Labels
    <2>4. QED
        BY <1>0, <2>1, <2>2, <2>3, SameAtClient, HandlingKeepsSession
<1>3. CASE Guarded(request[c]) /\ Parses(sent[c])
    <2>1. /\ pc' = [pc EXCEPT ![c] = "tokenUser"]
          /\ checked' = [checked EXCEPT ![c] = clock] /\ UNCHANGED answer
        BY <1>3 DEF TokenCredentials, Goto
    <2>2. PICK l \in logins :
            /\ l.name = sent[c].name /\ sent[c].expires = l.at + Validity
            /\ l.at <= clock
        BY <1>3 DEF Parses, SessionInv, TokensEarned, Earned
    <2>3. clock \in l.at..(l.at + Validity - 1)
        BY <1>3, <2>2, GatewayAssumption DEF Parses, SessionInv, GuardTypeOK, LoginRecord
    <2>4. checked'[c] = clock
        BY <2>1 DEF SessionInv, GuardTypeOK
    <2>5. Admitted(c)'
        BY <1>0, <1>3, <2>2, <2>3, <2>4 DEF Admitted, Parses
    <2>6. ClientInv(c)'
        BY <1>0, <1>3, <2>1, <2>5 DEF ClientInv, Guarded, SessionInv, GuardTypeOK
    <2>7. DOMAIN answer' = Clients /\ "tokenUser" \in Labels /\ clock \in Nat
        BY <2>1 DEF SessionInv, GuardTypeOK, Labels
    <2>8. QED
        BY <1>0, <2>1, <2>6, <2>7, SameAtClient, HandlingKeepsSession
<1>4. QED
    BY <1>1, <1>2, <1>3

LEMMA TokenUserSession ==
    ASSUME SessionInv, NEW c \in Clients, TokenUser(c) PROVE SessionInv'
<1>0. UNCHANGED <<account, clock, request, sent, token, logins, found, checked>>
    BY DEF TokenUser, tableVars, clientVars
<1>1. PICK label \in {"answered", "route"} : pc' = [pc EXCEPT ![c] = label]
    BY DEF TokenUser, Forbid, Goto
<1>2. Admitted(c)
    BY DEF TokenUser, At, SessionInv, GuardInv, ClientInv
<1>3. ClientInv(c)'
    BY <1>0, <1>1, <1>2 DEF ClientInv, Admitted, SessionInv, GuardTypeOK
<1>4. DOMAIN answer' = Clients
    BY DEF TokenUser, Forbid, Responds, SessionInv, GuardTypeOK
<1>5. label \in Labels
    BY <1>1 DEF Labels
<1>6. QED
    BY <1>0, <1>1, <1>3, <1>4, <1>5, SameAtClient, HandlingKeepsSession

LEMMA LoginCredentialsSession ==
    ASSUME SessionInv, NEW c \in Clients, LoginCredentials(c) PROVE SessionInv'
<1>0. UNCHANGED <<account, clock, request, sent, token, logins, found, checked, answer>>
    BY DEF LoginCredentials, tableVars, clientVars
<1>1. ~Guarded(request[c])
    BY DEF LoginCredentials, At, SessionInv, GuardInv, ClientInv
<1>2. PICK label \in {"loginUser", "route"} :
        /\ pc' = [pc EXCEPT ![c] = label]
        /\ label = "loginUser" => request[c].path = "login"
    BY DEF LoginCredentials, Goto
<1>3. ClientInv(c)'
    BY <1>0, <1>1, <1>2 DEF ClientInv, Guarded, SessionInv, GuardTypeOK
<1>4. DOMAIN answer' = Clients /\ label \in Labels
    BY <1>0, <1>2 DEF SessionInv, GuardTypeOK, Labels
<1>5. QED
    BY <1>0, <1>2, <1>3, <1>4, SameAtClient, HandlingKeepsSession

LEMMA LoginUserSession ==
    ASSUME SessionInv, NEW c \in Clients, LoginUser(c) PROVE SessionInv'
<1>0. UNCHANGED <<account, clock, request, sent, token, logins, checked>>
    BY DEF LoginUser, tableVars, clientVars
<1>1. CASE NamedBy(request[c].name) = {}
    <2>1. pc' = [pc EXCEPT ![c] = "answered"] /\ UNCHANGED found
        BY <1>1 DEF LoginUser, Forbid, Goto
    <2>2. ClientInv(c)'
        BY <2>1 DEF ClientInv, SessionInv, GuardTypeOK
    <2>3. DOMAIN answer' = Clients /\ "answered" \in Labels
        BY <1>1 DEF LoginUser, Forbid, Responds, SessionInv, GuardTypeOK, Labels
    <2>4. QED
        BY <1>0, <2>1, <2>2, <2>3, SameAtClient, HandlingKeepsSession
<1>2. CASE NamedBy(request[c].name) # {}
    <2>1. PICK a \in Accounts : found' = [found EXCEPT ![c] = account[a]]
        BY <1>2 DEF LoginUser, NamedBy
    <2>2. pc' = [pc EXCEPT ![c] = "loginCheck"] /\ UNCHANGED answer
        BY <1>2 DEF LoginUser, Goto
    <2>3. request[c].path = "login" /\ account[a] \in User
        BY DEF LoginUser, At, SessionInv, GuardInv, ClientInv, GuardTypeOK
    <2>4. ClientInv(c)'
        BY <1>0, <2>1, <2>2, <2>3 DEF ClientInv, Guarded, SessionInv, GuardTypeOK
    <2>5. DOMAIN answer' = Clients /\ "loginCheck" \in Labels
        BY <2>2 DEF SessionInv, GuardTypeOK, Labels
    <2>6. QED
        BY <1>0, <2>1, <2>2, <2>3, <2>4, <2>5, SameAtClient, HandlingKeepsSession
<1>3. QED
    BY <1>1, <1>2

LEMMA LoginCheckSession ==
    ASSUME SessionInv, NEW c \in Clients, LoginCheck(c) PROVE SessionInv'
<1>0. /\ UNCHANGED <<account, clock, request, sent, checked>>
      /\ found' = [found EXCEPT ![c] = None]
      /\ pc' = [pc EXCEPT ![c] = "answered"]
      /\ DOMAIN answer' = Clients
    BY DEF LoginCheck, tableVars, Goto, AfterLogin, Forbid, Responds, SessionInv, GuardTypeOK
<1>1. CASE found[c].password # request[c].password
    <2>1. UNCHANGED <<token, logins>>
        BY <1>1 DEF LoginCheck
    <2>2. ClientInv(c)'
        BY <1>0 DEF ClientInv, SessionInv, GuardTypeOK
    <2>3. "answered" \in Labels /\ None \in User \cup {None}
        BY DEF Labels
    <2>4. QED
        BY <1>0, <2>1, <2>2, <2>3, SameAtClient, HandlingKeepsSession
<1>2. CASE found[c].password = request[c].password
    <2> DEFINE new == [name |-> found[c].name, expires |-> clock + Validity]
               login == [name |-> found[c].name, at |-> clock]
    <2>1. token' = [token EXCEPT ![c] = new] /\ logins' = logins \cup {login}
        BY <1>2 DEF LoginCheck
    <2>2. found[c] \in User
        BY DEF LoginCheck, At, SessionInv, GuardInv, ClientInv
    <2>3. new \in Tokens /\ login \in LoginRecord
        BY <2>2, GatewayAssumption DEF User, Tokens, LoginRecord, SessionInv, GuardTypeOK
    <2>4. GuardTypeOK'
        <3>1. token' \in [Clients -> Tokens \cup {None}] /\ logins' \in SUBSET LoginRecord
            BY <2>1, <2>3 DEF SessionInv, GuardTypeOK
        <3>2. pc' \in [Clients -> Labels]
            BY <1>0 DEF SessionInv, GuardTypeOK, Labels
        <3>3. QED
            BY <1>0, <3>1, <3>2 DEF SessionInv, GuardTypeOK
    <2>5. TokensEarned'
        <3>1. logins \subseteq logins' /\ clock' = clock /\ sent' = sent
            BY <2>1, <1>0
        <3>2. ASSUME NEW d \in Clients, token'[d] # None PROVE Earned(token[d])'
            <4>1. CASE d = c
                <5>1. token'[d] = new
                    BY <4>1, <2>1 DEF SessionInv, GuardTypeOK
                <5>2. clock \in Nat
                    BY DEF SessionInv, GuardTypeOK
                <5>3. login \in logins' /\ login.name = new.name
                      /\ new.expires = login.at + Validity /\ login.at <= clock'
                    BY <2>1, <3>1, <5>2
                <5>4. QED
                    BY <5>1, <5>3 DEF Earned
            <4>2. CASE d # c
                <5>1. token'[d] = token[d]
                    BY <4>2, <2>1 DEF SessionInv, GuardTypeOK
                <5>2. Earned(token[d])
                    BY <3>2, <5>1 DEF SessionInv, TokensEarned
                <5>3. QED
                    BY <3>1, <5>1, <5>2 DEF Earned
            <4>3. QED
                BY <4>1, <4>2
        <3>3. ASSUME NEW d \in Clients, sent'[d] # None PROVE Earned(sent[d])'
            <4>1. Earned(sent[d])
                BY <3>1, <3>3 DEF SessionInv, TokensEarned
            <4>2. QED
                BY <3>1, <4>1 DEF Earned
        <3>4. QED
            BY <3>2, <3>3 DEF TokensEarned
    <2>6. ASSUME NEW d \in Clients PROVE ClientInv(d)'
        <3>1. CASE d = c
            BY <3>1, <1>0 DEF ClientInv, SessionInv, GuardTypeOK
        <3>2. CASE d # c
            <4>1. ClientInv(d)
                BY DEF SessionInv, GuardInv
            <4>2. pc'[d] = pc[d] /\ found'[d] = found[d]
                BY <3>2, <1>0 DEF SessionInv, GuardTypeOK
            <4>3. Admitted(d) => Admitted(d)'
                BY <1>0, <2>1 DEF Admitted
            <4>4. QED
                BY <1>0, <4>1, <4>2, <4>3 DEF ClientInv, Guarded
        <3>3. QED
            BY <3>1, <3>2
    <2>7. QED
        BY <2>4, <2>5, <2>6 DEF SessionInv, GuardInv
<1>3. QED
    BY <1>1, <1>2

\* The routes change nothing the guard has established.
LEMMA ServeSession ==
    ASSUME SessionInv, NEW c \in Clients,
           ServeList(c) \/ ServeRevisions(c) \/ ServeOne(c) \/ ServeLogin(c)
    PROVE  SessionInv'
<1>1. UNCHANGED <<account, clock, request, sent, token, logins, found, checked>>
    BY DEF ServeList, ServeRevisions, ServeOne, ServeLogin, Frame, tableVars
<1>2. pc' = [pc EXCEPT ![c] = "answered"] /\ "answered" \in Labels
    BY DEF ServeList, ServeRevisions, ServeOne, ServeLogin, RouteTo, Goto, Labels
<1>3. DOMAIN answer' = Clients
    BY DEF ServeList, ServeRevisions, ServeOne, ServeLogin, Responds, SessionInv, GuardTypeOK
<1>4. ClientInv(c)'
    BY <1>2 DEF ClientInv, SessionInv, GuardTypeOK
<1>5. QED
    BY <1>1, <1>2, <1>3, <1>4, SameAtClient, HandlingKeepsSession

-----------------------------------------------------------------------------
(* The steps of a client.                                                  *)

\* A client takes up another request, or none, with a token it was given.
LEMMA ClientKeepsSession ==
    ASSUME SessionInv, NEW c \in Clients,
           UNCHANGED <<account, clock, found, token, logins>>,
           NEW label \in {"idle", "token"}, pc' = [pc EXCEPT ![c] = label],
           NEW r, request' = [request EXCEPT ![c] = r],
           NEW t \in {token[c], None}, sent' = [sent EXCEPT ![c] = t],
           NEW time \in Nat, checked' = [checked EXCEPT ![c] = time],
           DOMAIN answer' = Clients
    PROVE  SessionInv'
<1>1. GuardTypeOK'
    <2>1. label \in Labels /\ t \in Tokens \cup {None}
        BY DEF Labels, SessionInv, GuardTypeOK
    <2>2. QED
        BY <2>1 DEF SessionInv, GuardTypeOK
<1>2. TokensEarned'
    <2>1. ASSUME NEW d \in Clients, sent'[d] # None PROVE Earned(sent[d])'
        <3>1. sent'[d] \in {sent[d], token[d]}
            BY <2>1 DEF SessionInv, GuardTypeOK
        <3>2. QED
            BY <2>1, <3>1 DEF SessionInv, TokensEarned, Earned
    <2>2. ASSUME NEW d \in Clients, token'[d] # None PROVE Earned(token[d])'
        BY <2>2 DEF SessionInv, TokensEarned, Earned
    <2>3. QED
        BY <2>1, <2>2 DEF TokensEarned
<1>3. ASSUME NEW d \in Clients PROVE ClientInv(d)'
    <2>1. CASE d = c
        BY <2>1 DEF ClientInv, SessionInv, GuardTypeOK
    <2>2. CASE d # c
        <3>1. /\ pc'[d] = pc[d] /\ sent'[d] = sent[d] /\ checked'[d] = checked[d]
              /\ request'[d] = request[d]
            BY <2>2 DEF SessionInv, GuardTypeOK
        <3>2. ClientInv(d)
            BY DEF SessionInv, GuardInv
        <3>3. QED
            BY <3>1, <3>2 DEF ClientInv, Admitted, Guarded
    <2>3. QED
        BY <2>1, <2>2
<1>4. QED
    BY <1>1, <1>2, <1>3 DEF SessionInv, GuardInv

LEMMA AskSession ==
    ASSUME SessionInv, NEW c \in Clients, NEW r, Ask(c, r) PROVE SessionInv'
<1>1. /\ UNCHANGED <<account, clock, found, token, logins, checked, answer>>
      /\ pc' = [pc EXCEPT ![c] = "token"]
      /\ request' = [request EXCEPT ![c] = r]
      /\ sent' = [sent EXCEPT ![c] = token[c]]
    BY DEF Ask, Goto, tableVars
<1>2. DOMAIN answer' = Clients
    BY <1>1 DEF SessionInv, GuardTypeOK
<1>3. QED
    BY <1>1, <1>2, SameAtClient, ClientKeepsSession

LEMMA ReceiveSession ==
    ASSUME SessionInv, NEW c \in Clients, Receive(c) PROVE SessionInv'
<1>1. /\ UNCHANGED <<account, clock, found, token, logins>>
      /\ pc' = [pc EXCEPT ![c] = "idle"]
      /\ request' = [request EXCEPT ![c] = None]
      /\ sent' = [sent EXCEPT ![c] = None]
      /\ checked' = [checked EXCEPT ![c] = 0]
    BY DEF Receive, Goto, tableVars
<1>2. DOMAIN answer' = Clients
    BY DEF Receive, SessionInv, GuardTypeOK
<1>3. QED
    BY <1>1, <1>2, ClientKeepsSession

-----------------------------------------------------------------------------
LEMMA NextSession == SessionInv /\ [GatewayNext]_gatewayVars => SessionInv'
<1>1. SUFFICES ASSUME SessionInv, [GatewayNext]_gatewayVars PROVE SessionInv'
    OBVIOUS
<1>2. ASSUME NEW c \in Clients, NEW r \in Requests, Send(c, r) PROVE SessionInv'
    BY <1>1, <1>2, AskSession DEF Send
<1>3. ASSUME NEW c \in Clients, NEW r, StartWalk(c, r) PROVE SessionInv'
    BY <1>1, <1>3, AskSession DEF StartWalk
<1>4. ASSUME NEW c \in Clients, NextOf(c) PROVE SessionInv'
    BY <1>1, <1>4, AskSession DEF NextOf
<1>5. ASSUME NEW c \in Clients, Handle(c) PROVE SessionInv'
    BY <1>1, <1>5, TokenCredentialsSession, TokenUserSession, LoginCredentialsSession,
       LoginUserSession, LoginCheckSession, ServeSession, ReceiveSession DEF Handle
<1>6. ASSUME NEW i \in Ids, NEW d \in BOOLEAN, Write(i, d) PROVE SessionInv'
    BY <1>1, <1>6, WriteSession
<1>7. ASSUME NEW a \in Accounts, NEW n \in Names, NEW p \in Passwords, SaveUser(a, n, p)
      PROVE  SessionInv'
    BY <1>1, <1>7, SaveUserSession
<1>8. CASE Tick
    BY <1>1, <1>8, TickSession
<1>9. CASE UNCHANGED gatewayVars
    <2>1. UNCHANGED <<pc, found, checked, request, sent, token, logins, account, clock, answer>>
        BY <1>9 DEF gatewayVars, tableVars, clientVars, serverVars
    <2>2. QED
        BY <1>1, <2>1, OthersKeepSession DEF SessionInv, GuardTypeOK
<1>10. QED
    BY <1>1, <1>2, <1>3, <1>4, <1>5, <1>6, <1>7, <1>8, <1>9 DEF GatewayNext

\* What the guard knows of every request and token, always.
THEOREM GuardInvariant == GatewaySpec => []SessionInv
    BY InitSession, NextSession, PTL DEF GatewaySpec

\* A guarded route runs only for a token a login gave to the user it names, less
\* than its validity before the guard looked at it (JwtTokenGuardAuthenticator).
THEOREM SessionIsBacked == GatewaySpec => []SessionBacked
<1>1. SessionInv => SessionBacked
    BY DEF SessionInv, GuardInv, ClientInv, SessionBacked, Admitted
<1>2. QED
    BY <1>1, GuardInvariant, PTL

-----------------------------------------------------------------------------
(* Answers.                                                                *)

\* What may have been written when a request is answered.
Answered(r, a) ==
    \/ Len(a) = 1
    \/ a = <<404, 500>> /\ r.path = "one"
    \/ a = <<412, 500>> /\ r.path = "revisions"

\* Nothing is written before that, so guard and route cannot both answer.
AnswerAt(c) ==
    /\ pc[c] = "answered" => Answered(request[c], answer[c])
    /\ pc[c] # "answered" => answer[c] = <<>>

AnswerInv == \A c \in Clients : AnswerAt(c)

\* Only the request of c is touched.
Touches(c) ==
    /\ \E label \in Labels : pc' = [pc EXCEPT ![c] = label]
    /\ \A d \in Clients \ {c} : answer'[d] = answer[d] /\ request'[d] = request[d]

LEMMA TouchKeepsAnswers ==
    ASSUME SessionInv, AnswerInv, NEW c \in Clients, Touches(c), AnswerAt(c)'
    PROVE  AnswerInv'
<1>1. ASSUME NEW d \in Clients \ {c} PROVE AnswerAt(d)'
    <2>1. AnswerAt(d) /\ answer'[d] = answer[d] /\ request'[d] = request[d]
        BY DEF AnswerInv, Touches
    <2>2. pc'[d] = pc[d]
        BY DEF Touches, SessionInv, GuardTypeOK
    <2>3. QED
        BY <2>1, <2>2 DEF AnswerAt
<1>2. QED
    BY <1>1 DEF AnswerInv

\* A step that goes on with the request writes nothing, and one that answers it
\* writes the first status.
PassesTo(c, label) == pc' = [pc EXCEPT ![c] = label] /\ UNCHANGED answer

Ends(c, code) == pc' = [pc EXCEPT ![c] = "answered"] /\ Responds(c, code)

LEMMA PassesOn ==
    ASSUME SessionInv, AnswerInv, NEW c \in Clients, UNCHANGED request,
           pc[c] # "answered",
           \/ \E label \in Labels \ {"answered"} : PassesTo(c, label)
           \/ \E code \in Nat : Ends(c, code)
    PROVE  AnswerInv'
<1>1. answer[c] = <<>>
    BY DEF AnswerInv, AnswerAt
<1>2. ASSUME NEW label \in Labels \ {"answered"}, PassesTo(c, label) PROVE AnswerInv'
    <2>1. AnswerAt(c)'
        BY <1>1, <1>2 DEF PassesTo, AnswerAt, SessionInv, GuardTypeOK
    <2>2. Touches(c)
        BY <1>2 DEF PassesTo, Touches
    <2>3. QED
        BY <2>1, <2>2, TouchKeepsAnswers
<1>3. ASSUME NEW code \in Nat, Ends(c, code) PROVE AnswerInv'
    <2>1. answer'[c] = <<code>> /\ pc'[c] = "answered"
        BY <1>1, <1>3 DEF Ends, Responds, SessionInv, GuardTypeOK
    <2>2. AnswerAt(c)'
        BY <2>1 DEF AnswerAt, Answered
    <2>3. Touches(c)
        BY <1>3 DEF Ends, Responds, Touches, Labels, SessionInv, GuardTypeOK
    <2>4. QED
        BY <2>2, <2>3, TouchKeepsAnswers
<1>4. QED
    BY <1>2, <1>3

LEMMA GuardAnswers ==
    ASSUME SessionInv, AnswerInv, NEW c \in Clients,
           \/ TokenCredentials(c) \/ TokenUser(c) \/ LoginCredentials(c)
           \/ LoginUser(c) \/ LoginCheck(c)
    PROVE  AnswerInv'
<1>1. pc[c] # "answered" /\ UNCHANGED request
    BY DEF TokenCredentials, TokenUser, LoginCredentials, LoginUser, LoginCheck, At, clientVars
<1>2. TokenCredentials(c) => PassesTo(c, "login") \/ PassesTo(c, "tokenUser") \/ Ends(c, 403)
    BY DEF TokenCredentials, Goto, Forbid, PassesTo, Ends
<1>3. TokenUser(c) => PassesTo(c, "route") \/ Ends(c, 403)
    BY DEF TokenUser, Goto, Forbid, PassesTo, Ends
<1>4. LoginCredentials(c) => PassesTo(c, "route") \/ PassesTo(c, "loginUser")
    BY DEF LoginCredentials, Goto, PassesTo
<1>5. LoginUser(c) => PassesTo(c, "loginCheck") \/ Ends(c, 403)
    BY DEF LoginUser, Goto, Forbid, PassesTo, Ends
<1>6. LoginCheck(c) => Ends(c, 200) \/ Ends(c, 403)
    BY DEF LoginCheck, Goto, Forbid, AfterLogin, Ends
<1>7. \/ \E label \in Labels \ {"answered"} : PassesTo(c, label)
      \/ \E code \in Nat : Ends(c, code)
    <2>1. {"login", "tokenUser", "route", "loginUser", "loginCheck"}
              \subseteq Labels \ {"answered"}
        BY DEF Labels
    <2>2. 200 \in Nat /\ 403 \in Nat
        OBVIOUS
    <2>3. QED
        BY <1>2, <1>3, <1>4, <1>5, <1>6, <2>1, <2>2
<1>8. QED
    BY <1>1, <1>7, PassesOn

LEMMA RouteAnswers ==
    ASSUME SessionInv, AnswerInv, NEW c \in Clients,
           ServeList(c) \/ ServeRevisions(c) \/ ServeOne(c) \/ ServeLogin(c)
    PROVE  AnswerInv'
<1>1. /\ pc[c] # "answered" /\ UNCHANGED request
      /\ pc' = [pc EXCEPT ![c] = "answered"]
    BY DEF ServeList, ServeRevisions, ServeOne, ServeLogin, RouteTo, At, Goto, Frame
<1>2. \/ Responds(c, 412) \/ Responds(c, 500) \/ Responds(c, 200)
      \/ answer' = [answer EXCEPT ![c] = @ \o <<412, 500>>] /\ request[c].path = "revisions"
      \/ answer' = [answer EXCEPT ![c] = @ \o <<404, 500>>] /\ request[c].path = "one"
    BY DEF ServeList, ServeRevisions, ServeOne, ServeLogin, RouteTo
<1>3. CASE Responds(c, 412) \/ Responds(c, 500) \/ Responds(c, 200)
    <2>1. Ends(c, 412) \/ Ends(c, 500) \/ Ends(c, 200)
        BY <1>1, <1>3 DEF Ends
    <2>2. 412 \in Nat /\ 500 \in Nat /\ 200 \in Nat
        OBVIOUS
    <2>3. \E code \in Nat : Ends(c, code)
        BY <2>1, <2>2
    <2>4. QED
        BY <1>1, <2>3, PassesOn
<1>4. answer[c] = <<>> /\ pc'[c] = "answered"
    BY <1>1 DEF AnswerInv, AnswerAt, SessionInv, GuardTypeOK
<1>5. ASSUME NEW two, two \in {<<412, 500>>, <<404, 500>>},
             answer' = [answer EXCEPT ![c] = @ \o two],
             request[c].path = IF two = <<404, 500>> THEN "one" ELSE "revisions"
      PROVE  AnswerInv'
    <2>1. answer'[c] = two
        BY <1>4, <1>5 DEF SessionInv, GuardTypeOK
    <2>2. AnswerAt(c)'
        BY <1>1, <1>4, <1>5, <2>1 DEF AnswerAt, Answered
    <2>3. Touches(c)
        BY <1>1, <1>5 DEF Touches, Labels, SessionInv, GuardTypeOK
    <2>4. QED
        BY <2>2, <2>3, TouchKeepsAnswers
<1>6. CASE answer' = [answer EXCEPT ![c] = @ \o <<412, 500>>] /\ request[c].path = "revisions"
    <2>1. <<412, 500>> # <<404, 500>>
        OBVIOUS
    <2>2. QED
        BY <1>5, <1>6, <2>1, ZenonT(40)
<1>7. CASE answer' = [answer EXCEPT ![c] = @ \o <<404, 500>>] /\ request[c].path = "one"
    BY <1>5, <1>7, ZenonT(40)
<1>8. QED
    BY <1>2, <1>3, <1>6, <1>7

LEMMA NextAnswers ==
    SessionInv /\ AnswerInv /\ [GatewayNext]_gatewayVars => AnswerInv'
<1>1. SUFFICES ASSUME SessionInv, AnswerInv, [GatewayNext]_gatewayVars PROVE AnswerInv'
    OBVIOUS
<1>2. ASSUME NEW c \in Clients, NEW r, Ask(c, r) PROVE AnswerInv'
    <2>1. /\ pc[c] = "idle" /\ UNCHANGED answer
          /\ pc' = [pc EXCEPT ![c] = "token"] /\ request' = [request EXCEPT ![c] = r]
        BY <1>2 DEF Ask, At, Goto
    <2>2. AnswerAt(c)'
        BY <1>1, <2>1 DEF AnswerInv, AnswerAt, SessionInv, GuardTypeOK
    <2>3. Touches(c)
        BY <1>1, <2>1 DEF Touches, Labels, SessionInv, GuardTypeOK
    <2>4. QED
        BY <1>1, <2>2, <2>3, TouchKeepsAnswers
<1>3. ASSUME NEW c \in Clients, Receive(c) PROVE AnswerInv'
    <2>1. /\ pc' = [pc EXCEPT ![c] = "idle"] /\ request' = [request EXCEPT ![c] = None]
          /\ answer' = [answer EXCEPT ![c] = <<>>]
        BY <1>3 DEF Receive, Goto
    <2>2. AnswerAt(c)'
        BY <1>1, <2>1 DEF AnswerAt, SessionInv, GuardTypeOK
    <2>3. Touches(c)
        BY <1>1, <2>1 DEF Touches, Labels, SessionInv, GuardTypeOK
    <2>4. QED
        BY <1>1, <2>2, <2>3, TouchKeepsAnswers
<1>4. ASSUME NEW c \in Clients, Handle(c) PROVE AnswerInv'
    BY <1>1, <1>3, <1>4, GuardAnswers, RouteAnswers DEF Handle
<1>5. ASSUME UNCHANGED <<pc, request, answer>> PROVE AnswerInv'
    BY <1>1, <1>5 DEF AnswerInv, AnswerAt
<1>6. ASSUME NEW i \in Ids, NEW d \in BOOLEAN, Write(i, d) PROVE AnswerInv'
    BY <1>5, <1>6 DEF Write, serverVars
<1>7. ASSUME NEW a \in Accounts, NEW n \in Names, NEW p \in Passwords, SaveUser(a, n, p)
      PROVE  AnswerInv'
    BY <1>5, <1>7 DEF SaveUser, Others, clientVars, serverVars
<1>8. CASE Tick \/ UNCHANGED gatewayVars
    BY <1>5, <1>8 DEF Tick, Others, gatewayVars, clientVars, serverVars
<1>9. ASSUME NEW c \in Clients, NEW r, Send(c, r) \/ StartWalk(c, r) PROVE AnswerInv'
    BY <1>2, <1>9 DEF Send, StartWalk
<1>10. ASSUME NEW c \in Clients, NextOf(c) PROVE AnswerInv'
    BY <1>2, <1>10 DEF NextOf
<1>11. QED
    BY <1>1, <1>4, <1>6, <1>7, <1>8, <1>9, <1>10 DEF GatewayNext

\* A request is answered once, by the guard or by its route and never by both,
\* but for the two answers that a route writes twice (GetGuardMiddleware).
THEOREM AnsweredOnce == GatewaySpec => []OneAnswer
<1>1. GatewayInit => AnswerInv
    BY DEF GatewayInit, AnswerInv, AnswerAt
<1>2. AnswerInv => OneAnswer
    <2>1. ASSUME NEW c \in Clients, AnswerInv, Len(answer[c]) > 1
          PROVE  /\ answer[c] \in {<<404, 500>>, <<412, 500>>}
                 /\ request[c].path = IF answer[c][1] = 404 THEN "one" ELSE "revisions"
        <3>1. answer[c] # <<>> /\ Len(answer[c]) # 1
            <4>1. CASE answer[c] = <<>>
                <5>1. Len(answer[c]) = 0
                    BY <4>1
                <5>2. QED
                    BY <2>1, <5>1
            <4>2. CASE Len(answer[c]) = 1
                BY <2>1, <4>2
            <4>3. QED
                BY <4>1, <4>2
        <3>2. Answered(request[c], answer[c])
            BY <2>1, <3>1 DEF AnswerInv, AnswerAt
        <3>3. \/ answer[c] = <<404, 500>> /\ request[c].path = "one"
              \/ answer[c] = <<412, 500>> /\ request[c].path = "revisions"
            BY <3>1, <3>2 DEF Answered
        <3>4. <<404, 500>>[1] = 404 /\ <<412, 500>>[1] = 412
            OBVIOUS
        <3>5. QED
            BY <3>3, <3>4
    <2>2. QED
        BY <2>1 DEF OneAnswer
<1>3. QED
    BY <1>1, <1>2, GuardInvariant, NextAnswers, PTL DEF GatewaySpec

-----------------------------------------------------------------------------
(* The pages of Api.Find, for every page size and every list of rows       *)
(* shorter than the integers are wide: the pages a client reads by         *)
(* following "next" are the list, cut into pieces.                         *)

\* No offset wraps on the way through the list.
LEMMA OffsetExact ==
    ASSUME NEW page \in Nat \ {0}, NEW perPage \in Nat, (page - 1) * perPage < Wrap
    PROVE  /\ Offset(page, perPage) = (page - 1) * perPage
           /\ Offset(page, perPage) \in Nat
<1> DEFINE x == (page - 1) * perPage
<1>1. x \in Nat
    <2>1. page - 1 \in Nat
        OBVIOUS
    <2>2. QED
        BY <2>1
<1> HIDE DEF x
<1>2. Wrap \in Nat /\ Wrap > 0
    BY SearchAssumption
<1>3. x < Wrap
    BY DEF x
<1>4. x % Wrap = x
    BY <1>1, <1>2, <1>3
<1>5. QED
    BY <1>1, <1>4 DEF Offset, x

\* The page holds the rows from its offset on, and "next" is set when there are
\* more of them.
LEMMA PageOfList ==
    ASSUME NEW S, NEW rows \in Seq(S), NEW page \in Nat \ {0}, NEW perPage \in Nat \ {0},
           (page - 1) * perPage < Wrap, (page - 1) * perPage <= Len(rows)
    PROVE  LET from == (page - 1) * perPage
               elements == Elements(rows, page, perPage)
           IN /\ elements \in Seq(S)
              /\ Len(elements) = IF from + perPage < Len(rows) THEN perPage
                                 ELSE Len(rows) - from
              /\ \A k \in 1..Len(elements) : elements[k] = rows[from + k]
              /\ NextPage(rows, page, perPage) =
                     IF from + perPage < Len(rows) THEN page + 1 ELSE 0
<1> DEFINE from == (page - 1) * perPage
           end == IF from + (perPage + 1) < Len(rows) THEN from + (perPage + 1)
                  ELSE Len(rows)
           list == SubSeq(rows, from + 1, end)
<1>1. from \in Nat /\ Offset(page, perPage) = from
    BY OffsetExact
<1>2. from <= Len(rows) /\ Len(rows) \in Nat
    OBVIOUS
<1> HIDE DEF from
<1>3. end \in from..Len(rows) /\ end \in Nat
    BY <1>1, <1>2
<1>4. /\ list \in Seq(S) /\ Len(list) = end - from
      /\ \A k \in 1..(end - from) : list[k] = rows[from + k]
    BY <1>1, <1>2, <1>3
<1>5. FindBy(rows, Offset(page, perPage), perPage + 1) = list
    BY <1>1 DEF FindBy
<1> HIDE DEF list
<1>6. Len(list) > perPage <=> from + perPage < Len(rows)
    BY <1>1, <1>2, <1>4
<1> DEFINE n == IF Len(list) > perPage THEN perPage ELSE Len(list)
<1>7. n \in 0..Len(list) /\ n \in Nat
    BY <1>1, <1>3, <1>4
<1>8. Elements(rows, page, perPage) = SubSeq(list, 1, n)
    BY <1>5 DEF Elements
<1>9. n = IF from + perPage < Len(rows) THEN perPage ELSE Len(rows) - from
    BY <1>1, <1>2, <1>4, <1>6
<1> HIDE DEF n
<1>10. /\ SubSeq(list, 1, n) \in Seq(S) /\ Len(SubSeq(list, 1, n)) = n
       /\ \A k \in 1..n : SubSeq(list, 1, n)[k] = list[k]
    BY <1>4, <1>7
<1>11. \A k \in 1..n : list[k] = rows[from + k]
    BY <1>1, <1>3, <1>4, <1>7
<1>12. NextPage(rows, page, perPage) = IF from + perPage < Len(rows) THEN page + 1 ELSE 0
    BY <1>5, <1>6 DEF NextPage
<1>13. QED
    BY <1>8, <1>9, <1>10, <1>11, <1>12 DEF from

-----------------------------------------------------------------------------
(* Induction over numbers and over sequences, as sets of them.             *)

LEMMA LeastNumber ==
    ASSUME NEW T \in SUBSET Nat, T # {}
    PROVE  \E n \in T : \A m \in T : n <= m
<1>1. PICK n \in T : \A m \in T : <<m, n>> \notin OpToRel(<, Nat)
    BY WFMin, NatLessThanWellFounded
<1>2. \A m \in T : ~(m < n)
    BY <1>1 DEF OpToRel
<1>3. QED
    BY <1>2

LEMMA AllNumbers ==
    ASSUME NEW T \in SUBSET Nat, 0 \in T, \A n \in T : n + 1 \in T
    PROVE  \A n \in Nat : n \in T
<1>1. SUFFICES ASSUME Nat \ T # {} PROVE FALSE
    OBVIOUS
<1>2. PICK n \in Nat \ T : \A m \in Nat \ T : n <= m
    BY <1>1, LeastNumber
<1>3. n - 1 \in Nat /\ n - 1 \in T
    BY <1>2
<1>4. QED
    BY <1>2, <1>3

LEMMA LastOff ==
    ASSUME NEW S, NEW s \in Seq(S), NEW n \in Nat, Len(s) = n + 1
    PROVE  \E front \in Seq(S), last \in S : s = Append(front, last) /\ Len(front) = n
<1> DEFINE front == SubSeq(s, 1, n)
<1>1. front \in Seq(S) /\ Len(front) = n /\ \A k \in 1..n : front[k] = s[k]
    OBVIOUS
<1>2. s[n + 1] \in S
    OBVIOUS
<1> HIDE DEF front
<1>3. s = Append(front, s[n + 1])
    BY <1>1, <1>2
<1>4. QED
    BY <1>1, <1>2, <1>3

LEMMA AllSequences ==
    ASSUME NEW S, NEW T \in SUBSET Seq(S), <<>> \in T,
           \A s \in T, x \in S : Append(s, x) \in T
    PROVE  \A s \in Seq(S) : s \in T
<1> DEFINE N == {n \in Nat : \A s \in Seq(S) : Len(s) = n => s \in T}
<1>1. 0 \in N
    OBVIOUS
<1>2. ASSUME NEW n \in N PROVE n + 1 \in N
    <2>1. ASSUME NEW s \in Seq(S), Len(s) = n + 1 PROVE s \in T
        <3>1. PICK front \in Seq(S), last \in S : s = Append(front, last) /\ Len(front) = n
            BY <2>1, LastOff
        <3>2. QED
            BY <3>1
    <2>2. QED
        BY <2>1
<1> HIDE DEF N
<1>3. \A n \in Nat : n \in N
    BY <1>1, <1>2, AllNumbers DEF N
<1>4. ASSUME NEW s \in Seq(S) PROVE s \in T
    <2>1. Len(s) \in Nat
        OBVIOUS
    <2>2. QED
        BY <1>3, <2>1 DEF N
<1>5. QED
    BY <1>4

-----------------------------------------------------------------------------
(* The rows that a query selects.                                          *)

\* g has the rows picked from the first so many of a table.
Upto(S, table, kept, n, g) ==
    /\ g \in [0..n -> Seq(S)] /\ g[0] = <<>>
    /\ \A k \in 0..n - 1 :
          g[k + 1] = IF table[k + 1] \in kept THEN Append(g[k], table[k + 1]) ELSE g[k]

LEMMA UptoExtends ==
    ASSUME NEW S, NEW table, NEW kept, NEW n \in Nat, NEW g, Upto(S, table, kept, n, g),
           table[n + 1] \in S
    PROVE  \E h : Upto(S, table, kept, n + 1, h) /\ h[n] = g[n]
<1> DEFINE next == IF table[n + 1] \in kept THEN Append(g[n], table[n + 1]) ELSE g[n]
           h == [k \in 0..n + 1 |-> IF k = n + 1 THEN next ELSE g[k]]
<1>1. next \in Seq(S)
    BY DEF Upto
<1>2. h \in [0..n + 1 -> Seq(S)] /\ h[n + 1] = next /\ \A k \in 0..n : h[k] = g[k]
    BY <1>1 DEF Upto
<1> HIDE DEF h
<1>3. ASSUME NEW k \in 0..n
      PROVE  h[k + 1] = IF table[k + 1] \in kept THEN Append(h[k], table[k + 1]) ELSE h[k]
    <2>1. CASE k = n
        BY <1>2, <2>1
    <2>2. CASE k # n
        BY <1>2, <2>2 DEF Upto
    <2>3. QED
        BY <2>1, <2>2
<1>4. Upto(S, table, kept, n + 1, h)
    <2>1. h[0] = <<>>
        BY <1>2 DEF Upto
    <2>2. (n + 1) - 1 = n
        OBVIOUS
    <2>3. QED
        BY <1>2, <1>3, <2>1, <2>2 DEF Upto
<1>5. h[n] = g[n]
    <2>1. n \in 0..n
        OBVIOUS
    <2>2. QED
        BY <1>2, <2>1
<1>6. QED
    BY <1>4, <1>5

LEMMA UptoExists ==
    ASSUME NEW S, NEW table \in Seq(S), NEW kept
    PROVE  \E g : Upto(S, table, kept, Len(table), g)
<1> DEFINE T == {n \in Nat : n <= Len(table) => \E g : Upto(S, table, kept, n, g)}
<1>1. 0 \in T
    <2> DEFINE g == [k \in 0..0 |-> <<>>]
    <2>1. Upto(S, table, kept, 0, g)
        BY DEF Upto
    <2>2. QED
        BY <2>1
<1>2. ASSUME NEW n \in T PROVE n + 1 \in T
    <2>1. SUFFICES ASSUME n + 1 <= Len(table) PROVE \E g : Upto(S, table, kept, n + 1, g)
        OBVIOUS
    <2>2. PICK g : Upto(S, table, kept, n, g)
        BY <2>1
    <2>3. table[n + 1] \in S
        BY <2>1
    <2>4. QED
        BY <2>2, <2>3, UptoExtends
<1> HIDE DEF T
<1>3. \A n \in Nat : n \in T
    BY <1>1, <1>2, AllNumbers DEF T
<1>4. Len(table) \in Nat
    OBVIOUS
<1>5. QED
    BY <1>3, <1>4 DEF T

\* Any two such functions agree.
LEMMA UptoUnique ==
    ASSUME NEW S, NEW table, NEW kept, NEW n \in Nat, NEW g, NEW h,
           Upto(S, table, kept, n, g),
           h[0] = <<>>,
           \A k \in 0..n - 1 :
              h[k + 1] = IF table[k + 1] \in kept THEN Append(h[k], table[k + 1]) ELSE h[k]
    PROVE  h[n] = g[n]
<1> DEFINE T == {k \in Nat : k <= n => h[k] = g[k]}
<1>1. 0 \in T
    BY DEF Upto
<1>2. ASSUME NEW k \in T PROVE k + 1 \in T
    <2>1. SUFFICES ASSUME k + 1 <= n PROVE h[k + 1] = g[k + 1]
        OBVIOUS
    <2>2. k \in 0..n - 1 /\ h[k] = g[k]
        BY <2>1
    <2>3. h[k + 1] = IF table[k + 1] \in kept THEN Append(h[k], table[k + 1]) ELSE h[k]
        BY <2>2
    <2>4. g[k + 1] = IF table[k + 1] \in kept THEN Append(g[k], table[k + 1]) ELSE g[k]
        BY <2>2 DEF Upto
    <2>5. QED
        BY <2>2, <2>3, <2>4
<1> HIDE DEF T
<1>3. \A k \in Nat : k \in T
    BY <1>1, <1>2, AllNumbers DEF T
<1>4. QED
    BY <1>3 DEF T

LEMMA PickedIs ==
    ASSUME NEW S, NEW table \in Seq(S), NEW kept, NEW g, Upto(S, table, kept, Len(table), g)
    PROVE  Picked(table, kept) = g[Len(table)]
<1> DEFINE N == Len(table)
           upto == CHOOSE f : f = [k \in 0..N |->
                      IF k = 0 THEN <<>>
                      ELSE IF table[k] \in kept THEN Append(f[k - 1], table[k]) ELSE f[k - 1]]
<1>1. N \in Nat
    OBVIOUS
<1>2. g = [k \in 0..N |->
              IF k = 0 THEN <<>>
              ELSE IF table[k] \in kept THEN Append(g[k - 1], table[k]) ELSE g[k - 1]]
    <2>1. g = [k \in 0..N |-> g[k]]
        BY DEF Upto
    <2>2. ASSUME NEW k \in 0..N
          PROVE  g[k] = IF k = 0 THEN <<>>
                        ELSE IF table[k] \in kept THEN Append(g[k - 1], table[k]) ELSE g[k - 1]
        <3>1. CASE k = 0
            BY <3>1 DEF Upto
        <3>2. CASE k # 0
            <4>1. k - 1 \in 0..N - 1 /\ (k - 1) + 1 = k
                BY <1>1, <3>2
            <4>2. g[(k - 1) + 1] = IF table[(k - 1) + 1] \in kept
                                   THEN Append(g[k - 1], table[(k - 1) + 1]) ELSE g[k - 1]
                BY <4>1 DEF Upto
            <4>3. QED
                BY <3>2, <4>1, <4>2
        <3>3. QED
            BY <3>1, <3>2
    <2> HIDE DEF N
    <2>3. QED
        BY <2>1, <2>2
<1>3. upto = [k \in 0..N |->
                 IF k = 0 THEN <<>>
                 ELSE IF table[k] \in kept THEN Append(upto[k - 1], table[k]) ELSE upto[k - 1]]
    BY <1>2
<1>4. Picked(table, kept) = upto[N]
    BY DEF Picked
<1> HIDE DEF upto
<1>5. upto[0] = <<>>
    BY <1>1, <1>3
<1>6. ASSUME NEW k \in 0..N - 1
      PROVE  upto[k + 1] = IF table[k + 1] \in kept THEN Append(upto[k], table[k + 1]) ELSE upto[k]
    <2>1. k + 1 \in 0..N /\ k + 1 # 0 /\ (k + 1) - 1 = k
        BY <1>1
    <2>2. QED
        BY <1>3, <2>1
<1>7. upto[N] = g[N]
    BY <1>1, <1>5, <1>6, UptoUnique
<1>8. QED
    BY <1>4, <1>7

\* A table is queried row by row.
LEMMA PickedEmpty == ASSUME NEW kept PROVE Picked(<<>>, kept) = <<>>
<1>1. <<>> \in Seq({}) /\ Len(<<>>) = 0
    OBVIOUS
<1>2. PICK g : Upto({}, <<>>, kept, Len(<<>>), g)
    BY <1>1, UptoExists
<1>3. Picked(<<>>, kept) = g[Len(<<>>)]
    BY <1>1, <1>2, PickedIs
<1>4. g[0] = <<>>
    BY <1>2 DEF Upto
<1>5. QED
    BY <1>1, <1>3, <1>4

LEMMA PickedIn ==
    ASSUME NEW S, NEW table \in Seq(S), NEW kept
    PROVE  Picked(table, kept) \in Seq(S)
<1>1. Len(table) \in Nat /\ Len(table) \in 0..Len(table)
    OBVIOUS
<1>2. PICK g : Upto(S, table, kept, Len(table), g)
    BY UptoExists
<1>3. g[Len(table)] \in Seq(S)
    BY <1>1, <1>2 DEF Upto
<1>4. QED
    BY <1>2, <1>3, PickedIs

LEMMA PickedGrows ==
    ASSUME NEW S, NEW table \in Seq(S), NEW row \in S, NEW kept
    PROVE  Picked(Append(table, row), kept) =
              IF row \in kept THEN Append(Picked(table, kept), row) ELSE Picked(table, kept)
<1>2. PICK n \in Nat, longer \in Seq(S) : n = Len(table) /\ longer = Append(table, row)
    <2>1. Append(table, row) \in Seq(S) /\ Len(table) \in Nat
        OBVIOUS
    <2>2. QED
        BY <2>1
<1>3. /\ Len(longer) = n + 1 /\ longer[n + 1] = row
      /\ \A k \in 1..n : longer[k] = table[k]
    BY <1>2
<1>4. PICK g : Upto(S, table, kept, n, g)
    BY <1>2, UptoExists
<1>5. Picked(table, kept) = g[n]
    BY <1>2, <1>4, PickedIs
<1>6. Upto(S, longer, kept, n, g)
    <2>1. ASSUME NEW k \in 0..n - 1 PROVE longer[k + 1] = table[k + 1]
        <3>1. k + 1 \in 1..n
            OBVIOUS
        <3>2. QED
            BY <1>3, <3>1
    <2>2. QED
        BY <1>4, <2>1 DEF Upto
<1>7. PICK h : Upto(S, longer, kept, n + 1, h) /\ h[n] = g[n]
    <2>1. longer[n + 1] \in S
        BY <1>3
    <2>2. QED
        BY <1>6, <2>1, UptoExtends
<1>8. Picked(longer, kept) = h[n + 1]
    BY <1>3, <1>7, PickedIs
<1>9. h[n + 1] = IF row \in kept THEN Append(h[n], row) ELSE h[n]
    <2>1. n \in 0..(n + 1) - 1
        OBVIOUS
    <2>2. \A k \in 0..(n + 1) - 1 :
             h[k + 1] = IF longer[k + 1] \in kept THEN Append(h[k], longer[k + 1]) ELSE h[k]
        BY <1>7 DEF Upto
    <2>3. h[n + 1] = IF longer[n + 1] \in kept THEN Append(h[n], longer[n + 1]) ELSE h[n]
        BY <2>1, <2>2
    <2>4. QED
        BY <1>3, <2>3
<1>10. QED
    BY <1>2, <1>5, <1>7, <1>8, <1>9

\* The rows that are picked are those of the table that are kept.
LEMMA RowsGrow ==
    ASSUME NEW S, NEW table \in Seq(S), NEW row \in S
    PROVE  Rows(<<>>) = {} /\ Rows(table) \subseteq S
           /\ Rows(Append(table, row)) = Rows(table) \cup {row}
<1>1. Rows(<<>>) = {} /\ Rows(table) \subseteq S
    BY DEF Rows
<1>2. PICK n \in Nat, longer \in Seq(S) : n = Len(table) /\ longer = Append(table, row)
    <2>1. Append(table, row) \in Seq(S) /\ Len(table) \in Nat
        OBVIOUS
    <2>2. QED
        BY <2>1
<1>3. Len(longer) = n + 1 /\ longer[n + 1] = row /\ \A k \in 1..n : longer[k] = table[k]
    BY <1>2
<1>4. ASSUME NEW x \in Rows(longer) PROVE x \in Rows(table) \cup {row}
    <2>1. PICK k \in 1..n + 1 : x = longer[k]
        BY <1>3 DEF Rows
    <2>2. CASE k = n + 1
        BY <1>3, <2>1, <2>2
    <2>3. CASE k # n + 1
        <3>1. k \in 1..n
            BY <2>3
        <3>2. x = table[k]
            BY <1>3, <2>1, <3>1
        <3>3. QED
            BY <1>2, <3>1, <3>2 DEF Rows
    <2>4. QED
        BY <2>2, <2>3
<1>5. ASSUME NEW x \in Rows(table) PROVE x \in Rows(longer)
    <2>1. PICK k \in 1..n : x = table[k]
        BY <1>2 DEF Rows
    <2>2. x = longer[k] /\ k \in 1..n + 1
        BY <1>3, <2>1
    <2>3. QED
        BY <1>3, <2>2 DEF Rows
<1>6. row \in Rows(longer)
    <2>1. n + 1 \in 1..n + 1
        OBVIOUS
    <2>2. QED
        BY <1>3, <2>1 DEF Rows
<1>7. QED
    BY <1>1, <1>2, <1>4, <1>5, <1>6

LEMMA PickedRows ==
    ASSUME NEW S, NEW table \in Seq(S), NEW kept
    PROVE  Rows(Picked(table, kept)) = Rows(table) \cap kept
<1> DEFINE T == {s \in Seq(S) : Rows(Picked(s, kept)) = Rows(s) \cap kept}
<1>1. <<>> \in T
    <2>1. <<>> \in Seq(S) /\ Rows(<<>>) = {}
        BY DEF Rows
    <2>2. QED
        BY <2>1, PickedEmpty
<1>2. ASSUME NEW s \in T, NEW x \in S PROVE Append(s, x) \in T
    <2>1. s \in Seq(S) /\ Append(s, x) \in Seq(S) /\ Rows(Picked(s, kept)) = Rows(s) \cap kept
        OBVIOUS
    <2> HIDE DEF T
    <2>2. /\ Picked(s, kept) \in Seq(S)
          /\ Picked(Append(s, x), kept) =
                IF x \in kept THEN Append(Picked(s, kept), x) ELSE Picked(s, kept)
        BY <2>1, PickedIn, PickedGrows
    <2>3. Rows(Append(s, x)) = Rows(s) \cup {x}
        BY <2>1, RowsGrow
    <2>4. Rows(Append(Picked(s, kept), x)) = Rows(Picked(s, kept)) \cup {x}
        BY <2>2, RowsGrow
    <2>5. Rows(Picked(Append(s, x), kept)) = Rows(Append(s, x)) \cap kept
        <3>1. CASE x \in kept
            BY <2>1, <2>2, <2>3, <2>4, <3>1
        <3>2. CASE x \notin kept
            BY <2>1, <2>2, <2>3, <3>2
        <3>3. QED
            BY <3>1, <3>2
    <2>6. QED
        BY <2>1, <2>5 DEF T
<1> HIDE DEF T
<1>3. \A s \in Seq(S) : s \in T
    <2>1. T \in SUBSET Seq(S)
        BY DEF T
    <2>2. QED
        BY <1>1, <1>2, <2>1, AllSequences
<1>4. QED
    BY <1>3 DEF T

LEMMA PickedLength ==
    ASSUME NEW S, NEW table \in Seq(S), NEW kept
    PROVE  /\ Picked(table, kept) \in Seq(S)
           /\ Len(Picked(table, kept)) <= Len(table)
           /\ Rows(table) \subseteq kept => Picked(table, kept) = table
<1> DEFINE T == {s \in Seq(S) : /\ Picked(s, kept) \in Seq(S)
                                /\ Len(Picked(s, kept)) <= Len(s)
                                /\ Rows(s) \subseteq kept => Picked(s, kept) = s}
<1>1. <<>> \in T
    <2>1. <<>> \in Seq(S) /\ Len(<<>>) = 0
        OBVIOUS
    <2>2. Picked(<<>>, kept) = <<>>
        BY PickedEmpty
    <2>3. Len(Picked(<<>>, kept)) <= Len(<<>>)
        BY <2>1, <2>2
    <2>4. Picked(<<>>, kept) \in Seq(S)
        BY <2>1, <2>2
    <2>5. QED
        BY <2>1, <2>2, <2>3, <2>4, Zenon
<1>2. ASSUME NEW s \in T, NEW x \in S PROVE Append(s, x) \in T
    <2>1. /\ s \in Seq(S) /\ Append(s, x) \in Seq(S) /\ Picked(s, kept) \in Seq(S)
          /\ Len(Picked(s, kept)) <= Len(s)
          /\ Rows(s) \subseteq kept => Picked(s, kept) = s
        OBVIOUS
    <2> HIDE DEF T
    <2>2. Picked(Append(s, x), kept) = IF x \in kept THEN Append(Picked(s, kept), x)
                                       ELSE Picked(s, kept)
        BY <2>1, PickedGrows
    <2>3. Rows(Append(s, x)) = Rows(s) \cup {x}
        BY <2>1, RowsGrow
    <2>4. PICK p \in Seq(S) : p = Picked(s, kept)
        BY <2>1
    <2>5. /\ Len(Append(s, x)) = Len(s) + 1 /\ Len(Append(p, x)) = Len(p) + 1
          /\ Append(p, x) \in Seq(S) /\ Len(p) \in Nat /\ Len(s) \in Nat
        BY <2>1
    <2>6. CASE x \in kept
        <3>1. Picked(Append(s, x), kept) = Append(p, x)
            BY <2>2, <2>4, <2>6
        <3>2. Rows(Append(s, x)) \subseteq kept => Append(p, x) = Append(s, x)
            BY <2>1, <2>3, <2>4
        <3>3. QED
            BY <2>1, <2>4, <2>5, <3>1, <3>2 DEF T
    <2>7. CASE x \notin kept
        <3>1. Picked(Append(s, x), kept) = p
            BY <2>2, <2>4, <2>7
        <3>2. QED
            BY <2>1, <2>3, <2>4, <2>5, <2>7, <3>1 DEF T
    <2>8. QED
        BY <2>6, <2>7
<1> HIDE DEF T
<1>3. T \in SUBSET Seq(S)
    BY DEF T
<1>4. table \in T
    BY <1>1, <1>2, <1>3, AllSequences
<1>5. QED
    BY <1>4 DEF T

\* Only which rows of the table are kept matters.
LEMMA PickedSame ==
    ASSUME NEW S, NEW table \in Seq(S), NEW a, NEW b, S \cap a = S \cap b
    PROVE  Picked(table, a) = Picked(table, b)
<1> DEFINE T == {s \in Seq(S) : Picked(s, a) = Picked(s, b)}
<1>1. <<>> \in T
    BY PickedEmpty
<1>2. ASSUME NEW s \in T, NEW x \in S PROVE Append(s, x) \in T
    <2>1. s \in Seq(S) /\ Append(s, x) \in Seq(S) /\ Picked(s, a) = Picked(s, b)
        OBVIOUS
    <2> HIDE DEF T
    <2>2. Picked(Append(s, x), a) = IF x \in a THEN Append(Picked(s, a), x) ELSE Picked(s, a)
        BY <2>1, PickedGrows
    <2>3. Picked(Append(s, x), b) = IF x \in b THEN Append(Picked(s, b), x) ELSE Picked(s, b)
        BY <2>1, PickedGrows
    <2>4. x \in a <=> x \in b
        OBVIOUS
    <2>5. QED
        BY <2>1, <2>2, <2>3, <2>4 DEF T
<1> HIDE DEF T
<1>3. T \in SUBSET Seq(S)
    BY DEF T
<1>4. table \in T
    BY <1>1, <1>2, <1>3, AllSequences
<1>5. QED
    BY <1>4 DEF T

\* The order in which two conditions are applied does not matter.
LEMMA PickedTwice ==
    ASSUME NEW S, NEW table \in Seq(S), NEW a, NEW b
    PROVE  Picked(Picked(table, a), b) = Picked(table, a \cap b)
<1> DEFINE T == {s \in Seq(S) : Picked(Picked(s, a), b) = Picked(s, a \cap b)}
<1>1. <<>> \in T
    BY PickedEmpty
<1>2. ASSUME NEW s \in T, NEW x \in S PROVE Append(s, x) \in T
    <2>1. /\ s \in Seq(S) /\ Append(s, x) \in Seq(S)
          /\ Picked(Picked(s, a), b) = Picked(s, a \cap b)
        OBVIOUS
    <2> HIDE DEF T
    <2>2. PICK p \in Seq(S) : p = Picked(s, a)
        BY <2>1, PickedIn
    <2>3. Picked(Append(s, x), a) = IF x \in a THEN Append(p, x) ELSE p
        BY <2>1, <2>2, PickedGrows
    <2>4. Picked(Append(s, x), a \cap b) =
              IF x \in a \cap b THEN Append(Picked(s, a \cap b), x) ELSE Picked(s, a \cap b)
        BY <2>1, PickedGrows
    <2>5. Picked(Append(p, x), b) = IF x \in b THEN Append(Picked(p, b), x) ELSE Picked(p, b)
        BY <2>2, PickedGrows
    <2>6. Picked(p, b) = Picked(s, a \cap b)
        BY <2>1, <2>2
    <2>7. Picked(Picked(Append(s, x), a), b) = Picked(Append(s, x), a \cap b)
        <3>1. CASE x \in a
            <4>1. Picked(Append(s, x), a) = Append(p, x)
                BY <2>3, <3>1
            <4>2. CASE x \in b
                BY <2>4, <2>5, <2>6, <3>1, <4>1, <4>2
            <4>3. CASE x \notin b
                BY <2>4, <2>5, <2>6, <3>1, <4>1, <4>3
            <4>4. QED
                BY <4>2, <4>3
        <3>2. CASE x \notin a
            BY <2>3, <2>4, <2>6, <3>2
        <3>3. QED
            BY <3>1, <3>2
    <2>8. QED
        BY <2>1, <2>7 DEF T
<1> HIDE DEF T
<1>3. T \in SUBSET Seq(S)
    BY DEF T
<1>4. table \in T
    BY <1>1, <1>2, <1>3, AllSequences
<1>5. QED
    BY <1>4 DEF T

\* No two rows of a table have the same key.
Distinct(path, table) ==
    \A j, k \in 1..Len(table) : Key(path, table[j]) = Key(path, table[k]) => j = k

LEMMA DistinctGrows ==
    ASSUME NEW S, NEW table \in Seq(S), NEW row \in S, NEW path
    PROVE  Distinct(path, Append(table, row)) <=>
               /\ Distinct(path, table)
               /\ \A x \in Rows(table) : Key(path, x) # Key(path, row)
<1>1. PICK n \in Nat, longer \in Seq(S) : n = Len(table) /\ longer = Append(table, row)
    <2>1. Append(table, row) \in Seq(S) /\ Len(table) \in Nat
        OBVIOUS
    <2>2. QED
        BY <2>1
<1>2. /\ Len(longer) = n + 1 /\ longer[n + 1] = row
      /\ \A k \in 1..n : longer[k] = table[k] /\ k \in 1..n + 1
      /\ n + 1 \in 1..n + 1
    BY <1>1
<1>3. ASSUME Distinct(path, longer)
      PROVE  Distinct(path, table) /\ \A x \in Rows(table) : Key(path, x) # Key(path, row)
    <2>1. ASSUME NEW x \in Rows(table), Key(path, x) = Key(path, row) PROVE FALSE
        <3>1. PICK k \in 1..n : x = table[k]
            BY <1>1, <2>1 DEF Rows
        <3>2. k = n + 1
            BY <1>2, <1>3, <2>1, <3>1 DEF Distinct
        <3>3. QED
            BY <3>2
    <2>2. Distinct(path, table)
        BY <1>1, <1>2, <1>3 DEF Distinct
    <2>3. QED
        BY <2>1, <2>2
<1>4. ASSUME Distinct(path, table), \A x \in Rows(table) : Key(path, x) # Key(path, row)
      PROVE  Distinct(path, longer)
    <2>1. ASSUME NEW j \in 1..n + 1, NEW k \in 1..n + 1,
                 Key(path, longer[j]) = Key(path, longer[k])
          PROVE  j = k
        <3>1. ASSUME NEW m \in 1..n PROVE Key(path, longer[m]) # Key(path, row)
            <4>1. longer[m] = table[m] /\ table[m] \in Rows(table)
                BY <1>1, <1>2 DEF Rows
            <4>2. QED
                BY <1>4, <4>1
        <3>2. CASE j \in 1..n /\ k \in 1..n
            BY <1>1, <1>2, <1>4, <2>1, <3>2 DEF Distinct
        <3>3. CASE j = n + 1 /\ k \in 1..n
            BY <1>2, <2>1, <3>1, <3>3
        <3>4. CASE k = n + 1 /\ j \in 1..n
            BY <1>2, <2>1, <3>1, <3>4
        <3>5. CASE j = n + 1 /\ k = n + 1
            BY <3>5
        <3>6. QED
            BY <3>2, <3>3, <3>4, <3>5
    <2>2. QED
        BY <1>2, <2>1 DEF Distinct
<1>5. QED
    BY <1>1, <1>3, <1>4

LEMMA PickedDistinct ==
    ASSUME NEW S, NEW table \in Seq(S), NEW kept, NEW path, Distinct(path, table)
    PROVE  Distinct(path, Picked(table, kept))
<1> DEFINE T == {s \in Seq(S) : Distinct(path, s) => Distinct(path, Picked(s, kept))}
<1>1. <<>> \in T
    BY PickedEmpty
<1>2. ASSUME NEW s \in T, NEW x \in S PROVE Append(s, x) \in T
    <2>1. /\ s \in Seq(S) /\ Append(s, x) \in Seq(S)
          /\ Distinct(path, s) => Distinct(path, Picked(s, kept))
        OBVIOUS
    <2> HIDE DEF T
    <2>2. /\ Picked(s, kept) \in Seq(S)
          /\ Picked(Append(s, x), kept) =
                IF x \in kept THEN Append(Picked(s, kept), x) ELSE Picked(s, kept)
        BY <2>1, PickedIn, PickedGrows
    <2>3. Rows(Picked(s, kept)) = Rows(s) \cap kept
        BY <2>1, PickedRows
    <2>4. Distinct(path, Append(s, x)) =>
             Distinct(path, s) /\ \A y \in Rows(s) : Key(path, y) # Key(path, x)
        BY <2>1, DistinctGrows
    <2>5. (/\ Distinct(path, Picked(s, kept))
           /\ \A y \in Rows(Picked(s, kept)) : Key(path, y) # Key(path, x))
          => Distinct(path, Append(Picked(s, kept), x))
        BY <2>2, DistinctGrows
    <2>6. QED
        BY <2>1, <2>2, <2>3, <2>4, <2>5 DEF T
<1> HIDE DEF T
<1>3. T \in SUBSET Seq(S)
    BY DEF T
<1>4. table \in T
    BY <1>1, <1>2, <1>3, AllSequences
<1>5. QED
    BY <1>4 DEF T

\* d is table, or without one row: each is at its place or one place further on.
Shifted(table, d) ==
    \/ d = table
    \/ /\ Len(d) = Len(table) - 1
       /\ \A k \in 1..Len(d) : d[k] = table[k] \/ d[k] = table[k + 1]

\* Without the row of one node the others move up by at most one place.
LEMMA DroppedShifts ==
    ASSUME NEW S, NEW table \in Seq(S), NEW kept, Distinct("list", table),
           \A x, y \in S : x \notin kept /\ y \notin kept => Key("list", x) = Key("list", y)
    PROVE  Shifted(table, Picked(table, kept))
<1> DEFINE T == {s \in Seq(S) : Distinct("list", s) => Shifted(s, Picked(s, kept))}
<1>1. <<>> \in T
    BY PickedEmpty DEF Shifted
<1>2. ASSUME NEW s \in T, NEW x \in S PROVE Append(s, x) \in T
    <2>1. s \in Seq(S) /\ (Distinct("list", s) => Shifted(s, Picked(s, kept)))
        OBVIOUS
    <2> HIDE DEF T
    <2>2. PICK longer \in Seq(S), p \in Seq(S) : longer = Append(s, x) /\ p = Picked(s, kept)
        <3>1. Append(s, x) \in Seq(S)
            BY <2>1
        <3>2. Picked(s, kept) \in Seq(S)
            BY <2>1, PickedIn
        <3>3. QED
            BY <3>1, <3>2
    <2>3. Picked(longer, kept) = IF x \in kept THEN Append(p, x) ELSE p
        BY <2>1, <2>2, PickedGrows
    <2>4. SUFFICES ASSUME Distinct("list", longer) PROVE Shifted(longer, Picked(longer, kept))
        BY <2>2 DEF T
    <2>5. Distinct("list", s) /\ \A y \in Rows(s) : Key("list", y) # Key("list", x)
        BY <2>1, <2>2, <2>4, DistinctGrows
    <2>6. /\ Len(longer) = Len(s) + 1 /\ longer[Len(s) + 1] = x
          /\ \A k \in 1..Len(s) : longer[k] = s[k]
          /\ Len(s) \in Nat
        BY <2>1, <2>2
    <2>7. CASE x \notin kept
        <3>1. Rows(s) \subseteq kept
            BY <2>1, <2>5, <2>7, RowsGrow
        <3>2. p = s
            BY <2>1, <2>2, <3>1, PickedLength
        <3>3. Picked(longer, kept) = s
            BY <2>3, <2>7, <3>2
        <3>4. Len(s) = Len(longer) - 1 /\ \A k \in 1..Len(s) : s[k] = longer[k]
            BY <2>6
        <3>5. QED
            BY <3>3, <3>4 DEF Shifted
    <2>8. CASE x \in kept
        <3>1. Shifted(s, p)
            BY <2>1, <2>2, <2>5
        <3>2. Picked(longer, kept) = Append(p, x)
            BY <2>3, <2>8
        <3>3. CASE p = s
            BY <2>2, <3>2, <3>3 DEF Shifted
        <3>4. CASE p # s
            <4>1. /\ Len(p) = Len(s) - 1
                  /\ \A k \in 1..Len(p) : p[k] = s[k] \/ p[k] = s[k + 1]
                BY <3>1, <3>4 DEF Shifted
            <4>2. PICK d \in Seq(S) : d = Append(p, x)
                <5>1. Append(p, x) \in Seq(S)
                    OBVIOUS
                <5>2. QED
                    BY <5>1
            <4>3. /\ Len(d) = Len(p) + 1 /\ d[Len(p) + 1] = x
                  /\ \A k \in 1..Len(p) : d[k] = p[k]
                  /\ Len(p) \in Nat
                BY <4>2
            <4>4. Len(d) = Len(longer) - 1
                BY <2>6, <4>1, <4>3
            <4>5. ASSUME NEW k \in 1..Len(d) PROVE d[k] = longer[k] \/ d[k] = longer[k + 1]
                <5>1. CASE k = Len(p) + 1
                    BY <2>6, <4>1, <4>3, <5>1
                <5>2. CASE k # Len(p) + 1
                    <6>1. k \in 1..Len(p) /\ k \in 1..Len(s) /\ k + 1 \in 1..Len(s)
                        BY <2>6, <4>1, <4>3, <5>2
                    <6>2. d[k] = p[k] /\ longer[k] = s[k] /\ longer[k + 1] = s[k + 1]
                        BY <2>6, <4>3, <6>1
                    <6>3. QED
                        BY <4>1, <6>1, <6>2
                <5>3. QED
                    BY <5>1, <5>2
            <4>6. Shifted(longer, d)
                BY <4>4, <4>5 DEF Shifted
            <4>7. QED
                BY <3>2, <4>2, <4>6
        <3>5. QED
            BY <3>3, <3>4
    <2>9. QED
        BY <2>7, <2>8
<1> HIDE DEF T
<1>3. T \in SUBSET Seq(S)
    BY DEF T
<1>4. table \in T
    BY <1>1, <1>2, <1>3, AllSequences
<1>5. QED
    BY <1>4 DEF T

-----------------------------------------------------------------------------
(* The tables.                                                             *)

AllRows == {Row(i, v, d) : i \in Ids, v \in Nat, d \in BOOLEAN}

\* How often a node is in a table.
Count(table, i) == Cardinality({k \in 1..Len(table) : table[k].id = i})

\* A node has one row, and a revision its own version.
TableInv ==
    /\ nodes \in Seq(AllRows) /\ audit \in Seq(AllRows)
    /\ Distinct("list", nodes) /\ Distinct("revisions", audit)
    /\ Len(nodes) <= Len(audit) /\ Len(audit) <= Len(FirstNodes) + MaxWrites
    /\ \A x \in Rows(audit) : x.version <= Count(audit, x.id)

LEMMA TablesKept == ASSUME TableInv, UNCHANGED <<nodes, audit>> PROVE TableInv'
<1>1. Distinct("list", nodes)'
    BY DEF TableInv, Distinct, Key
<1>2. Distinct("revisions", audit)'
    BY DEF TableInv, Distinct, Key
<1>3. (\A x \in Rows(audit) : x.version <= Count(audit, x.id))'
    BY DEF TableInv, Rows, Count
<1>4. QED
    BY <1>1, <1>2, <1>3 DEF TableInv

LEMMA RowFields ==
    ASSUME NEW x \in AllRows
    PROVE  /\ x.id \in Ids /\ x.version \in Nat /\ x.deleted \in BOOLEAN
           /\ x.enabled = Content[x.id].enabled /\ x.column = Content[x.id].column
           /\ x.field = Content[x.id].field
           /\ x.enabled \in BOOLEAN
<1>1. PICK i \in Ids, v \in Nat, d \in BOOLEAN : x = Row(i, v, d)
    BY DEF AllRows
<1>2. Content[i].enabled \in BOOLEAN
    BY GatewayAssumption
<1>3. QED
    BY <1>1, <1>2 DEF Row

LEMMA RowMade ==
    ASSUME NEW i \in Ids, NEW v \in Nat, NEW d \in BOOLEAN
    PROVE  /\ Row(i, v, d) \in AllRows
           /\ Row(i, v, d).id = i /\ Row(i, v, d).version = v /\ Row(i, v, d).deleted = d
BY DEF AllRows, Row

LEMMA CountGrows ==
    ASSUME NEW S, NEW table \in Seq(S), NEW row \in S, NEW i
    PROVE  /\ Count(table, i) \in Nat
           /\ Count(Append(table, row), i) =
                 IF row.id = i THEN Count(table, i) + 1 ELSE Count(table, i)
<1>1. PICK n \in Nat, longer \in Seq(S) : n = Len(table) /\ longer = Append(table, row)
    <2>1. Append(table, row) \in Seq(S) /\ Len(table) \in Nat
        OBVIOUS
    <2>2. QED
        BY <2>1
<1>2. Len(longer) = n + 1 /\ longer[n + 1] = row /\ \A k \in 1..n : longer[k] = table[k]
    BY <1>1
<1> DEFINE A == {k \in 1..n : table[k].id = i}
           B == {k \in 1..n + 1 : longer[k].id = i}
<1>3. IsFiniteSet(A)
    <2>1. IsFiniteSet(1..n)
        BY FS_Interval
    <2>2. QED
        BY <2>1, FS_Subset
<1>4. n + 1 \notin A
    OBVIOUS
<1>5. B = IF row.id = i THEN A \cup {n + 1} ELSE A
    <2>1. ASSUME NEW k \in 1..n PROVE k \in B <=> k \in A
        BY <1>2
    <2>2. n + 1 \in B <=> row.id = i
        BY <1>2
    <2>3. \A k \in B : k \in 1..n \/ k = n + 1
        OBVIOUS
    <2>4. A \subseteq 1..n
        OBVIOUS
    <2> HIDE DEF A, B
    <2>5. CASE row.id = i
        BY <2>1, <2>2, <2>3, <2>4, <2>5
    <2>6. CASE row.id # i
        <3>1. \A k \in B : k \in A
            BY <2>1, <2>2, <2>3, <2>6
        <3>2. \A k \in A : k \in B
            BY <2>1, <2>4
        <3>3. QED
            BY <2>6, <3>1, <3>2
    <2>7. QED
        BY <2>5, <2>6
<1>6. Cardinality(A) \in Nat /\ Cardinality(A \cup {n + 1}) = Cardinality(A) + 1
    BY <1>3, <1>4, FS_AddElement, FS_CardinalityType
<1>7. Count(table, i) = Cardinality(A) /\ Count(longer, i) = Cardinality(B)
    BY <1>1, <1>2 DEF Count
<1> HIDE DEF A, B
<1>8. QED
    BY <1>1, <1>5, <1>6, <1>7

LEMMA CountsOne ==
    ASSUME NEW S, NEW table \in Seq(S), NEW k \in 1..Len(table)
    PROVE  Count(table, table[k].id) \in Nat \ {0}
<1> DEFINE A == {j \in 1..Len(table) : table[j].id = table[k].id}
<1>1. IsFiniteSet(A)
    <2>1. Len(table) \in Nat
        OBVIOUS
    <2>2. IsFiniteSet(1..Len(table))
        BY <2>1, FS_Interval
    <2>3. QED
        BY <2>2, FS_Subset
<1>2. k \in A
    OBVIOUS
<1>3. Count(table, table[k].id) = Cardinality(A)
    BY DEF Count
<1> HIDE DEF A
<1>4. QED
    BY <1>1, <1>2, <1>3, FS_EmptySet, FS_CardinalityType

LEMMA InitTables == GatewayInit => TableInv
<1>1. SUFFICES ASSUME GatewayInit PROVE TableInv
    OBVIOUS
<1>2. Len(FirstNodes) \in Nat /\ \A k \in 1..Len(FirstNodes) : FirstNodes[k] \in Ids
    BY GatewayAssumption
<1>3. nodes = [k \in 1..Len(FirstNodes) |-> Row(FirstNodes[k], 1, FALSE)] /\ audit = nodes
    BY <1>1 DEF GatewayInit
<1>4. ASSUME NEW k \in 1..Len(FirstNodes)
      PROVE  nodes[k] \in AllRows /\ nodes[k].id = FirstNodes[k] /\ nodes[k].version = 1
    <2>1. PICK i \in Ids : i = FirstNodes[k]
        BY <1>2
    <2>2. nodes[k] = Row(i, 1, FALSE)
        BY <1>3, <2>1
    <2>3. Row(i, 1, FALSE) \in AllRows
        BY RowMade
    <2>4. QED
        BY <2>1, <2>2, <2>3 DEF Row
<1>5. /\ nodes \in Seq(AllRows) /\ Len(nodes) = Len(FirstNodes)
      /\ \A k \in 1..Len(nodes) : nodes[k].id = FirstNodes[k] /\ nodes[k].version = 1
    <2>1. nodes \in [1..Len(FirstNodes) -> AllRows]
        BY <1>3, <1>4
    <2>2. nodes \in Seq(AllRows) /\ Len(nodes) = Len(FirstNodes)
        BY <1>2, <2>1
    <2>3. QED
        BY <1>4, <2>2
<1>6. \A j, k \in 1..Len(nodes) : nodes[j].id = nodes[k].id => j = k
    BY <1>5, GatewayAssumption
<1>7. Distinct("list", nodes) /\ Distinct("revisions", nodes)
    BY <1>6 DEF Distinct, Key
<1>8. ASSUME NEW x \in Rows(nodes) PROVE x.version <= Count(nodes, x.id)
    <2>1. PICK k \in 1..Len(nodes) : x = nodes[k]
        BY DEF Rows
    <2>2. Count(nodes, x.id) \in Nat \ {0}
        BY <1>5, <2>1, CountsOne
    <2>3. QED
        BY <1>5, <2>1, <2>2
<1>9. Len(FirstNodes) <= Len(FirstNodes) + MaxWrites
    BY <1>2, GatewayAssumption
<1>10. Len(nodes) <= Len(audit) /\ Len(audit) <= Len(FirstNodes) + MaxWrites
    BY <1>2, <1>3, <1>5, <1>9
<1>11. QED
    BY <1>3, <1>5, <1>7, <1>8, <1>10 DEF TableInv

\* What a write does to the tables, with the row it writes.
Written(row) ==
    /\ audit' = Append(audit, row)
    /\ nodes' = Append(Picked(nodes, {n \in Rows(nodes) : n.id # row.id}), row)
    /\ \A x \in Rows(nodes) : x.id = row.id => ~x.deleted
    /\ row.version = Count(audit, row.id) + 1
    /\ Len(audit) < Len(FirstNodes) + MaxWrites

LEMMA WriteIs ==
    ASSUME TableInv, NEW i \in Ids, NEW d \in BOOLEAN, Write(i, d)
    PROVE  \E row \in AllRows : Written(row)
<1>1. Version(i) = Count(audit, i) + 1 /\ Count(audit, i) \in Nat
    <2>1. Row(i, 0, d) \in AllRows
        BY RowMade
    <2>2. Count(audit, i) \in Nat
        BY <2>1, CountGrows DEF TableInv
    <2>3. QED
        BY <2>2 DEF Version, Count
<1>2. PICK row \in AllRows : /\ row = Row(i, Version(i), d) /\ row.id = i
                             /\ row.version = Count(audit, i) + 1
    BY <1>1, RowMade
<1>3. /\ audit' = Append(audit, row)
      /\ nodes' = Append(Picked(nodes, {n \in Rows(nodes) : n.id # i}), row)
      /\ Len(audit) < Len(FirstNodes) + MaxWrites
    BY <1>2 DEF Write
<1>4. \A k \in {k \in 1..Len(nodes) : nodes[k].id = i} : ~nodes[k].deleted
    BY DEF Write
<1>5. ASSUME NEW x \in Rows(nodes), x.id = i PROVE ~x.deleted
    BY <1>4, <1>5 DEF Rows
<1>6. QED
    BY <1>2, <1>3, <1>5 DEF Written

LEMMA WriteTables ==
    ASSUME TableInv, NEW row \in AllRows, Written(row) PROVE TableInv'
<1> DEFINE others == {n \in Rows(nodes) : n.id # row.id}
<1>1. /\ nodes \in Seq(AllRows) /\ audit \in Seq(AllRows)
      /\ Distinct("list", nodes) /\ Distinct("revisions", audit)
    BY DEF TableInv
<1>2. PICK p \in Seq(AllRows) : p = Picked(nodes, others)
    BY <1>1, PickedIn
<1>3. Len(p) <= Len(nodes) /\ Rows(p) = Rows(nodes) \cap others /\ Distinct("list", p)
    <2>1. Len(p) <= Len(nodes)
        BY <1>1, <1>2, PickedLength
    <2>2. Rows(p) = Rows(nodes) \cap others
        BY <1>1, <1>2, PickedRows
    <2>3. QED
        BY <1>1, <1>2, <2>1, <2>2, PickedDistinct
<1>4. nodes' = Append(p, row) /\ audit' = Append(audit, row)
    BY <1>2 DEF Written
<1>5. nodes' \in Seq(AllRows) /\ audit' \in Seq(AllRows)
    BY <1>1, <1>4
<1>6. Distinct("list", nodes)'
    <2>1. \A x \in Rows(p) : Key("list", x) # Key("list", row)
        BY <1>3 DEF Key
    <2>2. Distinct("list", Append(p, row))
        BY <1>3, <2>1, DistinctGrows
    <2>3. Distinct("list", nodes')
        BY <1>4, <2>2
    <2>4. QED
        BY <2>3 DEF Distinct, Key
<1>7. Distinct("revisions", audit)'
    <2>1. ASSUME NEW x \in Rows(audit), Key("revisions", x) = Key("revisions", row) PROVE FALSE
        <3>1. x.id = row.id /\ x.version = row.version
            BY <2>1 DEF Key
        <3>2. x.version <= Count(audit, x.id)
            BY DEF TableInv
        <3>3. Count(audit, x.id) \in Nat
            BY <1>1, CountGrows
        <3>4. row.version = Count(audit, row.id) + 1
            BY DEF Written
        <3>5. QED
            BY <3>1, <3>2, <3>3, <3>4
    <2>2. Distinct("revisions", Append(audit, row))
        BY <1>1, <2>1, DistinctGrows
    <2>3. Distinct("revisions", audit')
        BY <1>4, <2>2
    <2>4. QED
        BY <2>3 DEF Distinct, Key
<1>8. Len(nodes') <= Len(audit') /\ Len(audit') <= Len(FirstNodes) + MaxWrites
    <2>1. Len(nodes') = Len(p) + 1 /\ Len(audit') = Len(audit) + 1
        BY <1>1, <1>4
    <2>2. Len(nodes) <= Len(audit) /\ Len(audit) < Len(FirstNodes) + MaxWrites
        BY DEF TableInv, Written
    <2>3. Len(FirstNodes) \in Nat /\ MaxWrites \in Nat /\ Len(audit) \in Nat /\ Len(nodes) \in Nat
          /\ Len(p) \in Nat
        BY <1>1, GatewayAssumption
    <2>4. QED
        BY <1>3, <2>1, <2>2, <2>3
<1>9. ASSUME NEW x \in Rows(audit') PROVE x.version <= Count(audit', x.id)
    <2>1. x \in Rows(audit) \/ x = row
        BY <1>1, <1>4, RowsGrow
    <2>2. /\ Count(audit, x.id) \in Nat
          /\ Count(audit', x.id) = IF row.id = x.id THEN Count(audit, x.id) + 1
                                   ELSE Count(audit, x.id)
        BY <1>1, <1>4, CountGrows
    <2>3. CASE x = row
        BY <2>2, <2>3 DEF Written
    <2>4. CASE x \in Rows(audit)
        <3>1. x.version <= Count(audit, x.id) /\ x.version \in Nat
            BY <1>1, <2>4, RowsGrow, RowFields DEF TableInv
        <3>2. QED
            BY <2>2, <3>1
    <2>5. QED
        BY <2>1, <2>3, <2>4
<1>10. (\A x \in Rows(audit) : x.version <= Count(audit, x.id))'
    BY <1>9 DEF Rows, Count
<1>11. QED
    BY <1>5, <1>6, <1>7, <1>8, <1>10 DEF TableInv

-----------------------------------------------------------------------------
(* Forms and pages.                                                        *)

\* What a page of a list may be.
Pages ==
    {p \in [elements : Seq(AllRows), page : Nat \ {0}, perPage : 1..MaxResult \cup {DefaultPerPage},
            next : Nat, previous : Nat] :
        /\ Len(p.elements) <= p.perPage
        /\ p.next # 0 => Len(p.elements) = p.perPage}

\* The size of the pages a form asks for, and its page.
Size(http) == IF http.perPage = 0 THEN DefaultPerPage ELSE http.perPage
PageOf(http) == IF http.page = 0 THEN 1 ELSE http.page

LEMMA FormFields ==
    ASSUME NEW http \in AllForms, ~Refusable(http)
    PROVE  /\ http.page \in Nat /\ http.perPage \in 0..MaxResult
           /\ http.deleted \in {"", "true", "false"} /\ http.enabled \in {"", "true", "false"}
           /\ Size(http) \in 1..MaxResult \cup {DefaultPerPage} /\ Size(http) \in Nat \ {0}
           /\ PageOf(http) \in Nat \ {0}
           /\ HandleSearch(http).page = PageOf(http)
           /\ HandleSearch(http).perPage = Size(http)
           /\ HandleSearch(http).orderBy = http.orderBy
           /\ HandleSearch(http).where = http.where /\ HandleSearch(http).json = http.json
           /\ HandleSearch(http).deleted = Flag(http.deleted, {FALSE})
           /\ HandleSearch(http).enabled = Flag(http.enabled, BOOLEAN)
<1>1. /\ http.page \in Int /\ http.perPage \in Int /\ http.deleted \in Flags
      /\ http.enabled \in Flags
    BY DEF AllForms
<1>2. MaxResult \in Nat /\ DefaultPerPage \in Nat \ {0}
    BY SearchAssumption
<1>3. http.page \in Nat /\ http.perPage \in 0..MaxResult
    <2>1. ~(http.page < 0) /\ ~(http.perPage < 0) /\ ~(http.perPage > MaxResult)
        BY DEF Refusable
    <2>2. QED
        BY <1>1, <1>2, <2>1
<1>4. http.deleted \in {"", "true", "false"} /\ http.enabled \in {"", "true", "false"}
    <2>1. http.deleted # "other" /\ http.enabled # "other"
        BY DEF Refusable
    <2>2. QED
        BY <1>1, <2>1 DEF Flags
<1>5. PageOf(http) \in Nat \ {0}
    <2>1. PICK n \in Nat : n = http.page
        BY <1>3
    <2>2. QED
        BY <2>1 DEF PageOf
<1>6. Size(http) \in 1..MaxResult \cup {DefaultPerPage} /\ Size(http) \in Nat \ {0}
    <2>1. PICK n \in 0..MaxResult : n = http.perPage
        BY <1>3
    <2>2. Size(http) = IF n = 0 THEN DefaultPerPage ELSE n
        BY <2>1 DEF Size
    <2>3. CASE n = 0
        BY <1>2, <2>2, <2>3
    <2>4. CASE n # 0
        BY <1>2, <2>2, <2>4
    <2>5. QED
        BY <2>3, <2>4
<1>7. HandleSearch(http) =
         [page |-> PageOf(http), perPage |-> Size(http), orderBy |-> http.orderBy,
          where |-> http.where, json |-> http.json,
          deleted |-> Flag(http.deleted, {FALSE}), enabled |-> Flag(http.enabled, BOOLEAN)]
    BY DEF HandleSearch, Size, PageOf
<1> DEFINE form == HandleSearch(http)
<1>8. /\ form.page = PageOf(http) /\ form.perPage = Size(http)
      /\ form.orderBy = http.orderBy /\ form.where = http.where /\ form.json = http.json
      /\ form.deleted = Flag(http.deleted, {FALSE}) /\ form.enabled = Flag(http.enabled, BOOLEAN)
    BY <1>7
<1>9. QED
    BY <1>3, <1>4, <1>5, <1>6, <1>8

LEMMA FormOrNot ==
    ASSUME NEW http, HandleSearch(http) # NoForm
    PROVE  ~Refusable(http)
BY DEF HandleSearch

\* A form with another page.
LEMMA OtherPage ==
    ASSUME NEW http \in AllForms, NEW n \in Nat
    PROVE  /\ [http EXCEPT !.page = n] \in AllForms /\ [http EXCEPT !.page = n].page = n
           /\ [http EXCEPT !.page = n].perPage = http.perPage
           /\ [http EXCEPT !.page = n].orderBy = http.orderBy
           /\ [http EXCEPT !.page = n].where = http.where
           /\ [http EXCEPT !.page = n].json = http.json
           /\ [http EXCEPT !.page = n].deleted = http.deleted
           /\ [http EXCEPT !.page = n].enabled = http.enabled
BY DEF AllForms

\* Whatever the offset, the page is no longer than it may be, and full when
\* there is another one.
LEMMA PageAnywhere ==
    ASSUME NEW S, NEW rows \in Seq(S), NEW page \in Nat \ {0}, NEW perPage \in Nat \ {0}
    PROVE  /\ Elements(rows, page, perPage) \in Seq(S)
           /\ Len(Elements(rows, page, perPage)) <= perPage
           /\ NextPage(rows, page, perPage) \in Nat
           /\ NextPage(rows, page, perPage) # 0 =>
                 Len(Elements(rows, page, perPage)) = perPage
<1>1. PICK from \in Nat : from = Offset(page, perPage)
    <2>1. (page - 1) * perPage \in Nat
        <3>1. page - 1 \in Nat
            OBVIOUS
        <3>2. QED
            BY <3>1
    <2>2. Wrap \in Nat \ {0}
        BY SearchAssumption
    <2>3. ASSUME NEW x \in Nat PROVE x % Wrap \in Nat
        BY <2>2
    <2>4. QED
        BY <2>1, <2>3 DEF Offset
<1> DEFINE end == IF from + (perPage + 1) < Len(rows) THEN from + (perPage + 1) ELSE Len(rows)
<1>2. PICK list \in Seq(S) : list = FindBy(rows, from, perPage + 1)
    <2>1. Len(rows) \in Nat /\ end \in Nat /\ end <= Len(rows)
        OBVIOUS
    <2>2. \A k \in from + 1..end : rows[k] \in S
        BY <2>1
    <2>3. SubSeq(rows, from + 1, end) \in Seq(S)
        BY <2>1, <2>2
    <2>4. QED
        BY <2>3 DEF FindBy
<1>3. /\ Elements(rows, page, perPage) =
             SubSeq(list, 1, IF Len(list) > perPage THEN perPage ELSE Len(list))
      /\ NextPage(rows, page, perPage) = IF Len(list) > perPage THEN page + 1 ELSE 0
    BY <1>1, <1>2 DEF Elements, NextPage
<1>4. PICK n \in Nat : n = (IF Len(list) > perPage THEN perPage ELSE Len(list)) /\ n <= Len(list)
    <2>1. Len(list) \in Nat
        OBVIOUS
    <2>2. QED
        BY <2>1
<1>5. SubSeq(list, 1, n) \in Seq(S) /\ Len(SubSeq(list, 1, n)) = n
    BY <1>4
<1>6. QED
    BY <1>3, <1>4, <1>5

LEMMA FindIsPage ==
    ASSUME NEW rows \in Seq(AllRows), NEW page \in Nat \ {0}, NEW perPage \in Nat \ {0},
           perPage \in 1..MaxResult \cup {DefaultPerPage}
    PROVE  Find(rows, page, perPage) \in Pages
<1>1. /\ Elements(rows, page, perPage) \in Seq(AllRows)
      /\ Len(Elements(rows, page, perPage)) <= perPage
      /\ NextPage(rows, page, perPage) \in Nat
      /\ NextPage(rows, page, perPage) # 0 => Len(Elements(rows, page, perPage)) = perPage
    BY PageAnywhere, ZenonT(30)
<1>2. (IF page > 1 THEN page - 1 ELSE 0) \in Nat
    OBVIOUS
<1>3. QED
    BY <1>1, <1>2 DEF Find, Pages

LEMMA SelectedRows ==
    ASSUME TableInv, NEW path, NEW form PROVE Selected(path, form) \in Seq(AllRows)
<1>1. PICK rows \in Seq(AllRows) : Selected(path, form) = Sorted(form, rows)
    <2>1. CASE path = "list"
        BY <2>1, PickedIn DEF Selected, TableInv
    <2>2. CASE path # "list"
        BY <2>2, PickedIn DEF Selected, TableInv
    <2>3. QED
        BY <2>1, <2>2
<1>2. [k \in 1..Len(rows) |-> rows[Len(rows) + 1 - k]] \in Seq(AllRows)
    <2>1. Len(rows) \in Nat
        OBVIOUS
    <2>2. ASSUME NEW k \in 1..Len(rows) PROVE rows[Len(rows) + 1 - k] \in AllRows
        <3>1. Len(rows) + 1 - k \in 1..Len(rows)
            BY <2>1
        <3>2. QED
            BY <3>1
    <2>3. QED
        BY <2>1, <2>2
<1>3. QED
    BY <1>1, <1>2 DEF Sorted

-----------------------------------------------------------------------------
(* The types.                                                              *)

WalkRequests == [path : {"list", "revisions"}, http : AllForms]

Walks ==
    [state : {"asked", "on", "ended"}, request : WalkRequests, waits : BOOLEAN,
     seen : Seq(AllRows), start : SUBSET (Ids \X Nat), writes : Nat]

Refused == [state |-> "refused"]

\* A request is there until it is answered, and what the guard has read of an
\* account only until the password is compared.
ClientTyped(c) ==
    /\ request[c] \in AllRequests \cup {None}
    /\ request[c] = None <=> pc[c] = "idle"
    /\ found[c] # None => pc[c] = "loginCheck"
    /\ pager[c] \in Pages \cup {None}
    /\ walk[c] \in Walks \cup {NoWalk, Refused}

TypeInv ==
    /\ TableInv
    /\ clock <= MaxClock /\ changes \in 0..MaxChanges
    /\ DOMAIN pager = Clients /\ DOMAIN walk = Clients
    /\ \A c \in Clients : ClientTyped(c)

\* Nothing of another client changes that is typed.
Elsewhere(c) ==
    \A d \in Clients \ {c} :
        /\ request'[d] = request[d] /\ pc'[d] = pc[d] /\ found'[d] = found[d]
        /\ pager'[d] = pager[d] /\ walk'[d] = walk[d]

LEMMA ClientStepTyped ==
    ASSUME TypeInv, NEW c \in Clients, Elsewhere(c), ClientTyped(c)',
           UNCHANGED <<nodes, audit, clock, changes>>,
           DOMAIN pager' = Clients, DOMAIN walk' = Clients
    PROVE  TypeInv'
<1>1. TableInv'
    BY TablesKept DEF TypeInv
<1>2. ASSUME NEW d \in Clients PROVE ClientTyped(d)'
    <2>1. CASE d = c
        BY <2>1
    <2>2. CASE d # c
        <3>1. d \in Clients \ {c} /\ ClientTyped(d)
            BY <2>2 DEF TypeInv
        <3>2. QED
            BY <3>1 DEF ClientTyped, Elsewhere
    <2>3. QED
        BY <2>1, <2>2
<1>3. clock' <= MaxClock /\ changes' \in 0..MaxChanges
    BY DEF TypeInv
<1>4. (\A d \in Clients : ClientTyped(d))'
    BY <1>2
<1>5. QED
    BY <1>1, <1>3, <1>4 DEF TypeInv

LEMMA InitTyped == GatewayInit => TypeInv
<1>1. SUFFICES ASSUME GatewayInit PROVE TypeInv
    OBVIOUS
<1>2. 0 <= MaxClock /\ 0 \in 0..MaxChanges
    BY GatewayAssumption
<1>3. ASSUME NEW c \in Clients PROVE ClientTyped(c)
    BY <1>1 DEF GatewayInit, ClientTyped
<1>4. QED
    BY <1>1, <1>2, <1>3, InitTables DEF GatewayInit, TypeInv

\* The guard only passes a request on, or answers it.
LEMMA GuardTyped ==
    ASSUME SessionInv, TypeInv, NEW c \in Clients,
           \/ TokenCredentials(c) \/ TokenUser(c) \/ LoginCredentials(c)
           \/ LoginUser(c) \/ LoginCheck(c)
    PROVE  TypeInv'
<1>1. /\ UNCHANGED <<nodes, audit, clock, changes, request, pager, walk>>
      /\ pc[c] \notin {"idle", "answered"}
    BY DEF TokenCredentials, TokenUser, LoginCredentials, LoginUser, LoginCheck, At, tableVars,
           clientVars
<1>2. PICK label \in Labels \ {"idle"} :
            pc' = [pc EXCEPT ![c] = label] /\ (found'[c] # None => label = "loginCheck")
    <2>1. /\ "login" \in Labels \ {"idle"} /\ "answered" \in Labels \ {"idle"}
          /\ "tokenUser" \in Labels \ {"idle"} /\ "route" \in Labels \ {"idle"}
          /\ "loginUser" \in Labels \ {"idle"} /\ "loginCheck" \in Labels \ {"idle"}
        BY DEF Labels
    <2>2. found[c] # None => pc[c] = "loginCheck"
        BY DEF TypeInv, ClientTyped
    <2>3. CASE TokenCredentials(c) \/ TokenUser(c) \/ LoginCredentials(c)
        <3>1. UNCHANGED found /\ found[c] = None
            BY <2>2, <2>3 DEF TokenCredentials, TokenUser, LoginCredentials, At
        <3>2. \/ pc' = [pc EXCEPT ![c] = "login"] \/ pc' = [pc EXCEPT ![c] = "answered"]
              \/ pc' = [pc EXCEPT ![c] = "tokenUser"] \/ pc' = [pc EXCEPT ![c] = "route"]
              \/ pc' = [pc EXCEPT ![c] = "loginUser"]
            BY <2>3 DEF TokenCredentials, TokenUser, LoginCredentials, Goto, Forbid
        <3>3. QED
            BY <2>1, <3>1, <3>2
    <2>4. CASE LoginUser(c)
        <3>1. found[c] = None
            BY <2>2, <2>4 DEF LoginUser, At
        <3>2. \/ pc' = [pc EXCEPT ![c] = "answered"] /\ UNCHANGED found
              \/ pc' = [pc EXCEPT ![c] = "loginCheck"]
            BY <2>4 DEF LoginUser, Goto, Forbid
        <3>3. QED
            BY <2>1, <3>1, <3>2
    <2>5. CASE LoginCheck(c)
        <3>1. found'[c] = None
            BY <2>5 DEF LoginCheck, SessionInv, GuardTypeOK
        <3>2. pc' = [pc EXCEPT ![c] = "answered"]
            BY <2>5 DEF LoginCheck, Goto, Forbid, AfterLogin
        <3>3. QED
            BY <2>1, <3>1, <3>2
    <2>6. QED
        BY <2>3, <2>4, <2>5
<1>3. \A d \in Clients \ {c} : found'[d] = found[d]
    BY DEF TokenCredentials, TokenUser, LoginCredentials, LoginUser, LoginCheck, SessionInv,
           GuardTypeOK
<1>4. Elsewhere(c)
    BY <1>1, <1>2, <1>3 DEF Elsewhere, SessionInv, GuardTypeOK
<1>5. ClientTyped(c)'
    <2>1. pc'[c] = label /\ ClientTyped(c)
        BY <1>2 DEF SessionInv, GuardTypeOK, TypeInv
    <2>2. QED
        BY <1>1, <1>2, <2>1 DEF ClientTyped
<1>6. DOMAIN pager' = Clients /\ DOMAIN walk' = Clients
    BY <1>1 DEF TypeInv
<1>7. QED
    BY <1>1, <1>4, <1>5, <1>6, ClientStepTyped

LEMMA WantedTyped ==
    ASSUME TableInv, NEW path, NEW http PROVE WantedNow(path, http) \in SUBSET (Ids \X Nat)
<1>1. Rows(nodes) \subseteq AllRows /\ Rows(audit) \subseteq AllRows
    BY DEF TableInv, Rows
<1>2. ASSUME NEW x \in AllRows PROVE Key(path, x) \in Ids \X Nat
    BY RowFields DEF Key
<1>3. QED
    BY <1>1, <1>2 DEF WantedNow

\* A search is refused, or a page of what it selects is written.
LEMMA RouteServes ==
    ASSUME NEW c \in Clients, ServeList(c) \/ ServeRevisions(c)
    PROVE  /\ request[c].path \in {"list", "revisions"}
           /\ \/ UNCHANGED <<pager, walk>>
              \/ /\ HandleSearch(request[c].http) # NoForm
                 /\ walk' = Opened(c)
                 /\ pager' = [pager EXCEPT ![c] =
                       Find(Selected(request[c].path, HandleSearch(request[c].http)),
                            HandleSearch(request[c].http).page,
                            HandleSearch(request[c].http).perPage)]
<1>1. CASE ServeList(c)
    BY <1>1 DEF ServeList, RouteTo
<1>2. CASE ServeRevisions(c)
    BY <1>2 DEF ServeRevisions, RouteTo
<1>3. QED
    BY <1>1, <1>2

\* A route writes its answer, and perhaps a page.
LEMMA RouteTyped ==
    ASSUME SessionInv, TypeInv, NEW c \in Clients,
           ServeList(c) \/ ServeRevisions(c) \/ ServeOne(c) \/ ServeLogin(c)
    PROVE  TypeInv'
<1>1. /\ UNCHANGED <<nodes, audit, clock, changes, request, found>>
      /\ pc[c] = "route" /\ pc' = [pc EXCEPT ![c] = "answered"]
    BY DEF ServeList, ServeRevisions, ServeOne, ServeLogin, RouteTo, Frame, At, Goto, tableVars
<1>2. \/ UNCHANGED <<pager, walk>>
      \/ /\ walk' = Opened(c)
         /\ \E page \in Pages : pager' = [pager EXCEPT ![c] = page]
    <2>1. CASE ServeOne(c) \/ ServeLogin(c)
        BY <2>1 DEF ServeOne, ServeLogin
    <2>2. CASE ServeList(c) \/ ServeRevisions(c)
        <3>1. PICK path \in {"list", "revisions"} :
                /\ request[c].path = path
                /\ \/ UNCHANGED <<pager, walk>>
                   \/ /\ HandleSearch(request[c].http) # NoForm
                      /\ walk' = Opened(c)
                      /\ pager' = [pager EXCEPT ![c] =
                            Find(Selected(path, HandleSearch(request[c].http)),
                                 HandleSearch(request[c].http).page,
                                 HandleSearch(request[c].http).perPage)]
            BY <2>2, RouteServes
        <3>2. CASE UNCHANGED <<pager, walk>>
            BY <3>2
        <3>3. CASE ~UNCHANGED <<pager, walk>>
            <4>1. PICK http : http = request[c].http
                OBVIOUS
            <4>2. http \in AllForms
                <5>1. request[c] \in AllRequests /\ request[c].path \in {"list", "revisions"}
                    BY <1>1, <3>1 DEF TypeInv, ClientTyped
                <5>2. QED
                    BY <4>1, <5>1 DEF AllRequests
            <4>3. ~Refusable(http)
                BY <3>1, <3>3, <4>1, FormOrNot
            <4>4. /\ HandleSearch(http).page \in Nat \ {0}
                  /\ HandleSearch(http).perPage \in Nat \ {0}
                  /\ HandleSearch(http).perPage \in 1..MaxResult \cup {DefaultPerPage}
                BY <4>2, <4>3, FormFields
            <4>5. Selected(path, HandleSearch(http)) \in Seq(AllRows)
                BY SelectedRows DEF TypeInv
            <4>6. Find(Selected(path, HandleSearch(http)), HandleSearch(http).page,
                       HandleSearch(http).perPage) \in Pages
                BY <4>4, <4>5, FindIsPage
            <4>7. QED
                BY <3>1, <3>3, <4>1, <4>6
        <3>4. QED
            BY <3>2, <3>3
    <2>3. QED
        BY <2>1, <2>2
<1>3. pager'[c] \in Pages \cup {None} /\ DOMAIN pager' = Clients
      /\ \A d \in Clients \ {c} : pager'[d] = pager[d]
    BY <1>2 DEF TypeInv, ClientTyped
<1>4. walk'[c] \in Walks \cup {NoWalk, Refused} /\ DOMAIN walk' = Clients
      /\ \A d \in Clients \ {c} : walk'[d] = walk[d]
    <2>1. walk[c] \in Walks \cup {NoWalk, Refused} /\ DOMAIN walk = Clients
        BY DEF TypeInv, ClientTyped
    <2>2. CASE walk' = walk
        BY <2>1, <2>2
    <2>3. CASE walk' = Opened(c) /\ walk[c].state = "asked"
        <3>1. PICK start \in SUBSET (Ids \X Nat) :
                start = WantedNow(request[c].path, request[c].http)
            BY WantedTyped DEF TypeInv
        <3>2. walk' = [walk EXCEPT ![c].state = "on", ![c].start = start]
            BY <2>3, <3>1 DEF Opened
        <3>3. walk[c] \in Walks
            BY <2>1, <2>3 DEF NoWalk, Refused
        <3>4. walk'[c] = [walk[c] EXCEPT !.state = "on", !.start = start]
            BY <2>1, <3>2
        <3>5. walk'[c] \in Walks
            BY <3>3, <3>4 DEF Walks
        <3>6. QED
            BY <2>1, <3>2, <3>5
    <2>4. QED
        BY <1>2, <2>1, <2>2, <2>3 DEF Opened
<1>5. Elsewhere(c)
    BY <1>1, <1>3, <1>4 DEF Elsewhere, SessionInv, GuardTypeOK
<1>6. ClientTyped(c)'
    <2>1. pc'[c] = "answered" /\ ClientTyped(c)
        BY <1>1 DEF SessionInv, GuardTypeOK, TypeInv
    <2>2. QED
        BY <1>1, <1>3, <1>4, <2>1 DEF ClientTyped
<1>7. QED
    BY <1>1, <1>3, <1>4, <1>5, <1>6, ClientStepTyped

\* The page a walk goes on with.
LEMMA ContinuedIs ==
    ASSUME NEW w \in Walks, NEW p \in Pages
    PROVE  /\ Continued(w, p) \in Walks
           /\ Continued(w, p).state = IF p.next = 0 THEN "ended" ELSE "on"
           /\ Continued(w, p).request.path = w.request.path
           /\ Continued(w, p).request.http = [w.request.http EXCEPT !.page = p.next]
           /\ Continued(w, p).waits = FALSE
           /\ Continued(w, p).seen = w.seen \o p.elements
           /\ Continued(w, p).start = w.start /\ Continued(w, p).writes = w.writes
<1>1. /\ w.request \in WalkRequests /\ w.seen \in Seq(AllRows)
      /\ w.start \in SUBSET (Ids \X Nat) /\ w.writes \in Nat
    BY DEF Walks
<1>2. p.next \in Nat /\ p.elements \in Seq(AllRows)
    BY DEF Pages
<1>3. [w.request.http EXCEPT !.page = p.next] \in AllForms
    BY <1>1, <1>2, OtherPage DEF WalkRequests
<1>4. PICK http \in AllForms : http = [w.request.http EXCEPT !.page = p.next]
    BY <1>3
<1>5. PICK list \in Seq(AllRows) : list = w.seen \o p.elements
    <2>1. ASSUME NEW a \in Seq(AllRows), NEW b \in Seq(AllRows) PROVE a \o b \in Seq(AllRows)
        OBVIOUS
    <2>2. QED
        BY <1>1, <1>2, <2>1
<1>6. Continued(w, p) =
         [w EXCEPT !.waits = FALSE,
                   !.state = IF p.next = 0 THEN "ended" ELSE "on",
                   !.request = [w.request EXCEPT !.http = http],
                   !.seen = list]
    BY <1>4, <1>5 DEF Continued
<1>7. /\ [w.request EXCEPT !.http = http] \in WalkRequests
      /\ [w.request EXCEPT !.http = http].path = w.request.path
      /\ [w.request EXCEPT !.http = http].http = http
    BY <1>1 DEF WalkRequests
<1>8. PICK r \in WalkRequests : /\ r = [w.request EXCEPT !.http = http]
                                /\ r.path = w.request.path /\ r.http = http
    BY <1>7
<1>9. Continued(w, p) =
         [w EXCEPT !.waits = FALSE, !.state = IF p.next = 0 THEN "ended" ELSE "on",
                   !.request = r, !.seen = list]
    BY <1>6, <1>8
<1>10. QED
    BY <1>4, <1>5, <1>8, <1>9 DEF Walks

LEMMA ReceiveTyped ==
    ASSUME SessionInv, TypeInv, NEW c \in Clients, Receive(c) PROVE TypeInv'
<1>1. /\ UNCHANGED <<nodes, audit, clock, changes, found>>
      /\ pc[c] = "answered" /\ pc' = [pc EXCEPT ![c] = "idle"]
      /\ request' = [request EXCEPT ![c] = None] /\ pager' = [pager EXCEPT ![c] = None]
    BY DEF Receive, At, Goto, tableVars
<1>2. /\ walk[c] \in Walks \cup {NoWalk, Refused} /\ pager[c] \in Pages \cup {None}
      /\ DOMAIN walk = Clients /\ DOMAIN pager = Clients
    BY DEF TypeInv, ClientTyped
<1>3. walk'[c] \in Walks \cup {NoWalk, Refused} /\ DOMAIN walk' = Clients
      /\ \A d \in Clients \ {c} : walk'[d] = walk[d]
    <2>1. CASE walk' = walk
        BY <1>2, <2>1
    <2>2. CASE walk' = [walk EXCEPT ![c] = [state |-> "refused"]]
        BY <1>2, <2>2 DEF Refused
    <2>3. CASE /\ walk[c].state \in {"asked", "on"} /\ pager[c] # None
               /\ walk' = [walk EXCEPT ![c] = Continued(walk[c], pager[c])]
        <3>1. walk[c] \in Walks /\ pager[c] \in Pages
            BY <1>2, <2>3 DEF NoWalk, Refused
        <3>2. Continued(walk[c], pager[c]) \in Walks
            BY <3>1, ContinuedIs
        <3>3. QED
            BY <1>2, <2>3, <3>2
    <2>4. QED
        BY <2>1, <2>2, <2>3 DEF Receive
<1>4. Elsewhere(c)
    BY <1>1, <1>2, <1>3 DEF Elsewhere, SessionInv, GuardTypeOK
<1>5. ClientTyped(c)'
    <2>1. pc'[c] = "idle" /\ request'[c] = None /\ pager'[c] = None
        BY <1>1, <1>2 DEF SessionInv, GuardTypeOK
    <2>2. found'[c] = None
        BY <1>1 DEF TypeInv, ClientTyped
    <2>3. QED
        BY <1>3, <2>1, <2>2 DEF ClientTyped
<1>6. DOMAIN pager' = Clients
    BY <1>1, <1>2
<1>7. QED
    BY <1>1, <1>3, <1>4, <1>5, <1>6, ClientStepTyped

LEMMA AskTyped ==
    ASSUME SessionInv, TypeInv, NEW c \in Clients, NEW r \in AllRequests, Ask(c, r),
           walk'[c] \in Walks \cup {NoWalk, Refused}, DOMAIN walk' = Clients,
           \A d \in Clients \ {c} : walk'[d] = walk[d]
    PROVE  TypeInv'
<1>1. /\ UNCHANGED <<nodes, audit, clock, changes, found, pager>>
      /\ pc[c] = "idle" /\ pc' = [pc EXCEPT ![c] = "token"]
      /\ request' = [request EXCEPT ![c] = r]
    BY DEF Ask, At, Goto, tableVars
<1>2. Elsewhere(c)
    BY <1>1 DEF Elsewhere, SessionInv, GuardTypeOK
<1>3. ClientTyped(c)'
    <2>1. pc'[c] = "token" /\ request'[c] = r /\ r # None
        BY <1>1, GatewayAssumption DEF SessionInv, GuardTypeOK
    <2>2. found'[c] = None /\ pager'[c] \in Pages \cup {None}
        BY <1>1 DEF TypeInv, ClientTyped
    <2>3. QED
        BY <2>1, <2>2 DEF ClientTyped
<1>4. DOMAIN pager' = Clients
    BY <1>1 DEF TypeInv
<1>5. QED
    BY <1>1, <1>2, <1>3, <1>4, ClientStepTyped

LEMMA SendTyped ==
    ASSUME SessionInv, TypeInv, NEW c \in Clients, NEW r \in Requests, Send(c, r)
    PROVE  TypeInv'
<1>1. r \in AllRequests
    <2>1. CASE r \in [path : {"list", "revisions"}, http : HttpForms]
        <3>1. r \in [path : {"list", "revisions"}, http : AllForms]
            BY <2>1, GatewayAssumption
        <3>2. QED
            BY <3>1 DEF AllRequests
    <2>2. CASE r \in [path : {"one"}, id : Ids]
        BY <2>2 DEF AllRequests
    <2>3. CASE \E n \in Names, p \in Passwords, d \in BOOLEAN : r = Login(n, p, d)
        <3>1. r \in [path : {"login"}, name : Names, password : Passwords, decodes : BOOLEAN]
            BY <2>3 DEF Login
        <3>2. QED
            BY <3>1 DEF AllRequests
    <2>4. QED
        BY <2>1, <2>2, <2>3 DEF Requests, Reads
<1>2. Ask(c, r) /\ walk' = walk
    BY DEF Send
<1>3. walk[c] \in Walks \cup {NoWalk, Refused} /\ DOMAIN walk = Clients
    BY DEF TypeInv, ClientTyped
<1>4. QED
    BY <1>1, <1>2, <1>3, AskTyped

LEMMA StartTyped ==
    ASSUME SessionInv, TypeInv, NEW c \in Clients, NEW h \in HttpForms,
           NEW p \in {"list", "revisions"}, NEW r, r = [path |-> p, http |-> h],
           StartWalk(c, r)
    PROVE  TypeInv'
<1>1. r \in WalkRequests /\ r \in AllRequests
    <2>1. h \in AllForms
        BY GatewayAssumption
    <2>2. QED
        BY <2>1 DEF WalkRequests, AllRequests
<1>2. PICK w : w = [state |-> "asked", request |-> r, waits |-> TRUE,
                    seen |-> <<>>, start |-> {}, writes |-> 0]
    OBVIOUS
<1>3. w \in Walks
    <2>1. <<>> \in Seq(AllRows)
        OBVIOUS
    <2>2. QED
        BY <1>1, <1>2, <2>1 DEF Walks
<1>4. Ask(c, r) /\ walk' = [walk EXCEPT ![c] = w]
    BY <1>2 DEF StartWalk
<1>5. DOMAIN walk = Clients
    BY DEF TypeInv
<1>6. /\ walk'[c] \in Walks \cup {NoWalk, Refused} /\ DOMAIN walk' = Clients
      /\ \A d \in Clients \ {c} : walk'[d] = walk[d]
    BY <1>3, <1>4, <1>5
<1>7. QED
    BY <1>1, <1>4, <1>6, AskTyped

LEMMA NextOfTyped ==
    ASSUME SessionInv, TypeInv, NEW c \in Clients, NextOf(c) PROVE TypeInv'
<1>1. /\ walk[c].state = "on" /\ Ask(c, walk[c].request)
      /\ walk' = [walk EXCEPT ![c].waits = TRUE]
    BY DEF NextOf
<1>2. walk[c] \in Walks /\ DOMAIN walk = Clients
    BY <1>1 DEF TypeInv, ClientTyped, NoWalk, Refused
<1>3. PICK r \in AllRequests : r = walk[c].request
    BY <1>2 DEF Walks, WalkRequests, AllRequests
<1>4. walk'[c] \in Walks /\ DOMAIN walk' = Clients /\ \A d \in Clients \ {c} : walk'[d] = walk[d]
    <2>1. walk'[c] = [walk[c] EXCEPT !.waits = TRUE]
        BY <1>1, <1>2
    <2>2. walk'[c] \in Walks
        BY <1>2, <2>1 DEF Walks
    <2>3. QED
        BY <1>1, <1>2, <2>2
<1>5. Ask(c, r)
    BY <1>1, <1>3
<1>6. QED
    BY <1>4, <1>5, AskTyped

\* A write is counted by the walks that are under way, and touches no request.
LEMMA WriteTyped ==
    ASSUME SessionInv, TypeInv, NEW i \in Ids, NEW d \in BOOLEAN, Write(i, d) PROVE TypeInv'
<1>1. TableInv'
    BY WriteIs, WriteTables DEF TypeInv
<1>2. /\ UNCHANGED <<clock, changes, request, pc, found, pager>>
      /\ walk' = [c \in Clients |->
                      IF walk[c].state = "on" THEN [walk[c] EXCEPT !.writes = @ + 1]
                      ELSE walk[c]]
    BY DEF Write, serverVars
<1>3. ASSUME NEW c \in Clients PROVE ClientTyped(c)'
    <2>1. ClientTyped(c)
        BY DEF TypeInv
    <2>2. walk'[c] = IF walk[c].state = "on" THEN [walk[c] EXCEPT !.writes = @ + 1] ELSE walk[c]
        BY <1>2
    <2>3. walk'[c] \in Walks \cup {NoWalk, Refused}
        <3>1. CASE walk[c].state = "on"
            <4>1. walk[c] \in Walks
                BY <2>1, <3>1 DEF ClientTyped, NoWalk, Refused
            <4>2. walk[c].writes + 1 \in Nat
                BY <4>1 DEF Walks
            <4>3. walk'[c] = [walk[c] EXCEPT !.writes = walk[c].writes + 1]
                BY <2>2, <3>1
            <4>4. QED
                BY <4>1, <4>2, <4>3 DEF Walks
        <3>2. CASE walk[c].state # "on"
            BY <2>1, <2>2, <3>2 DEF ClientTyped
        <3>3. QED
            BY <3>1, <3>2
    <2>4. QED
        BY <1>2, <2>1, <2>3 DEF ClientTyped
<1>4. clock' <= MaxClock /\ changes' \in 0..MaxChanges /\ DOMAIN pager' = Clients
      /\ DOMAIN walk' = Clients
    BY <1>2 DEF TypeInv
<1>5. (\A c \in Clients : ClientTyped(c))'
    BY <1>3
<1>6. QED
    BY <1>1, <1>4, <1>5 DEF TypeInv

LEMMA RestTyped ==
    ASSUME TypeInv, UNCHANGED <<nodes, audit, request, pc, found, pager, walk>>,
           clock' <= MaxClock, changes' \in 0..MaxChanges
    PROVE  TypeInv'
<1>1. TableInv'
    BY TablesKept DEF TypeInv
<1>2. (\A c \in Clients : ClientTyped(c))'
    BY DEF TypeInv, ClientTyped
<1>3. DOMAIN pager' = Clients /\ DOMAIN walk' = Clients
    BY DEF TypeInv
<1>4. QED
    BY <1>1, <1>2, <1>3 DEF TypeInv

LEMMA NextTyped == SessionInv /\ TypeInv /\ [GatewayNext]_gatewayVars => TypeInv'
<1>1. SUFFICES ASSUME SessionInv, TypeInv, [GatewayNext]_gatewayVars PROVE TypeInv'
    OBVIOUS
<1>2. ASSUME NEW c \in Clients, NEW r \in Requests, Send(c, r) PROVE TypeInv'
    BY <1>1, <1>2, SendTyped
<1>3. ASSUME NEW c \in Clients, NEW h \in HttpForms, NEW p \in {"list", "revisions"},
             StartWalk(c, [path |-> p, http |-> h])
      PROVE  TypeInv'
    BY <1>1, <1>3, StartTyped
<1>4. ASSUME NEW c \in Clients, NextOf(c) PROVE TypeInv'
    BY <1>1, <1>4, NextOfTyped
<1>5. ASSUME NEW c \in Clients, Handle(c) PROVE TypeInv'
    BY <1>1, <1>5, GuardTyped, RouteTyped, ReceiveTyped DEF Handle
<1>6. ASSUME NEW i \in Ids, NEW d \in BOOLEAN, Write(i, d) PROVE TypeInv'
    BY <1>1, <1>6, WriteTyped
<1>7. ASSUME NEW a \in Accounts, NEW n \in Names, NEW p \in Passwords, SaveUser(a, n, p)
      PROVE  TypeInv'
    <2>1. /\ UNCHANGED <<nodes, audit, request, pc, found, pager, walk, clock>>
          /\ changes < MaxChanges /\ changes' = changes + 1
        BY <1>7 DEF SaveUser, Others, clientVars, serverVars
    <2>2. clock' <= MaxClock /\ changes' \in 0..MaxChanges
        BY <1>1, <2>1, GatewayAssumption DEF TypeInv
    <2>3. QED
        BY <1>1, <2>1, <2>2, RestTyped
<1>8. CASE Tick
    <2>1. /\ UNCHANGED <<nodes, audit, request, pc, found, pager, walk, changes>>
          /\ clock < MaxClock /\ clock' = clock + 1
        BY <1>8 DEF Tick, Others, clientVars, serverVars, tableVars
    <2>2. clock' <= MaxClock /\ changes' \in 0..MaxChanges
        BY <1>1, <2>1, GatewayAssumption DEF TypeInv, SessionInv, GuardTypeOK
    <2>3. QED
        BY <1>1, <2>1, <2>2, RestTyped
<1>9. CASE UNCHANGED gatewayVars
    <2>1. UNCHANGED <<nodes, audit, request, pc, found, pager, walk, clock, changes>>
        BY <1>9 DEF gatewayVars, tableVars, clientVars, serverVars
    <2>2. clock' <= MaxClock /\ changes' \in 0..MaxChanges
        BY <1>1, <2>1 DEF TypeInv
    <2>3. QED
        BY <1>1, <2>1, <2>2, RestTyped
<1>10. QED
    BY <1>1, <1>2, <1>3, <1>4, <1>5, <1>6, <1>7, <1>8, <1>9 DEF GatewayNext

\* The types of the state, always: a page is never longer than was asked for,
\* and only a full page names another one (GetHttpSearchForm, Api.Find).
THEOREM GatewayTypes == GatewaySpec => []GatewayTypeOK
<1>1. GatewayInit => TypeInv /\ AnswerInv
    <2>1. GatewayInit => AnswerInv
        BY DEF GatewayInit, AnswerInv, AnswerAt
    <2>2. QED
        BY <2>1, InitTyped
<1>2. SessionInv /\ AnswerInv /\ TypeInv => GatewayTypeOK
    <2>1. SUFFICES ASSUME SessionInv, AnswerInv, TypeInv PROVE GatewayTypeOK
        OBVIOUS
    <2>2. clock \in 0..MaxClock /\ changes \in 0..MaxChanges
        BY <2>1, GatewayAssumption DEF SessionInv, GuardTypeOK, TypeInv
    <2>3. ASSUME NEW t \in Tokens, Earned(t) PROVE t \in Token
        <3>1. PICK l \in LoginRecord : t.expires = l.at + Validity /\ l.at <= clock
            BY <2>1, <2>3 DEF Earned, SessionInv, GuardTypeOK
        <3>2. t.expires \in 0..(MaxClock + Validity)
            BY <2>2, <3>1, GatewayAssumption DEF LoginRecord
        <3>3. QED
            BY <3>2 DEF Tokens, Token
    <2>4. ASSUME NEW c \in Clients
          PROVE  /\ request[c] # None <=> pc[c] # "idle"
                 /\ token[c] \in Token \cup {None} /\ sent[c] \in Token \cup {None}
                 /\ found[c] # None <=> pc[c] = "loginCheck"
                 /\ answer[c] # <<>> <=> pc[c] = "answered"
        <3>1. token[c] \in Token \cup {None} /\ sent[c] \in Token \cup {None}
            BY <2>1, <2>3 DEF SessionInv, GuardTypeOK, TokensEarned
        <3>2. found[c] # None <=> pc[c] = "loginCheck"
            <4>1. pc[c] = "loginCheck" => found[c] \in User
                BY <2>1 DEF SessionInv, GuardInv, ClientInv
            <4>2. None \notin User
                BY GatewayAssumption
            <4>3. QED
                BY <2>1, <4>1, <4>2 DEF TypeInv, ClientTyped
        <3>3. answer[c] # <<>> <=> pc[c] = "answered"
            <4>1. AnswerAt(c)
                BY <2>1 DEF AnswerInv
            <4>2. ASSUME Answered(request[c], <<>>) PROVE FALSE
                BY <4>2 DEF Answered
            <4>3. QED
                BY <4>1, <4>2 DEF AnswerAt
        <3>4. QED
            BY <2>1, <3>1, <3>2, <3>3 DEF TypeInv, ClientTyped
    <2>5. ASSUME NEW c \in Clients, pager[c] # None
          PROVE  /\ pager[c].page \in Nat \ {0}
                 /\ pager[c].perPage \in 1..MaxResult \cup {DefaultPerPage}
                 /\ Len(pager[c].elements) <= pager[c].perPage
                 /\ pager[c].next # 0 => Len(pager[c].elements) = pager[c].perPage
        BY <2>1, <2>5 DEF TypeInv, ClientTyped, Pages
    <2>6. account \in [Accounts -> User]
        BY <2>1 DEF SessionInv, GuardTypeOK
    <2>7. QED
        BY <2>2, <2>4, <2>5, <2>6 DEF GatewayTypeOK
<1>3. QED
    BY <1>1, <1>2, GuardInvariant, NextAnswers, NextTyped, PTL DEF GatewaySpec

-----------------------------------------------------------------------------
(* A place in a list: what is before it and what is behind, by key.        *)

Keys(path, list) == {Key(path, x) : x \in Rows(list)}
Front(path, list, b) == {Key(path, list[k]) : k \in {j \in 1..Len(list) : j <= b}}
Back(path, list, b) == {Key(path, list[k]) : k \in {j \in 1..Len(list) : j > b}}

LEMMA KeysGrow ==
    ASSUME NEW S, NEW list \in Seq(S), NEW row \in S, NEW path
    PROVE  Keys(path, Append(list, row)) = Keys(path, list) \cup {Key(path, row)}
<1>1. Rows(Append(list, row)) = Rows(list) \cup {row}
    BY RowsGrow
<1>2. QED
    BY <1>1 DEF Keys

LEMMA KeysFinite ==
    ASSUME NEW S, NEW list \in Seq(S), NEW path PROVE IsFiniteSet(Keys(path, list))
<1> DEFINE T == {s \in Seq(S) : IsFiniteSet(Keys(path, s))}
<1>1. <<>> \in T
    <2>1. Keys(path, <<>>) = {} /\ <<>> \in Seq(S)
        BY DEF Keys, Rows
    <2>2. QED
        BY <2>1, FS_EmptySet
<1>2. ASSUME NEW s \in T, NEW x \in S PROVE Append(s, x) \in T
    <2>1. s \in Seq(S) /\ Append(s, x) \in Seq(S) /\ IsFiniteSet(Keys(path, s))
        OBVIOUS
    <2> HIDE DEF T
    <2>2. Keys(path, Append(s, x)) = Keys(path, s) \cup {Key(path, x)}
        BY <2>1, KeysGrow
    <2>3. QED
        BY <2>1, <2>2, FS_AddElement DEF T
<1> HIDE DEF T
<1>3. T \in SUBSET Seq(S)
    BY DEF T
<1>4. list \in T
    BY <1>1, <1>2, <1>3, AllSequences
<1>5. QED
    BY <1>4 DEF T

\* A list has as many rows as keys.
LEMMA KeysCount ==
    ASSUME NEW S, NEW list \in Seq(S), NEW path, Distinct(path, list)
    PROVE  Cardinality(Keys(path, list)) = Len(list)
<1> DEFINE T == {s \in Seq(S) : Distinct(path, s) => Cardinality(Keys(path, s)) = Len(s)}
<1>1. <<>> \in T
    <2>1. Keys(path, <<>>) = {} /\ <<>> \in Seq(S) /\ Len(<<>>) = 0
        BY DEF Keys, Rows
    <2>2. QED
        BY <2>1, FS_EmptySet
<1>2. ASSUME NEW s \in T, NEW x \in S PROVE Append(s, x) \in T
    <2>1. /\ s \in Seq(S) /\ Append(s, x) \in Seq(S) /\ Len(Append(s, x)) = Len(s) + 1
          /\ Distinct(path, s) => Cardinality(Keys(path, s)) = Len(s)
        OBVIOUS
    <2> HIDE DEF T
    <2>2. SUFFICES ASSUME Distinct(path, Append(s, x))
                   PROVE  Cardinality(Keys(path, Append(s, x))) = Len(s) + 1
        BY <2>1 DEF T
    <2>3. Distinct(path, s) /\ \A y \in Rows(s) : Key(path, y) # Key(path, x)
        BY <2>1, <2>2, DistinctGrows
    <2>4. Key(path, x) \notin Keys(path, s) /\ IsFiniteSet(Keys(path, s))
        BY <2>1, <2>3, KeysFinite DEF Keys
    <2>5. Keys(path, Append(s, x)) = Keys(path, s) \cup {Key(path, x)}
        BY <2>1, KeysGrow
    <2>6. Cardinality(Keys(path, Append(s, x))) = Cardinality(Keys(path, s)) + 1
        BY <2>4, <2>5, FS_AddElement
    <2>7. QED
        BY <2>1, <2>3, <2>6
<1> HIDE DEF T
<1>3. T \in SUBSET Seq(S)
    BY DEF T
<1>4. list \in T
    BY <1>1, <1>2, <1>3, AllSequences
<1>5. QED
    BY <1>4 DEF T

LEMMA FrontBackFinite ==
    ASSUME NEW S, NEW list \in Seq(S), NEW path, NEW b
    PROVE  /\ Front(path, list, b) \subseteq Keys(path, list)
           /\ Back(path, list, b) \subseteq Keys(path, list)
           /\ IsFiniteSet(Front(path, list, b)) /\ IsFiniteSet(Back(path, list, b))
<1>1. /\ Front(path, list, b) \subseteq Keys(path, list)
      /\ Back(path, list, b) \subseteq Keys(path, list)
    BY DEF Front, Back, Keys, Rows
<1>2. IsFiniteSet(Keys(path, list))
    BY KeysFinite
<1>3. QED
    BY <1>1, <1>2, FS_Subset

\* From the last row on, everything is before the place.
LEMMA AtTheEnd ==
    ASSUME NEW S, NEW list \in Seq(S), NEW path, NEW b \in Nat, b >= Len(list)
    PROVE  Front(path, list, b) = Keys(path, list) /\ Back(path, list, b) = {}
<1>1. {j \in 1..Len(list) : j <= b} = 1..Len(list) /\ {j \in 1..Len(list) : j > b} = {}
    OBVIOUS
<1>2. Back(path, list, b) = {}
    BY <1>1 DEF Back
<1>3. Front(path, list, b) = Keys(path, list)
    BY <1>1 DEF Front, Keys, Rows
<1>4. QED
    BY <1>2, <1>3

\* One row further.
Passed(path, list, b, key) ==
    /\ Front(path, list, b + 1) = Front(path, list, b) \cup {key}
    /\ Back(path, list, b) = Back(path, list, b + 1) \cup {key}
    /\ key \notin Back(path, list, b + 1)

LEMMA PlaceMoves ==
    ASSUME NEW path, NEW list \in Seq(AllRows), Distinct(path, list),
           NEW b \in Nat, b + 1 <= Len(list), NEW key, key = Key(path, list[b + 1])
    PROVE  Passed(path, list, b, key)
<1>1. Len(list) \in Nat /\ b + 1 \in 1..Len(list)
    OBVIOUS
<1>2. {j \in 1..Len(list) : j <= b + 1} = {j \in 1..Len(list) : j <= b} \cup {b + 1}
    BY <1>1
<1>3. {j \in 1..Len(list) : j > b} = {j \in 1..Len(list) : j > b + 1} \cup {b + 1}
    BY <1>1
<1>4. Front(path, list, b + 1) = Front(path, list, b) \cup {key}
    BY <1>2 DEF Front
<1>5. Back(path, list, b) = Back(path, list, b + 1) \cup {key}
    BY <1>3 DEF Back
<1>6. ASSUME NEW j \in 1..Len(list), j > b + 1, Key(path, list[j]) = key PROVE FALSE
    <2>1. j = b + 1
        BY <1>1, <1>6 DEF Distinct
    <2>2. QED
        BY <1>6, <2>1
<1>7. key \notin Back(path, list, b + 1)
    BY <1>6 DEF Back
<1>8. QED
    BY <1>4, <1>5, <1>7 DEF Passed

\* B has at most one member that A has not.
OneMore(A, B) == \E x : B \subseteq A \cup {x}

LEMMA OneMoreCounts ==
    ASSUME NEW A, IsFiniteSet(A), NEW B, OneMore(A, B)
    PROVE  IsFiniteSet(B) /\ Cardinality(B) <= Cardinality(A) + 1
<1>1. PICK x : B \subseteq A \cup {x}
    BY DEF OneMore
<1>2. /\ IsFiniteSet(A \cup {x}) /\ Cardinality(A) \in Nat /\ Cardinality(A \cup {x}) \in Nat
      /\ Cardinality(A \cup {x}) <= Cardinality(A) + 1
    BY FS_AddElement, FS_CardinalityType
<1>3. IsFiniteSet(B) /\ Cardinality(B) <= Cardinality(A \cup {x})
    BY <1>1, <1>2, FS_Subset
<1>4. Cardinality(B) \in Nat
    BY <1>3, FS_CardinalityType
<1>5. QED
    BY <1>2, <1>3, <1>4

\* A list turned round.
Turned(list) == [k \in 1..Len(list) |-> list[Len(list) + 1 - k]]

LEMMA TurnedIs ==
    ASSUME NEW S, NEW list \in Seq(S)
    PROVE  /\ Turned(list) \in Seq(S) /\ Len(Turned(list)) = Len(list)
           /\ \A k \in 1..Len(list) : Turned(list)[k] = list[Len(list) + 1 - k]
           /\ Rows(Turned(list)) = Rows(list)
<1>1. Len(list) \in Nat
    OBVIOUS
<1>2. ASSUME NEW k \in 1..Len(list)
      PROVE  Len(list) + 1 - k \in 1..Len(list) /\ Len(list) + 1 - (Len(list) + 1 - k) = k
    BY <1>1
<1>3. ASSUME NEW k \in 1..Len(list) PROVE list[Len(list) + 1 - k] \in S
    BY <1>2
<1>4. Turned(list) \in Seq(S) /\ Len(Turned(list)) = Len(list)
    BY <1>1, <1>3 DEF Turned
<1>5. \A k \in 1..Len(list) : Turned(list)[k] = list[Len(list) + 1 - k]
    BY DEF Turned
<1>6. ASSUME NEW x \in Rows(list) PROVE x \in Rows(Turned(list))
    <2>1. PICK k \in 1..Len(list) : x = list[k]
        BY DEF Rows
    <2>2. PICK j \in 1..Len(list) : j = Len(list) + 1 - k /\ Len(list) + 1 - j = k
        BY <1>2
    <2>3. Turned(list)[j] = x
        BY <1>5, <2>1, <2>2
    <2>4. QED
        BY <1>4, <2>3 DEF Rows
<1>7. ASSUME NEW x \in Rows(Turned(list)) PROVE x \in Rows(list)
    <2>1. PICK k \in 1..Len(list) : x = Turned(list)[k]
        BY <1>4 DEF Rows
    <2>2. x = list[Len(list) + 1 - k]
        BY <1>5, <2>1
    <2>3. QED
        BY <1>2, <2>2 DEF Rows
<1>8. QED
    BY <1>4, <1>5, <1>6, <1>7

LEMMA TurnedDistinct ==
    ASSUME NEW S, NEW list \in Seq(S), NEW path, Distinct(path, list)
    PROVE  Distinct(path, Turned(list))
<1>1. Len(list) \in Nat /\ Len(Turned(list)) = Len(list)
    BY TurnedIs
<1>2. ASSUME NEW j \in 1..Len(list), NEW k \in 1..Len(list),
             Key(path, Turned(list)[j]) = Key(path, Turned(list)[k])
      PROVE  j = k
    <2>1. PICK m \in 1..Len(list) : m = Len(list) + 1 - j
        <3>1. Len(list) + 1 - j \in 1..Len(list)
            BY <1>1
        <3>2. QED
            BY <3>1
    <2>2. PICK n \in 1..Len(list) : n = Len(list) + 1 - k
        <3>1. Len(list) + 1 - k \in 1..Len(list)
            BY <1>1
        <3>2. QED
            BY <3>1
    <2>3. Turned(list)[j] = list[m] /\ Turned(list)[k] = list[n]
        BY <2>1, <2>2, TurnedIs
    <2>4. m = n
        BY <1>2, <2>3 DEF Distinct
    <2>5. QED
        BY <1>1, <2>1, <2>2, <2>4
<1>3. QED
    BY <1>1, <1>2 DEF Distinct

LEMMA TurnedShifted ==
    ASSUME NEW S, NEW list \in Seq(S), NEW d \in Seq(S), Shifted(list, d)
    PROVE  Shifted(Turned(list), Turned(d))
<1>1. CASE d = list
    BY <1>1 DEF Shifted
<1>2. CASE d # list
    <2>1. PICK n \in Nat : n = Len(d)
        OBVIOUS
    <2>2. n = Len(list) - 1 /\ \A k \in 1..n : d[k] = list[k] \/ d[k] = list[k + 1]
        BY <1>2, <2>1 DEF Shifted
    <2>3. /\ Len(Turned(d)) = n /\ Len(Turned(list)) = n + 1
          /\ \A k \in 1..n : Turned(d)[k] = d[n + 1 - k]
          /\ \A k \in 1..n + 1 : Turned(list)[k] = list[(n + 1) + 1 - k]
        <3>1. Len(Turned(d)) = n /\ \A k \in 1..n : Turned(d)[k] = d[n + 1 - k]
            BY <2>1, TurnedIs
        <3>2. Len(list) = n + 1
            BY <2>2
        <3>3. Len(Turned(list)) = n + 1 /\ \A k \in 1..n + 1 : Turned(list)[k] = list[(n + 1) + 1 - k]
            BY <3>2, TurnedIs
        <3>4. QED
            BY <3>1, <3>3
    <2>4. ASSUME NEW k \in 1..n
          PROVE  Turned(d)[k] = Turned(list)[k] \/ Turned(d)[k] = Turned(list)[k + 1]
        <3>1. PICK j \in 1..n : j = n + 1 - k
            OBVIOUS
        <3>2. Turned(d)[k] = d[j]
            BY <2>3, <3>1
        <3>3. d[j] = list[j] \/ d[j] = list[j + 1]
            BY <2>2
        <3>4. Turned(list)[k] = list[j + 1]
            <4>1. k \in 1..n + 1 /\ (n + 1) + 1 - k = j + 1
                BY <3>1
            <4>2. QED
                BY <2>3, <4>1
        <3>5. Turned(list)[k + 1] = list[j]
            <4>1. k + 1 \in 1..n + 1 /\ (n + 1) + 1 - (k + 1) = j
                BY <3>1
            <4>2. QED
                BY <2>3, <4>1
        <3>6. QED
            BY <3>2, <3>3, <3>4, <3>5
    <2>5. Len(Turned(d)) = Len(Turned(list)) - 1
        BY <2>3
    <2>6. QED
        BY <2>3, <2>4, <2>5 DEF Shifted
<1>3. QED
    BY <1>1, <1>2

\* A list that lost at most one row, and may have another one at an end.
Rewritten(old, new, row) ==
    \E d \in Seq(AllRows) :
        /\ Shifted(old, d)
        /\ new = d \/ new = Append(d, row) \/ new = <<row>> \o d

LEMMA RewrittenLength ==
    ASSUME NEW old \in Seq(AllRows), NEW new \in Seq(AllRows), NEW row \in AllRows,
           Rewritten(old, new, row)
    PROVE  Len(new) <= Len(old) + 1
<1>1. PICK d \in Seq(AllRows) :
        /\ Shifted(old, d)
        /\ new = d \/ new = Append(d, row) \/ new = <<row>> \o d
    BY DEF Rewritten
<1>2. Len(d) \in Nat /\ Len(old) \in Nat /\ Len(d) <= Len(old)
    BY <1>1 DEF Shifted
<1>3. Len(new) = Len(d) \/ Len(new) = Len(d) + 1
    <2>1. Len(Append(d, row)) = Len(d) + 1 /\ Len(<<row>> \o d) = Len(d) + 1
        OBVIOUS
    <2>2. QED
        BY <1>1, <2>1
<1>4. QED
    BY <1>2, <1>3

LEMMA ShiftedPlaces ==
    ASSUME NEW old \in Seq(AllRows), NEW d \in Seq(AllRows), Shifted(old, d), NEW k \in 1..Len(d)
    PROVE  \/ k \in 1..Len(old) /\ d[k] = old[k]
           \/ k + 1 \in 1..Len(old) /\ d[k] = old[k + 1]
<1>1. Len(d) \in Nat /\ Len(old) \in Nat
    OBVIOUS
<1>2. CASE d = old
    BY <1>2
<1>3. CASE d # old
    <2>1. Len(d) = Len(old) - 1 /\ (d[k] = old[k] \/ d[k] = old[k + 1])
        BY <1>3 DEF Shifted
    <2>2. k \in 1..Len(old) /\ k + 1 \in 1..Len(old)
        BY <1>1, <2>1
    <2>3. QED
        BY <2>1, <2>2
<1>4. QED
    BY <1>2, <1>3

\* A row at its old place or one before it is not behind a place it was before,
\* and if it is before a place it was behind, it is the last one there.
LEMMA FrontOneMore ==
    ASSUME NEW old \in Seq(AllRows), NEW new \in Seq(AllRows), NEW row \in AllRows,
           Rewritten(old, new, row), NEW path, NEW b \in Nat
    PROVE  OneMore(Front(path, old, b), Front(path, new, b))
<1>1. PICK d \in Seq(AllRows) :
        /\ Shifted(old, d)
        /\ new = d \/ new = Append(d, row) \/ new = <<row>> \o d
    BY DEF Rewritten
<1>2. Len(d) \in Nat /\ Len(new) \in Nat
    OBVIOUS
<1>3. ASSUME NEW k \in 1..Len(d), k + 1 <= b PROVE Key(path, d[k]) \in Front(path, old, b)
    <2>1. CASE k \in 1..Len(old) /\ d[k] = old[k]
        <3>1. k \in {j \in 1..Len(old) : j <= b}
            BY <1>3, <2>1
        <3>2. QED
            BY <2>1, <3>1 DEF Front
    <2>2. CASE k + 1 \in 1..Len(old) /\ d[k] = old[k + 1]
        <3>1. k + 1 \in {j \in 1..Len(old) : j <= b}
            BY <1>3, <2>2
        <3>2. QED
            BY <2>2, <3>1 DEF Front
    <2>3. QED
        BY <1>1, <2>1, <2>2, ShiftedPlaces
<1>4. CASE new = <<row>> \o d
    <2>1. Len(new) = Len(d) + 1 /\ new[1] = row /\ \A k \in 2..Len(new) : new[k] = d[k - 1]
        BY <1>4
    <2>2. ASSUME NEW k \in 1..Len(new), k <= b, k # 1
          PROVE  Key(path, new[k]) \in Front(path, old, b)
        <3>1. k - 1 \in 1..Len(d) /\ (k - 1) + 1 <= b /\ k \in 2..Len(new)
            BY <1>2, <2>1, <2>2
        <3>2. new[k] = d[k - 1]
            BY <2>1, <3>1
        <3>3. QED
            BY <1>3, <3>1, <3>2
    <2>3. Front(path, new, b) \subseteq Front(path, old, b) \cup {Key(path, row)}
        <3>1. ASSUME NEW k \in {j \in 1..Len(new) : j <= b}
              PROVE  Key(path, new[k]) \in Front(path, old, b) \cup {Key(path, row)}
            BY <2>1, <2>2
        <3>2. QED
            BY <3>1 DEF Front
    <2>4. QED
        BY <2>3 DEF OneMore
<1>5. CASE new = d \/ new = Append(d, row)
    <2>1. Len(new) <= Len(d) + 1 /\ \A k \in 1..Len(d) : new[k] = d[k]
        BY <1>2, <1>5
    <2>2. PICK last \in Nat : last = IF b < Len(new) THEN b ELSE Len(new)
        BY <1>2
    <2>3. ASSUME NEW k \in 1..Len(new), k <= b, k # last
          PROVE  Key(path, new[k]) \in Front(path, old, b)
        <3>1. k \in 1..Len(d) /\ k + 1 <= b
            BY <1>2, <2>1, <2>2, <2>3
        <3>2. QED
            BY <1>3, <2>1, <3>1
    <2>4. Front(path, new, b) \subseteq Front(path, old, b) \cup {Key(path, new[last])}
        <3>1. ASSUME NEW k \in {j \in 1..Len(new) : j <= b}
              PROVE  Key(path, new[k]) \in Front(path, old, b) \cup {Key(path, new[last])}
            BY <2>3
        <3>2. QED
            BY <3>1 DEF Front
    <2>5. QED
        BY <2>4 DEF OneMore
<1>6. QED
    BY <1>1, <1>4, <1>5

LEMMA BackOneMore ==
    ASSUME NEW old \in Seq(AllRows), NEW new \in Seq(AllRows), NEW row \in AllRows,
           Rewritten(old, new, row), NEW path, NEW b \in Nat
    PROVE  OneMore(Back(path, old, b), Back(path, new, b))
<1>1. PICK d \in Seq(AllRows) :
        /\ Shifted(old, d)
        /\ new = d \/ new = Append(d, row) \/ new = <<row>> \o d
    BY DEF Rewritten
<1>2. Len(d) \in Nat /\ Len(new) \in Nat
    OBVIOUS
<1>3. ASSUME NEW k \in 1..Len(d), k > b PROVE Key(path, d[k]) \in Back(path, old, b)
    <2>1. CASE k \in 1..Len(old) /\ d[k] = old[k]
        <3>1. k \in {j \in 1..Len(old) : j > b}
            BY <1>3, <2>1
        <3>2. QED
            BY <2>1, <3>1 DEF Back
    <2>2. CASE k + 1 \in 1..Len(old) /\ d[k] = old[k + 1]
        <3>1. k + 1 \in {j \in 1..Len(old) : j > b}
            BY <1>3, <2>2
        <3>2. QED
            BY <2>2, <3>1 DEF Back
    <2>3. QED
        BY <1>1, <2>1, <2>2, ShiftedPlaces
<1>4. CASE new = <<row>> \o d
    <2>1. Len(new) = Len(d) + 1 /\ new[1] = row /\ \A k \in 2..Len(new) : new[k] = d[k - 1]
        BY <1>4
    <2>2. PICK first \in Nat : first = b + 1
        OBVIOUS
    <2>3. ASSUME NEW k \in 1..Len(new), k > b, k # first
          PROVE  Key(path, new[k]) \in Back(path, old, b)
        <3>1. k - 1 \in 1..Len(d) /\ k - 1 > b /\ k \in 2..Len(new)
            BY <1>2, <2>1, <2>2, <2>3
        <3>2. new[k] = d[k - 1]
            BY <2>1, <3>1
        <3>3. QED
            BY <1>3, <3>1, <3>2
    <2>4. Back(path, new, b) \subseteq Back(path, old, b) \cup {Key(path, new[first])}
        <3>1. ASSUME NEW k \in {j \in 1..Len(new) : j > b}
              PROVE  Key(path, new[k]) \in Back(path, old, b) \cup {Key(path, new[first])}
            BY <2>3
        <3>2. QED
            BY <3>1 DEF Back
    <2>5. QED
        BY <2>4 DEF OneMore
<1>5. CASE new = d \/ new = Append(d, row)
    <2>1. /\ Len(new) <= Len(d) + 1 /\ \A k \in 1..Len(d) : new[k] = d[k]
          /\ Len(new) = Len(d) + 1 => new[Len(d) + 1] = row
        BY <1>2, <1>5
    <2>2. ASSUME NEW k \in 1..Len(new), k > b
          PROVE  Key(path, new[k]) \in Back(path, old, b) \cup {Key(path, row)}
        <3>1. CASE k \in 1..Len(d)
            BY <1>3, <2>1, <2>2, <3>1
        <3>2. CASE k \notin 1..Len(d)
            <4>1. k = Len(d) + 1 /\ Len(new) = Len(d) + 1
                BY <1>2, <2>1, <3>2
            <4>2. QED
                BY <2>1, <4>1
        <3>3. QED
            BY <3>1, <3>2
    <2>3. Back(path, new, b) \subseteq Back(path, old, b) \cup {Key(path, row)}
        <3>1. ASSUME NEW k \in {j \in 1..Len(new) : j > b}
              PROVE  Key(path, new[k]) \in Back(path, old, b) \cup {Key(path, row)}
            BY <2>2
        <3>2. QED
            BY <3>1 DEF Back
    <2>4. QED
        BY <2>3 DEF OneMore
<1>6. QED
    BY <1>1, <1>4, <1>5

-----------------------------------------------------------------------------
(* What a walk that has come to a place has seen.                          *)

\* Each write makes the walk miss at most one row that is before its place, and
\* see at most one twice; what is behind its place and was seen will be again.
Accounted(path, list, start, seen, writes, b) ==
    /\ Cardinality((Front(path, list, b) \cap start) \ Keys(path, seen)) <= writes
    /\ Len(seen) + Cardinality(Back(path, list, b) \cap Keys(path, seen))
           <= Cardinality(Keys(path, seen)) + writes

LEMMA AccountedStart ==
    ASSUME NEW path, NEW list \in Seq(AllRows), NEW start
    PROVE  Accounted(path, list, start, <<>>, 0, 0)
<1>1. Front(path, list, 0) = {}
    BY DEF Front
<1>2. Keys(path, <<>>) = {} /\ Len(<<>>) = 0
    BY DEF Keys, Rows
<1>3. Cardinality({}) = 0
    BY FS_EmptySet
<1>4. (Front(path, list, 0) \cap start) \ Keys(path, <<>>) = {}
      /\ Back(path, list, 0) \cap Keys(path, <<>>) = {}
    BY <1>1, <1>2
<1>5. /\ Cardinality((Front(path, list, 0) \cap start) \ Keys(path, <<>>)) = 0
      /\ Cardinality(Back(path, list, 0) \cap Keys(path, <<>>)) = 0
      /\ Cardinality(Keys(path, <<>>)) = 0
    BY <1>2, <1>3, <1>4
<1>6. QED
    BY <1>2, <1>5 DEF Accounted

LEMMA AccountedWrite ==
    ASSUME NEW path, NEW old \in Seq(AllRows), NEW new \in Seq(AllRows), NEW row \in AllRows,
           Rewritten(old, new, row), NEW start, NEW seen \in Seq(AllRows), NEW writes \in Nat,
           NEW b \in Nat, Accounted(path, old, start, seen, writes, b)
    PROVE  Accounted(path, new, start, seen, writes + 1, b)
<1>1. PICK K : K = Keys(path, seen)
    OBVIOUS
<1>2. PICK f : f = Front(path, old, b)
    OBVIOUS
<1>3. PICK g : g = Front(path, new, b)
    OBVIOUS
<1>4. PICK h : h = Back(path, old, b)
    OBVIOUS
<1>5. PICK i : i = Back(path, new, b)
    OBVIOUS
<1>6. IsFiniteSet(K) /\ IsFiniteSet(f) /\ IsFiniteSet(h)
    BY <1>1, <1>2, <1>4, KeysFinite, FrontBackFinite
<1>7. OneMore((f \cap start) \ K, (g \cap start) \ K)
    <2>1. PICK x : g \subseteq f \cup {x}
        BY <1>2, <1>3, FrontOneMore DEF OneMore
    <2>2. (g \cap start) \ K \subseteq ((f \cap start) \ K) \cup {x}
        BY <2>1
    <2>3. QED
        BY <2>2 DEF OneMore
<1>8. OneMore(h \cap K, i \cap K)
    <2>1. PICK x : i \subseteq h \cup {x}
        BY <1>4, <1>5, BackOneMore DEF OneMore
    <2>2. i \cap K \subseteq (h \cap K) \cup {x}
        BY <2>1
    <2>3. QED
        BY <2>2 DEF OneMore
<1>9. IsFiniteSet((f \cap start) \ K) /\ IsFiniteSet(h \cap K)
    BY <1>6, FS_Difference, FS_Intersection
<1>10. /\ Cardinality((f \cap start) \ K) \in Nat /\ Cardinality(h \cap K) \in Nat
       /\ Cardinality(K) \in Nat
    BY <1>6, <1>9, FS_CardinalityType
<1>11. /\ IsFiniteSet((g \cap start) \ K)
       /\ Cardinality((g \cap start) \ K) <= Cardinality((f \cap start) \ K) + 1
    BY <1>7, <1>9, OneMoreCounts
<1>12. IsFiniteSet(i \cap K) /\ Cardinality(i \cap K) <= Cardinality(h \cap K) + 1
    BY <1>8, <1>9, OneMoreCounts
<1>13. Cardinality((g \cap start) \ K) \in Nat /\ Cardinality(i \cap K) \in Nat
    BY <1>11, <1>12, FS_CardinalityType
<1>14. /\ Cardinality((f \cap start) \ K) <= writes
       /\ Len(seen) + Cardinality(h \cap K) <= Cardinality(K) + writes
    BY <1>1, <1>2, <1>4 DEF Accounted
<1>15. Len(seen) \in Nat
    OBVIOUS
<1>16. /\ Cardinality((g \cap start) \ K) <= writes + 1
       /\ Len(seen) + Cardinality(i \cap K) <= Cardinality(K) + (writes + 1)
    BY <1>10, <1>11, <1>12, <1>13, <1>14, <1>15
<1>17. QED
    BY <1>1, <1>3, <1>5, <1>16 DEF Accounted

\* The row at its place is seen: it is not missed, and if it was seen before it
\* no longer lies ahead.
LEMMA AccountedRow ==
    ASSUME NEW path, NEW list \in Seq(AllRows), Distinct(path, list), NEW start,
           NEW seen \in Seq(AllRows), NEW writes \in Nat, NEW b \in Nat, b + 1 <= Len(list),
           Accounted(path, list, start, seen, writes, b),
           NEW row \in AllRows, row = list[b + 1]
    PROVE  Accounted(path, list, start, Append(seen, row), writes, b + 1)
<1>1. PICK key : key = Key(path, row)
    OBVIOUS
<1>2. PICK K : K = Keys(path, seen)
    OBVIOUS
<1>3. Keys(path, Append(seen, row)) = K \cup {key}
    BY <1>1, <1>2, KeysGrow
<1>4. PICK f : f = Front(path, list, b)
    OBVIOUS
<1>5. PICK i : i = Back(path, list, b + 1)
    OBVIOUS
<1>6. /\ Front(path, list, b + 1) = f \cup {key} /\ Back(path, list, b) = i \cup {key}
      /\ key \notin i
    <2>1. key = Key(path, list[b + 1])
        BY <1>1
    <2>2. Passed(path, list, b, key)
        BY <2>1, PlaceMoves
    <2>3. QED
        BY <2>2, <1>4, <1>5 DEF Passed
<1>7. IsFiniteSet(K) /\ IsFiniteSet(f) /\ IsFiniteSet(i)
    BY <1>2, <1>4, <1>5, KeysFinite, FrontBackFinite
<1>8. /\ Cardinality((f \cap start) \ K) <= writes
      /\ Len(seen) + Cardinality((i \cup {key}) \cap K) <= Cardinality(K) + writes
    BY <1>2, <1>4, <1>6 DEF Accounted
<1>9. IsFiniteSet((f \cap start) \ K) /\ IsFiniteSet(i \cap K)
    BY <1>7, FS_Difference, FS_Intersection
<1>10. /\ Cardinality((f \cap start) \ K) \in Nat /\ Cardinality(i \cap K) \in Nat
       /\ Cardinality(K) \in Nat /\ Len(seen) \in Nat
       /\ Len(Append(seen, row)) = Len(seen) + 1
    BY <1>7, <1>9, FS_CardinalityType
<1>11. Cardinality(((f \cup {key}) \cap start) \ (K \cup {key})) <= writes
    <2>1. ((f \cup {key}) \cap start) \ (K \cup {key}) \in SUBSET ((f \cap start) \ K)
        OBVIOUS
    <2>2. /\ IsFiniteSet(((f \cup {key}) \cap start) \ (K \cup {key}))
          /\ Cardinality(((f \cup {key}) \cap start) \ (K \cup {key}))
                 <= Cardinality((f \cap start) \ K)
        BY <1>9, <2>1, FS_Subset
    <2>3. Cardinality(((f \cup {key}) \cap start) \ (K \cup {key})) \in Nat
        BY <2>2, FS_CardinalityType
    <2>4. QED
        BY <1>8, <1>10, <2>2, <2>3
<1>12. Len(seen) + 1 + Cardinality(i \cap (K \cup {key})) <= Cardinality(K \cup {key}) + writes
    <2>1. i \cap (K \cup {key}) = i \cap K
        BY <1>6
    <2>2. CASE key \in K
        <3>1. K \cup {key} = K /\ (i \cup {key}) \cap K = (i \cap K) \cup {key} /\ key \notin i \cap K
            BY <1>6, <2>2
        <3>2. Cardinality((i \cup {key}) \cap K) = Cardinality(i \cap K) + 1
            BY <1>9, <3>1, FS_AddElement
        <3>3. /\ Cardinality(K \cup {key}) = Cardinality(K)
              /\ Cardinality(i \cap (K \cup {key})) = Cardinality(i \cap K)
            BY <2>1, <3>1
        <3>4. QED
            BY <1>8, <1>10, <3>2, <3>3
    <2>3. CASE key \notin K
        <3>1. (i \cup {key}) \cap K = i \cap K
            BY <2>3
        <3>2. Cardinality(K \cup {key}) = Cardinality(K) + 1
            BY <1>7, <2>3, FS_AddElement
        <3>3. /\ Cardinality((i \cup {key}) \cap K) = Cardinality(i \cap K)
              /\ Cardinality(i \cap (K \cup {key})) = Cardinality(i \cap K)
            BY <2>1, <3>1
        <3>4. QED
            BY <1>8, <1>10, <3>2, <3>3
    <2>4. QED
        BY <2>2, <2>3
<1>13. QED
    BY <1>3, <1>5, <1>6, <1>10, <1>11, <1>12 DEF Accounted

LEMMA AppendLast ==
    ASSUME NEW p \in Seq(AllRows), NEW q \in Seq(AllRows), NEW x \in AllRows
    PROVE  p \o Append(q, x) = Append(p \o q, x)
<1>1. <<x>> \in Seq(AllRows) /\ p \o q \in Seq(AllRows)
    OBVIOUS
<1>2. Append(q, x) = q \o <<x>> /\ Append(p \o q, x) = (p \o q) \o <<x>>
    <2>1. ASSUME NEW r \in Seq(AllRows) PROVE Append(r, x) = r \o <<x>>
        BY AppendIsConcat, Zenon
    <2>2. QED
        BY <1>1, <2>1
<1>3. (p \o q) \o <<x>> = p \o (q \o <<x>>)
    <2>1. ASSUME NEW r \in Seq(AllRows) PROVE (p \o q) \o r = p \o (q \o r)
        BY ConcatAssociative
    <2>2. QED
        BY <1>1, <2>1
<1>4. QED
    BY <1>2, <1>3

LEMMA AccountedPage ==
    ASSUME NEW path, NEW list \in Seq(AllRows), Distinct(path, list), NEW start,
           NEW seen \in Seq(AllRows), NEW writes \in Nat, NEW b \in Nat,
           Accounted(path, list, start, seen, writes, b),
           NEW page \in Seq(AllRows), page = <<>> \/ b + Len(page) <= Len(list),
           \A k \in 1..Len(page) : page[k] = list[b + k]
    PROVE  Accounted(path, list, start, seen \o page, writes, b + Len(page))
<1> DEFINE Piece(s) == (s = <<>> \/ b + Len(s) <= Len(list)) /\ \A k \in 1..Len(s) : s[k] = list[b + k]
           T == {s \in Seq(AllRows) :
                    Piece(s) => Accounted(path, list, start, seen \o s, writes, b + Len(s))}
<1>1. <<>> \in T
    <2>1. <<>> \in Seq(AllRows) /\ seen \o <<>> = seen /\ b + Len(<<>>) = b
        OBVIOUS
    <2>2. QED
        BY <2>1
<1>2. ASSUME NEW s \in T, NEW x \in AllRows PROVE Append(s, x) \in T
    <2>1. /\ s \in Seq(AllRows)
          /\ Piece(s) => Accounted(path, list, start, seen \o s, writes, b + Len(s))
        OBVIOUS
    <2>2. PICK longer \in Seq(AllRows) : longer = Append(s, x)
        <3>1. Append(s, x) \in Seq(AllRows)
            BY <2>1
        <3>2. QED
            BY <3>1
    <2>3. /\ Len(longer) = Len(s) + 1 /\ longer[Len(s) + 1] = x /\ Len(s) \in Nat
          /\ \A k \in 1..Len(s) : longer[k] = s[k]
        BY <2>1, <2>2
    <2>4. longer # <<>>
        <3>1. Len(longer) # 0
            BY <2>3
        <3>2. QED
            BY <3>1
    <2> HIDE DEF T
    <2>5. SUFFICES ASSUME Piece(longer)
                   PROVE  Accounted(path, list, start, seen \o longer, writes, b + Len(longer))
        BY <2>2 DEF T
    <2>6. b + Len(longer) <= Len(list) /\ \A k \in 1..Len(longer) : longer[k] = list[b + k]
        BY <2>5, <2>4
    <2>7. Piece(s)
        <3>1. ASSUME NEW k \in 1..Len(s) PROVE s[k] = list[b + k]
            <4>1. k \in 1..Len(longer)
                BY <2>3
            <4>2. QED
                BY <2>3, <2>6, <4>1
        <3>2. b + Len(s) <= Len(list)
            BY <2>3, <2>6
        <3>3. QED
            BY <3>1, <3>2
    <2>8. PICK n \in Nat : n = b + Len(s)
        BY <2>3
    <2>9. PICK shown \in Seq(AllRows) : shown = seen \o s
        <3>1. seen \o s \in Seq(AllRows)
            BY <2>1
        <3>2. QED
            BY <3>1
    <2>10. Accounted(path, list, start, shown, writes, n)
        BY <2>1, <2>7, <2>8, <2>9
    <2>11. x = list[n + 1] /\ n + 1 <= Len(list) /\ b + Len(longer) = n + 1
        <3>1. Len(longer) \in 1..Len(longer) /\ b + Len(longer) = n + 1
            BY <2>3, <2>8
        <3>2. longer[Len(longer)] = list[b + Len(longer)]
            BY <2>6, <3>1
        <3>3. QED
            BY <2>3, <2>6, <3>1, <3>2
    <2>12. seen \o longer = Append(shown, x)
        BY <2>1, <2>2, <2>9, AppendLast
    <2>13. Accounted(path, list, start, Append(shown, x), writes, n + 1)
        BY <2>10, <2>11, AccountedRow
    <2>14. QED
        BY <2>11, <2>12, <2>13
<1>3. T \in SUBSET Seq(AllRows)
    OBVIOUS
<1>4. page \in T
    <2> HIDE DEF T
    <2>1. QED
        BY <1>1, <1>2, <1>3, AllSequences
<1>5. Piece(page)
    OBVIOUS
<1>6. QED
    BY <1>4, <1>5

LEMMA AccountedEnd ==
    ASSUME NEW path, NEW list \in Seq(AllRows), NEW start, NEW seen, NEW writes,
           NEW b \in Nat, b >= Len(list), NEW e \in Nat, e >= Len(list),
           Accounted(path, list, start, seen, writes, b)
    PROVE  Accounted(path, list, start, seen, writes, e)
<1>1. /\ Front(path, list, b) = Front(path, list, e)
      /\ Back(path, list, b) = Back(path, list, e)
    BY AtTheEnd
<1>2. QED
    BY <1>1 DEF Accounted

-----------------------------------------------------------------------------
(* The list that a search is about.                                        *)

TableOf(path, n, a) == IF path = "list" THEN n ELSE a

WantedRows(path, http) ==
    {m \in AllRows : Wanted(http, m) /\ (path = "list" \/ m.id = Subject)}

Listed(path, http, table) == Sorted(http, Picked(table, WantedRows(path, http)))

LEMMA ListedAre ==
    ASSUME NEW path, NEW http, NEW table \in Seq(AllRows)
    PROVE  /\ Listed(path, http, table) \in Seq(AllRows)
           /\ Len(Listed(path, http, table)) <= Len(table)
           /\ Rows(Listed(path, http, table)) = Rows(table) \cap WantedRows(path, http)
           /\ Distinct(path, table) => Distinct(path, Listed(path, http, table))
<1>1. PICK rows \in Seq(AllRows) : rows = Picked(table, WantedRows(path, http))
    BY PickedIn
<1>2. /\ Len(rows) <= Len(table) /\ Rows(rows) = Rows(table) \cap WantedRows(path, http)
      /\ Distinct(path, table) => Distinct(path, rows)
    <2>1. Len(rows) <= Len(table)
        BY <1>1, PickedLength
    <2>2. Rows(rows) = Rows(table) \cap WantedRows(path, http)
        BY <1>1, PickedRows
    <2>3. Distinct(path, table) => Distinct(path, rows)
        BY <1>1, PickedDistinct
    <2>4. QED
        BY <2>1, <2>2, <2>3
<1>3. /\ Turned(rows) \in Seq(AllRows) /\ Len(Turned(rows)) = Len(rows)
      /\ Rows(Turned(rows)) = Rows(rows)
      /\ Distinct(path, rows) => Distinct(path, Turned(rows))
    BY TurnedIs, TurnedDistinct
<1>4. Listed(path, http, table) = rows \/ Listed(path, http, table) = Turned(rows)
    BY <1>1 DEF Listed, Sorted, Turned
<1>5. QED
    BY <1>2, <1>3, <1>4

\* The query finds what was asked for.
LEMMA QueryIsWanted ==
    ASSUME NEW http \in AllForms, ~Refusable(http), NEW m \in AllRows
    PROVE  BuildQuery(HandleSearch(http), m) <=> Wanted(http, m)
<1>1. PICK form : form = HandleSearch(http)
    OBVIOUS
<1>2. /\ http.deleted \in {"", "true", "false"} /\ http.enabled \in {"", "true", "false"}
      /\ form.where = http.where /\ form.json = http.json
      /\ form.deleted = Flag(http.deleted, {FALSE}) /\ form.enabled = Flag(http.enabled, BOOLEAN)
    BY <1>1, FormFields
<1>3. m.deleted \in BOOLEAN /\ m.enabled \in BOOLEAN
    BY RowFields
<1>4. m.deleted \in form.deleted <=> (m.deleted <=> http.deleted = "true")
    <2>1. CASE http.deleted = "true"
        <3>1. form.deleted = {TRUE}
            BY <1>2, <2>1, Zenon DEF Flag
        <3>2. QED
            BY <1>3, <2>1, <3>1
    <2>2. CASE http.deleted # "true"
        <3>1. form.deleted = {FALSE}
            <4>1. CASE http.deleted = "false"
                <5>1. "false" # "true"
                    OBVIOUS
                <5>2. QED
                    BY <1>2, <4>1, <5>1, Zenon DEF Flag
            <4>2. CASE http.deleted # "false"
                BY <1>2, <2>2, <4>2, Zenon DEF Flag
            <4>3. QED
                BY <4>1, <4>2
        <3>2. QED
            BY <1>3, <2>2, <3>1
    <2>3. QED
        BY <2>1, <2>2
<1>5. m.enabled \in form.enabled
          <=> (http.enabled # "" => (m.enabled <=> http.enabled = "true"))
    <2>1. CASE http.enabled = "true"
        <3>1. form.enabled = {TRUE}
            BY <1>2, <2>1, Zenon DEF Flag
        <3>2. QED
            BY <1>3, <2>1, <3>1
    <2>2. CASE http.enabled = "false"
        <3>1. "false" # "true"
            OBVIOUS
        <3>2. form.enabled = {FALSE}
            BY <1>2, <2>2, <3>1, Zenon DEF Flag
        <3>3. QED
            BY <1>3, <2>2, <3>2
    <2>3. CASE http.enabled = ""
        <3>1. "" # "true" /\ "" # "false"
            OBVIOUS
        <3>2. form.enabled = BOOLEAN
            BY <1>2, <2>3, <3>1, Zenon DEF Flag
        <3>3. QED
            BY <1>3, <2>3, <3>2
    <2>4. QED
        BY <1>2, <2>1, <2>2, <2>3
<1>6. QED
    BY <1>1, <1>2, <1>4, <1>5 DEF BuildQuery, Wanted

LEMMA SelectedAreListed ==
    ASSUME TableInv, NEW path \in {"list", "revisions"}, NEW http \in AllForms, ~Refusable(http)
    PROVE  Selected(path, HandleSearch(http)) = Listed(path, http, TableOf(path, nodes, audit))
<1>1. PICK table \in Seq(AllRows) : table = TableOf(path, nodes, audit)
    BY DEF TableInv, TableOf
<1>2. Rows(table) \subseteq AllRows
    BY DEF Rows
<1>3. PICK form : form = HandleSearch(http)
    OBVIOUS
<1>4. PICK some : some = {n \in Rows(table) : /\ path = "list" \/ n.id = Subject
                                              /\ BuildQuery(form, n)}
    OBVIOUS
<1>5. Picked(table, some) = Picked(table, WantedRows(path, http))
    <2>1. Rows(table) \cap some = Rows(table) \cap WantedRows(path, http)
        BY <1>2, <1>3, <1>4, QueryIsWanted DEF WantedRows
    <2>2. table \in Seq(Rows(table))
        BY DEF Rows
    <2>3. QED
        BY <2>1, <2>2, PickedSame
<1>6. Selected(path, form) = Sorted(form, Picked(table, some))
    <2>1. CASE path = "list"
        <3>1. table = nodes /\ some = {n \in Rows(nodes) : BuildQuery(form, n)}
            BY <1>1, <1>4, <2>1 DEF TableOf
        <3>2. QED
            BY <2>1, <3>1 DEF Selected
    <2>2. CASE path # "list"
        <3>1. table = audit
              /\ some = {n \in Rows(audit) : n.id = Subject /\ BuildQuery(form, n)}
            BY <1>1, <1>4, <2>2 DEF TableOf
        <3>2. QED
            BY <2>2, <3>1 DEF Selected
    <2>3. QED
        BY <2>1, <2>2
<1>7. form.orderBy = http.orderBy
    BY <1>3, FormFields
<1>8. QED
    BY <1>1, <1>3, <1>5, <1>6, <1>7 DEF Listed, Sorted

LEMMA WantedAreListed ==
    ASSUME TableInv, NEW path, NEW http
    PROVE  WantedNow(path, http) = Keys(path, Listed(path, http, TableOf(path, nodes, audit)))
<1>1. PICK table \in Seq(AllRows) : table = TableOf(path, nodes, audit)
    BY DEF TableInv, TableOf
<1>2. PICK list : list = Listed(path, http, table)
    OBVIOUS
<1>3. Rows(list) = Rows(table) \cap WantedRows(path, http)
    BY <1>2, ListedAre
<1>4. Rows(list) = {m \in Rows(table) : Wanted(http, m) /\ (path = "list" \/ m.id = Subject)}
    <2>1. Rows(table) \subseteq AllRows
        BY DEF Rows
    <2>2. QED
        BY <1>3, <2>1 DEF WantedRows
<1>5. Rows(table) = IF path = "list" THEN Rows(nodes) ELSE Rows(audit)
    BY <1>1 DEF TableOf
<1>6. WantedNow(path, http) = {Key(path, n) : n \in Rows(list)}
    BY <1>4, <1>5 DEF WantedNow
<1>7. QED
    BY <1>1, <1>2, <1>6 DEF Keys

\* The pages of a form are pages of one list.
LEMMA ListedAlike ==
    ASSUME NEW http \in AllForms, NEW n \in Nat, NEW other, other = [http EXCEPT !.page = n]
    PROVE  /\ other \in AllForms /\ other.page = n /\ Size(other) = Size(http)
           /\ ~Refusable(http) => ~Refusable(other)
           /\ \A x : Wanted(other, x) <=> Wanted(http, x)
           /\ \A path, table : Listed(path, other, table) = Listed(path, http, table)
<1>1. /\ other \in AllForms /\ other.page = n
      /\ other.perPage = http.perPage /\ other.orderBy = http.orderBy
      /\ other.where = http.where /\ other.json = http.json
      /\ other.deleted = http.deleted /\ other.enabled = http.enabled
    BY OtherPage
<1>2. Size(other) = Size(http)
    BY <1>1 DEF Size
<1>3. ~Refusable(http) => ~Refusable(other)
    BY <1>1 DEF Refusable
<1>4. ASSUME NEW x PROVE Wanted(other, x) <=> Wanted(http, x)
    BY <1>1 DEF Wanted
<1>5. ASSUME NEW path, NEW table PROVE Listed(path, other, table) = Listed(path, http, table)
    <2>1. WantedRows(path, other) = WantedRows(path, http)
        BY <1>4 DEF WantedRows
    <2>2. QED
        BY <1>1, <2>1 DEF Listed, Sorted
<1>6. QED
    BY <1>1, <1>2, <1>3, <1>4, <1>5

LEMMA TurnedLast ==
    ASSUME NEW list \in Seq(AllRows), NEW row \in AllRows
    PROVE  Turned(Append(list, row)) = <<row>> \o Turned(list)
<1>1. PICK n \in Nat : n = Len(list)
    OBVIOUS
<1>2. PICK longer \in Seq(AllRows) : longer = Append(list, row)
    <2>1. Append(list, row) \in Seq(AllRows)
        OBVIOUS
    <2>2. QED
        BY <2>1
<1>3. /\ Len(longer) = n + 1 /\ longer[n + 1] = row /\ \A k \in 1..n : longer[k] = list[k]
    BY <1>1, <1>2
<1>4. PICK back \in Seq(AllRows) : back = Turned(list)
    BY TurnedIs
<1>5. Len(back) = n /\ \A k \in 1..n : back[k] = list[n + 1 - k]
    BY <1>1, <1>4, TurnedIs
<1>6. PICK left \in Seq(AllRows) : left = Turned(longer)
    BY TurnedIs
<1>7. Len(left) = n + 1 /\ \A k \in 1..n + 1 : left[k] = longer[(n + 1) + 1 - k]
    <2>1. /\ Len(left) = Len(longer)
          /\ \A k \in 1..Len(longer) : left[k] = longer[Len(longer) + 1 - k]
        BY <1>6, TurnedIs
    <2>2. QED
        BY <1>3, <2>1
<1>8. PICK right \in Seq(AllRows) : right = <<row>> \o back
    <2>1. <<row>> \in Seq(AllRows)
        OBVIOUS
    <2>2. <<row>> \o back \in Seq(AllRows)
        BY <2>1
    <2>3. QED
        BY <2>2
<1>9. /\ Len(right) = n + 1 /\ right[1] = row
      /\ \A k \in 2..n + 1 : right[k] = back[k - 1]
    BY <1>5, <1>8
<1>10. ASSUME NEW k \in 1..n + 1 PROVE left[k] = right[k]
    <2>1. CASE k = 1
        <3>1. (n + 1) + 1 - k = n + 1
            BY <2>1
        <3>2. QED
            BY <1>3, <1>7, <1>9, <2>1, <3>1
    <2>2. CASE k # 1
        <3>1. PICK j \in 1..n : j = k - 1
            BY <2>2
        <3>2. n + 1 - j \in 1..n /\ (n + 1) + 1 - k = n + 1 - j /\ k \in 2..n + 1
            BY <2>2, <3>1
        <3>3. left[k] = list[n + 1 - j]
            BY <1>3, <1>7, <3>2
        <3>4. right[k] = list[n + 1 - j]
            BY <1>5, <1>9, <3>1, <3>2
        <3>5. QED
            BY <3>3, <3>4
    <2>3. QED
        BY <2>1, <2>2
<1>11. left = right
    BY <1>7, <1>9, <1>10
<1>12. QED
    BY <1>2, <1>4, <1>6, <1>8, <1>11

\* A write takes the row of its node out of the list, or not, and puts one at the
\* end that the order gives to the latest, or not.
LEMMA WrittenRewrites ==
    ASSUME TableInv, NEW row \in AllRows, Written(row), NEW path \in {"list", "revisions"}, NEW http
    PROVE  Rewritten(Listed(path, http, TableOf(path, nodes, audit)),
                     Listed(path, http, TableOf(path, nodes', audit')), row)
<1>1. PICK W : W = WantedRows(path, http)
    OBVIOUS
<1>2. PICK n \in Seq(AllRows), a \in Seq(AllRows) : n = nodes /\ a = audit
    BY DEF TableInv
<1>3. PICK p \in Seq(AllRows) : p = Picked(TableOf(path, n, a), W)
    <2>1. TableOf(path, n, a) \in Seq(AllRows)
        BY DEF TableOf
    <2>2. QED
        BY <2>1, PickedIn
<1>4. PICK d \in Seq(AllRows) :
        /\ Shifted(p, d)
        /\ Picked(TableOf(path, nodes', audit'), W) = IF row \in W THEN Append(d, row) ELSE d
    <2>1. CASE path = "list"
        <3>1. PICK others : others = {x \in AllRows : x.id # row.id}
            OBVIOUS
        <3>2. Picked(n, {x \in Rows(n) : x.id # row.id}) = Picked(n, others)
            <4>1. Rows(n) \subseteq AllRows /\ n \in Seq(Rows(n))
                BY DEF Rows
            <4>2. Rows(n) \cap {x \in Rows(n) : x.id # row.id} = Rows(n) \cap others
                BY <3>1, <4>1
            <4>3. QED
                BY <4>1, <4>2, PickedSame
        <3>3. PICK rest \in Seq(AllRows) : rest = Picked(n, others)
            BY PickedIn
        <3>4. nodes' = Append(rest, row)
            BY <1>2, <3>2, <3>3 DEF Written
        <3>5. PICK d \in Seq(AllRows) : d = Picked(rest, W)
            BY PickedIn
        <3>6. Picked(TableOf(path, nodes', audit'), W) = IF row \in W THEN Append(d, row) ELSE d
            BY <2>1, <3>4, <3>5, PickedGrows DEF TableOf
        <3>7. d = Picked(p, others)
            <4>1. p = Picked(n, W)
                BY <1>3, <2>1 DEF TableOf
            <4>2. /\ Picked(Picked(n, W), others) = Picked(n, W \cap others)
                  /\ Picked(Picked(n, others), W) = Picked(n, others \cap W)
                BY PickedTwice
            <4>3. W \cap others = others \cap W
                OBVIOUS
            <4>4. QED
                BY <3>3, <3>5, <4>1, <4>2, <4>3
        <3>8. Distinct("list", p)
            <4>1. Distinct("list", n)
                BY <1>2 DEF TableInv
            <4>2. QED
                BY <1>3, <2>1, <4>1, PickedDistinct DEF TableOf
        <3>9. \A x, y \in AllRows : x \notin others /\ y \notin others => Key("list", x) = Key("list", y)
            BY <3>1 DEF Key
        <3>10. Shifted(p, d)
            BY <3>7, <3>8, <3>9, DroppedShifts
        <3>11. QED
            BY <3>6, <3>10
    <2>2. CASE path = "revisions"
        <3>1. "list" # "revisions"
            OBVIOUS
        <3>2. p = Picked(a, W) /\ TableOf(path, nodes', audit') = Append(a, row)
            BY <1>2, <1>3, <2>2, <3>1 DEF TableOf, Written
        <3>3. Picked(TableOf(path, nodes', audit'), W) = IF row \in W THEN Append(p, row) ELSE p
            BY <3>2, PickedGrows
        <3>4. Shifted(p, p)
            BY DEF Shifted
        <3>5. QED
            BY <3>3, <3>4
    <2>3. QED
        BY <2>1, <2>2
<1>5. CASE http.orderBy[1] = "asc"
    <2>1. /\ Listed(path, http, TableOf(path, nodes, audit)) = p
          /\ Listed(path, http, TableOf(path, nodes', audit'))
                = IF row \in W THEN Append(d, row) ELSE d
        BY <1>1, <1>2, <1>3, <1>4, <1>5 DEF Listed, Sorted
    <2>2. QED
        BY <1>4, <2>1 DEF Rewritten
<1>6. CASE http.orderBy[1] # "asc"
    <2>1. PICK q \in Seq(AllRows) : q = IF row \in W THEN Append(d, row) ELSE d
        <3>1. Append(d, row) \in Seq(AllRows)
            OBVIOUS
        <3>2. QED
            BY <3>1
    <2>2. /\ Listed(path, http, TableOf(path, nodes, audit)) = Turned(p)
          /\ Listed(path, http, TableOf(path, nodes', audit')) = Turned(q)
        BY <1>1, <1>2, <1>3, <1>4, <1>6, <2>1 DEF Listed, Sorted, Turned
    <2>3. PICK e \in Seq(AllRows) : e = Turned(d)
        BY TurnedIs
    <2>4. Shifted(Turned(p), e)
        BY <1>4, <2>3, TurnedShifted
    <2>5. Turned(q) = e \/ Turned(q) = <<row>> \o e
        <3>1. CASE row \notin W
            BY <2>1, <2>3, <3>1
        <3>2. CASE row \in W
            BY <2>1, <2>3, <3>2, TurnedLast
        <3>3. QED
            BY <3>1, <3>2
    <2>6. QED
        BY <2>2, <2>4, <2>5 DEF Rewritten
<1>7. QED
    BY <1>5, <1>6


\* A page holds the rows from its place on, and names the next page when there are more.
PageAt(list, b, page, perPage, p) ==
    /\ \A k \in 1..Len(p.elements) : p.elements[k] = list[b + k]
    /\ p.elements = <<>> \/ b + Len(p.elements) <= Len(list)
    /\ p.next = 0 => b + Len(p.elements) >= Len(list)
    /\ p.next # 0 => /\ p.next = page + 1 /\ Len(p.elements) = perPage
                     /\ b + perPage < Len(list)

LEMMA PagesAreThere ==
    ASSUME NEW list \in Seq(AllRows), NEW page \in Nat \ {0}, NEW perPage \in Nat \ {0},
           NEW b \in Nat, b = (page - 1) * perPage, b < Wrap
    PROVE  PageAt(list, b, page, perPage, Find(list, page, perPage))
<1>1. Offset(page, perPage) = b
    <2>1. Wrap \in Nat \ {0}
        BY SearchAssumption
    <2>2. b % Wrap = b
        BY <2>1
    <2>3. QED
        BY <2>2 DEF Offset
<1>2. PICK n \in Nat : n = Len(list)
    OBVIOUS
<1>3. PICK end \in Nat : end = (IF b + (perPage + 1) < n THEN b + (perPage + 1) ELSE n) /\ end <= n
    <2>1. (IF b + (perPage + 1) < n THEN b + (perPage + 1) ELSE n) \in Nat
        OBVIOUS
    <2>2. QED
        BY <2>1
<1>4. PICK hits \in Seq(AllRows) : hits = FindBy(list, b, perPage + 1)
    <2>1. \A k \in b + 1..end : list[k] \in AllRows
        BY <1>2, <1>3
    <2>2. SubSeq(list, b + 1, end) \in Seq(AllRows)
        BY <1>2, <1>3, <2>1
    <2>3. QED
        BY <1>2, <1>3, <2>2 DEF FindBy
<1>5. PICK m \in Nat : /\ m = Len(hits) /\ m = IF b <= end THEN end - b ELSE 0
                       /\ \A k \in 1..m : hits[k] = list[b + k]
    <2>1. hits = SubSeq(list, b + 1, end)
        BY <1>2, <1>3, <1>4 DEF FindBy
    <2>2. CASE b <= end
        <3>1. Len(hits) = end - b
            <4>1. PICK c \in Nat \ {0} : c = b + 1
                OBVIOUS
            <4>2. hits = SubSeq(list, c, end)
                BY <2>1, <4>1
            <4>3. CASE c <= end
                <5>1. Len(hits) = end - c + 1
                    BY <4>2, <4>3
                <5>2. QED
                    BY <4>1, <5>1
            <4>4. CASE ~(c <= end)
                <5>1. Len(hits) = 0
                    BY <4>2, <4>4
                <5>2. QED
                    BY <2>2, <4>1, <4>4, <5>1
            <4>5. QED
                BY <4>3, <4>4
        <3>2. end - b \in Nat
            BY <2>2
        <3>3. ASSUME NEW k \in 1..end - b PROVE hits[k] = list[b + k]
            <4>1. k \in 1..end + 1 - (b + 1) /\ (b + 1) + k - 1 = b + k
                OBVIOUS
            <4>2. hits[k] = list[(b + 1) + k - 1]
                BY <1>2, <1>3, <2>1, <4>1
            <4>3. QED
                BY <4>1, <4>2
        <3>4. QED
            BY <2>2, <3>1, <3>2, <3>3
    <2>3. CASE ~(b <= end)
        <3>1. Len(hits) = 0
            BY <1>2, <1>3, <2>1, <2>3
        <3>2. QED
            BY <2>3, <3>1
    <2>4. QED
        BY <2>2, <2>3
<1>6. PICK p : p = Find(list, page, perPage)
    OBVIOUS
<1>7. /\ p.elements = SubSeq(hits, 1, IF m > perPage THEN perPage ELSE m)
      /\ p.next = IF m > perPage THEN page + 1 ELSE 0
    BY <1>1, <1>4, <1>5, <1>6 DEF Find, Elements, NextPage
<1>8. PICK e \in Nat : e = (IF m > perPage THEN perPage ELSE m) /\ e <= m
    OBVIOUS
<1>9. Len(p.elements) = e /\ \A k \in 1..e : p.elements[k] = list[b + k]
    <2>1. p.elements = SubSeq(hits, 1, e)
        BY <1>7, <1>8
    <2>2. Len(p.elements) = e /\ \A k \in 1..e : p.elements[k] = hits[k]
        BY <1>5, <1>8, <2>1
    <2>3. \A k \in 1..e : k \in 1..m
        BY <1>8
    <2>4. QED
        BY <1>5, <2>2, <2>3
<1>10. p.elements = <<>> \/ b + e <= n
    <2>1. CASE e = 0
        <3>1. SubSeq(hits, 1, 0) = <<>>
            BY SubSeqEmpty
        <3>2. p.elements = SubSeq(hits, 1, 0)
            BY <1>7, <1>8, <2>1
        <3>3. QED
            BY <3>1, <3>2
    <2>2. CASE e # 0
        BY <1>3, <1>5, <1>8, <2>2
    <2>3. QED
        BY <2>1, <2>2
<1>11. p.next = 0 => b + e >= n
    <2>1. SUFFICES ASSUME ~(m > perPage) PROVE b + e >= n
        BY <1>7
    <2>2. e = m
        BY <1>8, <2>1
    <2>3. QED
        BY <1>3, <1>5, <2>1, <2>2
<1>12. p.next # 0 => p.next = page + 1 /\ e = perPage /\ b + perPage < n
    <2>1. SUFFICES ASSUME m > perPage PROVE p.next = page + 1 /\ e = perPage /\ b + perPage < n
        BY <1>7
    <2>2. p.next = page + 1 /\ e = perPage
        BY <1>7, <1>8, <2>1
    <2>3. QED
        BY <1>3, <1>5, <2>1, <2>2
<1>13. QED
    BY <1>2, <1>6, <1>9, <1>10, <1>11, <1>12 DEF PageAt

\* The rows of a walk's start stay in the table, wanted or deleted.
Held(path, http, start, table) ==
    \A key \in start : \E x \in Rows(table) :
        /\ Key(path, x) = key
        /\ x \in WantedRows(path, http) \/ (path = "list" /\ x.deleted)

LEMMA HeldAtFirst ==
    ASSUME NEW path, NEW http, NEW table \in Seq(AllRows)
    PROVE  Held(path, http, Keys(path, Listed(path, http, table)), table)
<1>1. PICK list : list = Listed(path, http, table)
    OBVIOUS
<1>2. Rows(list) = Rows(table) \cap WantedRows(path, http)
    BY <1>1, ListedAre
<1>3. Held(path, http, Keys(path, list), table)
    BY <1>2 DEF Held, Keys
<1>4. QED
    BY <1>1, <1>3

\* The row of a node that is written was not deleted, and differs from the new
\* one in no column that a search filters but "deleted".
LEMMA HeldOn ==
    ASSUME TableInv, NEW row \in AllRows, Written(row), NEW path \in {"list", "revisions"},
           NEW http, NEW start, Held(path, http, start, TableOf(path, nodes, audit))
    PROVE  /\ Held(path, http, start, TableOf(path, nodes', audit'))
           /\ start \cap Keys(path, Listed(path, http, TableOf(path, nodes', audit')))
                 \subseteq Keys(path, Listed(path, http, TableOf(path, nodes, audit)))
<1>1. PICK old \in Seq(AllRows) : old = TableOf(path, nodes, audit)
    BY DEF TableInv, TableOf
<1>2. TableInv'
    BY WriteTables
<1>3. PICK new \in Seq(AllRows) : new = TableOf(path, nodes', audit')
    BY <1>2 DEF TableInv, TableOf
<1>4. PICK W : W = WantedRows(path, http)
    OBVIOUS
<1>5. /\ \A x \in Rows(new) : x = row \/ x \in Rows(old)
      /\ row \in Rows(new)
      /\ \A x \in Rows(old) : x \in Rows(new) \/ (path = "list" /\ x.id = row.id /\ ~x.deleted)
    <2>1. CASE path = "list"
        <3>1. PICK n \in Seq(AllRows) : n = nodes /\ n = old
            BY <1>1, <2>1 DEF TableOf
        <3>2. PICK others : others = {x \in Rows(n) : x.id # row.id}
            OBVIOUS
        <3>3. PICK rest \in Seq(AllRows) : rest = Picked(n, others)
            BY PickedIn
        <3>4. new = Append(rest, row)
            BY <1>3, <2>1, <3>1, <3>2, <3>3 DEF TableOf, Written
        <3>5. Rows(rest) = Rows(n) \cap others
            BY <3>3, PickedRows
        <3>6. Rows(new) = Rows(rest) \cup {row}
            BY <3>4, RowsGrow
        <3>7. \A x \in Rows(n) : x.id = row.id => ~x.deleted
            BY <3>1 DEF Written
        <3>8. QED
            BY <2>1, <3>1, <3>2, <3>5, <3>6, <3>7
    <2>2. CASE path = "revisions"
        <3>1. "list" # "revisions"
            OBVIOUS
        <3>2. new = Append(old, row)
            BY <1>1, <1>3, <2>2, <3>1 DEF TableOf, Written
        <3>3. Rows(new) = Rows(old) \cup {row}
            BY <3>2, RowsGrow
        <3>4. QED
            BY <3>3
    <2>3. QED
        BY <2>1, <2>2
<1>6. Distinct(path, new)
    BY <1>2, <1>3 DEF TableInv, TableOf
<1>7. Rows(old) \subseteq AllRows /\ Rows(new) \subseteq AllRows
    BY DEF Rows
<1>8. ASSUME NEW x \in AllRows, x.id = row.id, ~x.deleted, x \in W, path = "list"
      PROVE  row \in W \/ row.deleted
    <2>1. SUFFICES ASSUME ~row.deleted PROVE row \in W
        OBVIOUS
    <2>2. /\ x.enabled = row.enabled /\ x.column = row.column /\ x.field = row.field
          /\ x.deleted = FALSE /\ row.deleted = FALSE
        BY <1>8, <2>1, RowFields
    <2>3. Wanted(http, x)
        BY <1>4, <1>8 DEF WantedRows
    <2>4. Wanted(http, row)
        BY <2>2, <2>3 DEF Wanted
    <2>5. QED
        BY <1>4, <1>8, <2>4 DEF WantedRows
<1>9. \A key \in start : \E x \in Rows(old) :
         Key(path, x) = key /\ (x \in W \/ (path = "list" /\ x.deleted))
    BY <1>1, <1>4 DEF Held
<1>10. ASSUME NEW key \in start
       PROVE  \E x \in Rows(new) : Key(path, x) = key /\ (x \in W \/ (path = "list" /\ x.deleted))
    <2>1. PICK x \in Rows(old) : Key(path, x) = key /\ (x \in W \/ (path = "list" /\ x.deleted))
        BY <1>9
    <2>2. CASE x \in Rows(new)
        BY <2>1, <2>2
    <2>3. CASE x \notin Rows(new)
        <3>1. path = "list" /\ x.id = row.id /\ ~x.deleted
            BY <1>5, <2>3
        <3>2. x \in W /\ x \in AllRows
            BY <1>7, <2>1, <3>1
        <3>3. row \in W \/ row.deleted
            BY <1>8, <3>1, <3>2
        <3>4. Key(path, row) = key
            BY <2>1, <3>1 DEF Key
        <3>5. QED
            BY <1>5, <3>1, <3>3, <3>4
    <2>4. QED
        BY <2>2, <2>3
<1>11. Held(path, http, start, new)
    BY <1>4, <1>10 DEF Held
<1>12. ASSUME NEW y \in Rows(new), y \in W, Key(path, y) \in start
       PROVE  \E x \in Rows(old) : x \in W /\ Key(path, x) = Key(path, y)
    <2>1. CASE y \in Rows(old)
        BY <1>12, <2>1
    <2>2. CASE y \notin Rows(old)
        <3>1. y = row
            BY <1>5, <2>2
        <3>2. PICK x \in Rows(old) :
                 Key(path, x) = Key(path, y) /\ (x \in W \/ (path = "list" /\ x.deleted))
            BY <1>9, <1>12
        <3>3. x \notin Rows(new)
            <4>1. SUFFICES ASSUME x \in Rows(new) PROVE x = y
                BY <2>2
            <4>2. PICK j \in 1..Len(new) : x = new[j]
                BY <4>1 DEF Rows
            <4>3. PICK k \in 1..Len(new) : y = new[k]
                BY DEF Rows
            <4>4. QED
                BY <1>6, <3>2, <4>2, <4>3 DEF Distinct
        <3>4. ~x.deleted
            BY <1>5, <3>3
        <3>5. QED
            BY <3>2, <3>4
    <2>3. QED
        BY <2>1, <2>2
<1>13. start \cap Keys(path, Listed(path, http, new)) \subseteq Keys(path, Listed(path, http, old))
    <2>1. PICK before, after : before = Listed(path, http, old) /\ after = Listed(path, http, new)
        OBVIOUS
    <2>2. Rows(before) = Rows(old) \cap W /\ Rows(after) = Rows(new) \cap W
        BY <1>4, <2>1, ListedAre
    <2>3. start \cap Keys(path, after) \subseteq Keys(path, before)
        BY <1>12, <2>2 DEF Keys
    <2>4. QED
        BY <2>1, <2>3
<1>14. QED
    BY <1>1, <1>3, <1>11, <1>13

-----------------------------------------------------------------------------
(* What a walk knows of its list.                                          *)

\* No table is longer.
Most == Len(FirstNodes) + MaxWrites

\* Its list has the rows of the start, and one more for each write.
Fits(path, http, start, writes, table) ==
    /\ Cardinality(start) \in Nat
    /\ Len(Listed(path, http, table)) <= Cardinality(start) + writes

\* It has seen its list up to a place, but for a row a write.
Progress(path, http, start, seen, writes, b, table) ==
    /\ b \in Nat /\ b <= Most
    /\ Fits(path, http, start, writes, table)
    /\ Accounted(path, Listed(path, http, table), start, seen, writes, b)
    /\ \A x \in Rows(seen) : Wanted(http, x)
    /\ Held(path, http, start, table)

\* It has come to the end.
Accurate(path, http, start, seen, writes, table) ==
    /\ Cardinality((start \cap Keys(path, Listed(path, http, table))) \ Keys(path, seen)) <= writes
    /\ Len(seen) <= Cardinality(Keys(path, seen)) + writes
    /\ \A x \in Rows(seen) : Wanted(http, x)
    /\ Held(path, http, start, table)

\* Where the page of a request begins, and the one after a page.
Place(http) == (PageOf(http) - 1) * Size(http)
After(http, p) == IF p.next = 0 THEN Most ELSE (p.next - 1) * Size(http)

LEMMA ListLength ==
    ASSUME TableInv, NEW path, NEW http
    PROVE  /\ Len(Listed(path, http, TableOf(path, nodes, audit))) <= Most
           /\ Most \in Nat /\ Most < Wrap
           /\ TableOf(path, nodes, audit) \in Seq(AllRows)
<1>1. PICK table \in Seq(AllRows) : table = TableOf(path, nodes, audit)
    BY DEF TableInv, TableOf
<1>2. Len(nodes) \in Nat /\ Len(audit) \in Nat /\ Len(FirstNodes) \in Nat
    BY GatewayAssumption DEF TableInv
<1>3. Most \in Nat /\ Most < Wrap
    BY <1>2, GatewayAssumption DEF Most
<1>4. Len(table) <= Most /\ Len(table) \in Nat
    BY <1>1, <1>2, <1>3 DEF TableInv, TableOf, Most
<1>5. Listed(path, http, table) \in Seq(AllRows) /\ Len(Listed(path, http, table)) <= Len(table)
    BY ListedAre
<1>6. Len(Listed(path, http, table)) \in Nat
    BY <1>5
<1>7. Len(Listed(path, http, table)) <= Most
    BY <1>3, <1>4, <1>5, <1>6
<1>8. QED
    BY <1>1, <1>3, <1>7

LEMMA ProgressStart ==
    ASSUME TableInv, NEW path \in {"list", "revisions"}, NEW http \in AllForms,
           http.page \in {0, 1}, ~Refusable(http), NEW table, table = TableOf(path, nodes, audit)
    PROVE  Progress(path, http, Keys(path, Listed(path, http, table)), <<>>, 0, Place(http), table)
<1>1. table \in Seq(AllRows) /\ Most \in Nat
    BY ListLength
<1>2. Place(http) = 0
    <2>1. PageOf(http) = 1 /\ Size(http) \in Nat \ {0}
        BY FormFields DEF PageOf
    <2>2. QED
        BY <2>1 DEF Place
<1>3. PICK list \in Seq(AllRows) : list = Listed(path, http, table)
    BY <1>1, ListedAre
<1>4. Accounted(path, list, Keys(path, list), <<>>, 0, 0)
    BY AccountedStart
<1>5. Held(path, http, Keys(path, list), table)
    BY <1>1, <1>3, HeldAtFirst
<1>6. Rows(<<>>) = {}
    BY DEF Rows
<1>7. Fits(path, http, Keys(path, list), 0, table)
    <2>1. Distinct(path, table)
        BY DEF TableInv, TableOf
    <2>2. Distinct(path, list)
        BY <1>1, <1>3, <2>1, ListedAre
    <2>3. Cardinality(Keys(path, list)) = Len(list) /\ Len(list) \in Nat
        BY <2>2, KeysCount
    <2>4. Len(list) <= Cardinality(Keys(path, list)) + 0
        BY <2>3
    <2>5. QED
        BY <1>3, <2>3, <2>4 DEF Fits
<1>8. QED
    BY <1>1, <1>2, <1>3, <1>4, <1>5, <1>6, <1>7 DEF Progress

LEMMA ProgressWrite ==
    ASSUME TableInv, NEW row \in AllRows, Written(row), NEW path \in {"list", "revisions"},
           NEW http, NEW start, NEW seen \in Seq(AllRows), NEW writes \in Nat, NEW b,
           Progress(path, http, start, seen, writes, b, TableOf(path, nodes, audit))
    PROVE  Progress(path, http, start, seen, writes + 1, b, TableOf(path, nodes', audit'))
<1>1. PICK old \in Seq(AllRows) : old = TableOf(path, nodes, audit)
    BY DEF TableInv, TableOf
<1>2. TableInv'
    BY WriteTables
<1>3. PICK new \in Seq(AllRows) : new = TableOf(path, nodes', audit')
    BY <1>2 DEF TableInv, TableOf
<1>4. PICK before \in Seq(AllRows), after \in Seq(AllRows) :
        before = Listed(path, http, old) /\ after = Listed(path, http, new)
    <2>1. Listed(path, http, old) \in Seq(AllRows) /\ Listed(path, http, new) \in Seq(AllRows)
        BY ListedAre
    <2>2. QED
        BY <2>1
<1>5. Rewritten(before, after, row)
    BY <1>1, <1>3, <1>4, WrittenRewrites
<1>6. b \in Nat /\ Accounted(path, before, start, seen, writes, b)
    BY <1>1, <1>4 DEF Progress
<1>7. Accounted(path, after, start, seen, writes + 1, b)
    BY <1>5, <1>6, AccountedWrite
<1>8. Held(path, http, start, new)
    <2>1. Held(path, http, start, TableOf(path, nodes, audit))
        BY DEF Progress
    <2>2. QED
        BY <1>3, <2>1, HeldOn
<1>9. Fits(path, http, start, writes + 1, new)
    <2>1. Cardinality(start) \in Nat /\ Len(before) <= Cardinality(start) + writes
        BY <1>1, <1>4 DEF Progress, Fits
    <2>2. Len(after) <= Len(before) + 1
        BY <1>5, RewrittenLength
    <2>3. Len(before) \in Nat /\ Len(after) \in Nat
        OBVIOUS
    <2>4. Len(after) <= Cardinality(start) + (writes + 1)
        BY <2>1, <2>2, <2>3
    <2>5. QED
        BY <1>4, <2>1, <2>4 DEF Fits
<1>10. QED
    BY <1>3, <1>4, <1>7, <1>8, <1>9 DEF Progress

LEMMA RowsJoin ==
    ASSUME NEW s \in Seq(AllRows), NEW t \in Seq(AllRows)
    PROVE  \A x \in Rows(s \o t) : x \in Rows(s) \/ x \in Rows(t)
<1>1. PICK m \in Nat, n \in Nat : m = Len(s) /\ n = Len(t)
    <2>1. Len(s) \in Nat /\ Len(t) \in Nat
        OBVIOUS
    <2>2. QED
        BY <2>1
<1>2. PICK both : both = s \o t
    OBVIOUS
<1>3. ASSUME NEW k \in 1..m + n PROVE both[k] \in Rows(s) \/ both[k] \in Rows(t)
    <2>1. CASE k <= m
        <3>1. both[k] = s[k] /\ k \in 1..m
            BY <1>1, <1>2, <2>1
        <3>2. QED
            BY <1>1, <3>1 DEF Rows
    <2>2. CASE ~(k <= m)
        <3>1. PICK j \in 1..n : j = k - m
            BY <2>2
        <3>2. both[k] = t[j]
            BY <1>1, <1>2, <2>2, <3>1
        <3>3. QED
            BY <1>1, <3>2 DEF Rows
    <2>3. QED
        BY <2>1, <2>2
<1>4. Len(both) = m + n
    BY <1>1, <1>2
<1>5. QED
    BY <1>2, <1>3, <1>4 DEF Rows

\* A page after the first is asked for only while rows may be left.
Sent(http, start, writes, page) ==
    page > 1 => (page - 1) * Size(http) < Cardinality(start) + writes

LEMMA ProgressPage ==
    ASSUME TableInv, NEW path \in {"list", "revisions"}, NEW http \in AllForms, ~Refusable(http),
           NEW start, NEW seen \in Seq(AllRows), NEW writes \in Nat,
           NEW table, table = TableOf(path, nodes, audit),
           Progress(path, http, start, seen, writes, Place(http), table),
           NEW p, p = Find(Listed(path, http, table), PageOf(http), Size(http))
    PROVE  /\ Progress(path, http, start, seen \o p.elements, writes, After(http, p), table)
           /\ Sent(http, start, writes, p.next)
<1>1. table \in Seq(AllRows) /\ Most \in Nat /\ Most < Wrap
    BY ListLength
<1>2. PICK list \in Seq(AllRows) : list = Listed(path, http, table)
    BY <1>1, ListedAre
<1>3. Len(list) <= Most /\ Len(list) \in Nat
    BY <1>2, ListLength
<1>4. Rows(list) \subseteq WantedRows(path, http) /\ Distinct(path, list)
    <2>1. Distinct(path, table)
        BY DEF TableInv, TableOf
    <2>2. QED
        BY <1>1, <1>2, <2>1, ListedAre
<1>5. PICK page \in Nat \ {0}, size \in Nat \ {0} : page = PageOf(http) /\ size = Size(http)
    BY FormFields
<1>6. PICK b \in Nat : b = (page - 1) * size /\ b <= Most /\ b = Place(http)
    BY <1>5 DEF Progress, Place
<1>7. PageAt(list, b, page, size, p)
    <2>1. b < Wrap
        BY <1>1, <1>6, SearchAssumption
    <2>2. QED
        BY <1>2, <1>5, <1>6, <2>1, PagesAreThere
<1>8. PICK shown \in Seq(AllRows) : shown = p.elements
    <2>1. size \in 1..MaxResult \cup {DefaultPerPage}
        BY <1>5, FormFields
    <2>2. p \in Pages
        BY <1>2, <1>5, <2>1, FindIsPage
    <2>3. QED
        BY <2>2 DEF Pages
<1>9. /\ \A k \in 1..Len(shown) : shown[k] = list[b + k]
      /\ shown = <<>> \/ b + Len(shown) <= Len(list)
      /\ p.next = 0 => b + Len(shown) >= Len(list)
      /\ p.next # 0 => p.next = page + 1 /\ Len(shown) = size /\ b + size < Len(list)
    BY <1>7, <1>8 DEF PageAt
<1>10. Len(shown) \in Nat
    OBVIOUS
<1>11. Accounted(path, list, start, seen, writes, b)
    BY <1>2, <1>6 DEF Progress
<1>12. PICK n \in Nat : n = b + Len(shown)
    BY <1>10
<1>13. Accounted(path, list, start, seen \o shown, writes, n)
    BY <1>4, <1>9, <1>11, <1>12, AccountedPage
<1>14. PICK e \in Nat : /\ e = After(http, p) /\ e <= Most
                        /\ Accounted(path, list, start, seen \o shown, writes, e)
    <2>1. CASE p.next = 0
        <3>1. n >= Len(list) /\ After(http, p) = Most
            BY <1>9, <1>12, <2>1 DEF After
        <3>2. Accounted(path, list, start, seen \o shown, writes, Most)
            BY <1>1, <1>3, <1>13, <3>1, AccountedEnd
        <3>3. QED
            BY <1>1, <3>1, <3>2
    <2>2. CASE p.next # 0
        <3>1. p.next - 1 = page /\ n = b + size /\ n < Len(list)
            <4>1. p.next = page + 1 /\ Len(shown) = size /\ b + size < Len(list)
                BY <1>9, <2>2
            <4>2. p.next - 1 = page
                BY <4>1
            <4>3. n = b + size
                BY <1>12, <4>1
            <4>4. QED
                BY <4>1, <4>2, <4>3
        <3>2. page * size = (page - 1) * size + size
            <4>1. PICK m \in Nat : m = page - 1 /\ page = m + 1
                OBVIOUS
            <4>2. (m + 1) * size = m * size + size
                OBVIOUS
            <4>3. QED
                BY <4>1, <4>2
        <3>3. After(http, p) = n
            BY <1>5, <1>6, <2>2, <3>1, <3>2 DEF After
        <3>4. n <= Most
            BY <1>1, <1>3, <3>1
        <3>5. QED
            BY <1>13, <3>3, <3>4
    <2>3. QED
        BY <2>1, <2>2
<1>15. ASSUME NEW x \in Rows(seen \o shown) PROVE Wanted(http, x)
    <2>1. CASE x \in Rows(seen)
        BY <2>1 DEF Progress
    <2>2. CASE x \in Rows(shown)
        <3>1. PICK k \in 1..Len(shown) : x = shown[k]
            BY <2>2 DEF Rows
        <3>2. shown # <<>>
            BY <3>1
        <3>3. b + k \in 1..Len(list) /\ x = list[b + k]
            BY <1>3, <1>9, <1>10, <3>1, <3>2
        <3>4. x \in WantedRows(path, http)
            BY <1>4, <3>3 DEF Rows
        <3>5. QED
            BY <3>4 DEF WantedRows
    <2>3. QED
        BY <2>1, <2>2, RowsJoin
<1>16. Sent(http, start, writes, p.next)
    <2>1. SUFFICES ASSUME p.next > 1
                   PROVE  (p.next - 1) * size < Cardinality(start) + writes
        BY <1>5 DEF Sent
    <2>2. p.next = page + 1 /\ b + size < Len(list)
        <3>1. p.next # 0
            BY <2>1
        <3>2. QED
            BY <1>9, <3>1
    <2>3. (p.next - 1) * size = b + size
        <3>1. PICK m \in Nat : m = page - 1 /\ page = m + 1
            OBVIOUS
        <3>2. (m + 1) * size = m * size + size
            OBVIOUS
        <3>3. p.next - 1 = m + 1
            BY <2>2, <3>1
        <3>4. QED
            BY <1>6, <3>1, <3>2, <3>3
    <2>4. Cardinality(start) \in Nat /\ Len(list) <= Cardinality(start) + writes
        BY <1>2 DEF Progress, Fits
    <2>5. QED
        BY <1>3, <2>2, <2>3, <2>4
<1>17. QED
    BY <1>2, <1>8, <1>14, <1>15, <1>16 DEF Progress

LEMMA ProgressEnds ==
    ASSUME TableInv, NEW path, NEW http, NEW start, NEW seen \in Seq(AllRows), NEW writes \in Nat,
           NEW table, table = TableOf(path, nodes, audit),
           Progress(path, http, start, seen, writes, Most, table)
    PROVE  Accurate(path, http, start, seen, writes, table)
<1>1. table \in Seq(AllRows) /\ Most \in Nat
    BY ListLength
<1>2. PICK list \in Seq(AllRows) : list = Listed(path, http, table)
    BY <1>1, ListedAre
<1>3. Most >= Len(list)
    BY <1>1, <1>2, ListLength
<1>4. Front(path, list, Most) = Keys(path, list) /\ Back(path, list, Most) = {}
    BY <1>1, <1>3, AtTheEnd
<1>5. PICK K : K = Keys(path, seen)
    OBVIOUS
<1>6. /\ Cardinality((Keys(path, list) \cap start) \ K) <= writes
      /\ Len(seen) + Cardinality({} \cap K) <= Cardinality(K) + writes
    BY <1>2, <1>4, <1>5 DEF Progress, Accounted
<1>7. {} \cap K = {} /\ Keys(path, list) \cap start = start \cap Keys(path, list)
    OBVIOUS
<1>8. Cardinality({} \cap K) = 0
    BY <1>7, FS_EmptySet
<1>9. Len(seen) \in Nat /\ Cardinality(K) \in Nat
    BY <1>5, KeysFinite, FS_CardinalityType
<1>10. Len(seen) <= Cardinality(K) + writes
    BY <1>6, <1>8, <1>9
<1>11. Cardinality((start \cap Keys(path, list)) \ K) <= writes
    BY <1>6, <1>7
<1>12. QED
    BY <1>2, <1>5, <1>10, <1>11 DEF Progress, Accurate

\* What is written after the end makes nothing reappear.
LEMMA AccurateWrite ==
    ASSUME TableInv, NEW row \in AllRows, Written(row), NEW path \in {"list", "revisions"},
           NEW http, NEW start, NEW seen \in Seq(AllRows), NEW writes \in Nat,
           Accurate(path, http, start, seen, writes, TableOf(path, nodes, audit))
    PROVE  Accurate(path, http, start, seen, writes, TableOf(path, nodes', audit'))
<1>1. PICK f : f = Keys(path, Listed(path, http, TableOf(path, nodes, audit)))
    OBVIOUS
<1>2. PICK g : g = Keys(path, Listed(path, http, TableOf(path, nodes', audit')))
    OBVIOUS
<1>3. Held(path, http, start, TableOf(path, nodes', audit')) /\ start \cap g \subseteq f
    <2>1. Held(path, http, start, TableOf(path, nodes, audit))
        BY DEF Accurate
    <2>2. QED
        BY <1>1, <1>2, <2>1, HeldOn
<1>4. PICK K : K = Keys(path, seen)
    OBVIOUS
<1>5. IsFiniteSet((start \cap f) \ K)
    <2>1. Listed(path, http, TableOf(path, nodes, audit)) \in Seq(AllRows)
        BY ListLength, ListedAre
    <2>2. IsFiniteSet(f)
        BY <1>1, <2>1, KeysFinite
    <2>3. (start \cap f) \ K \in SUBSET f
        OBVIOUS
    <2>4. QED
        BY <2>2, <2>3, FS_Subset
<1>6. (start \cap g) \ K \in SUBSET ((start \cap f) \ K)
    BY <1>3
<1>7. /\ IsFiniteSet((start \cap g) \ K)
      /\ Cardinality((start \cap g) \ K) <= Cardinality((start \cap f) \ K)
    BY <1>5, <1>6, FS_Subset
<1>8. Cardinality((start \cap g) \ K) \in Nat /\ Cardinality((start \cap f) \ K) \in Nat
    BY <1>5, <1>7, FS_CardinalityType
<1>9. Cardinality((start \cap f) \ K) <= writes
    BY <1>1, <1>4 DEF Accurate
<1>10. Cardinality((start \cap g) \ K) <= writes
    BY <1>7, <1>8, <1>9
<1>11. QED
    BY <1>2, <1>3, <1>4, <1>10 DEF Accurate

-----------------------------------------------------------------------------
(* A walk, at any time.                                                    *)

Due(w, page) == Sent(w.request.http, w.start, w.writes, page)

Stands(n, a, w, known, b) ==
    Progress(w.request.path, w.request.http, w.start, known, w.writes, b,
             TableOf(w.request.path, n, a))

\* A walk waits for its own request.  Before its first page it has seen nothing;
\* then it has seen its list up to the page it asks for, or that has been written,
\* and asks for no page that its list could not have.
WalkAt(n, a, w, r, label, p) ==
    /\ p # None => label = "answered"
    /\ w.state \in {"asked", "on"} /\ w.waits => label # "idle" /\ r = w.request
    /\ w.state = "asked" =>
          w.waits /\ w.seen = <<>> /\ w.writes = 0 /\ w.request.http.page \in {0, 1} /\ p = None
    /\ w.state = "on" =>
          /\ ~Refusable(w.request.http)
          /\ ~w.waits \/ p = None => Stands(n, a, w, w.seen, Place(w.request.http))
          /\ w.waits /\ p # None =>
                /\ Stands(n, a, w, w.seen \o p.elements, After(w.request.http, p))
                /\ Due(w, p.next)
          /\ Due(w, w.request.http.page)
    /\ w.state = "ended" =>
          Accurate(w.request.path, w.request.http, w.start, w.seen, w.writes,
                   TableOf(w.request.path, n, a))

ClientWalk(c) == WalkAt(nodes, audit, walk[c], request[c], pc[c], pager[c])
WalkInv == \A c \in Clients : ClientWalk(c)

LEMMA ClientStepWalks ==
    ASSUME WalkInv, NEW c \in Clients, Elsewhere(c), ClientWalk(c)', UNCHANGED <<nodes, audit>>
    PROVE  WalkInv'
<1>1. ASSUME NEW d \in Clients PROVE ClientWalk(d)'
    <2>1. CASE d = c
        BY <2>1
    <2>2. CASE d # c
        <3>1. ClientWalk(d) /\ d \in Clients \ {c}
            BY <2>2 DEF WalkInv
        <3>2. QED
            BY <3>1 DEF ClientWalk, Elsewhere
    <2>3. QED
        BY <2>1, <2>2
<1>2. QED
    BY <1>1 DEF WalkInv

LEMMA InitWalks == GatewayInit => WalkInv
<1>1. SUFFICES ASSUME GatewayInit, NEW c \in Clients PROVE ClientWalk(c)
    BY DEF WalkInv
<1>2. walk[c] = NoWalk /\ pager[c] = None
    BY <1>1 DEF GatewayInit
<1>3. walk[c].state = "off"
    BY <1>2 DEF NoWalk
<1>4. QED
    BY <1>2, <1>3 DEF ClientWalk, WalkAt

\* A request that goes on, without a page.
LEMMA LabelMoves ==
    ASSUME NEW n, NEW a, NEW w, NEW r, NEW label, NEW p, WalkAt(n, a, w, r, label, p),
           label # "answered", NEW next, next # "idle"
    PROVE  WalkAt(n, a, w, r, next, p)
BY DEF WalkAt

LEMMA GuardWalks ==
    ASSUME SessionInv, TypeInv, WalkInv, NEW c \in Clients,
           UNCHANGED <<nodes, audit, request, pager, walk>>, pc[c] # "answered",
           NEW label, label # "idle", pc' = [pc EXCEPT ![c] = label],
           \A d \in Clients \ {c} : found'[d] = found[d]
    PROVE  WalkInv'
<1>1. pc'[c] = label /\ \A d \in Clients \ {c} : pc'[d] = pc[d]
    BY DEF SessionInv, GuardTypeOK
<1>2. Elsewhere(c)
    BY <1>1 DEF Elsewhere
<1>3. ClientWalk(c)'
    <2>1. WalkAt(nodes, audit, walk[c], request[c], pc[c], pager[c])
        BY DEF WalkInv, ClientWalk
    <2>2. WalkAt(nodes, audit, walk[c], request[c], label, pager[c])
        BY <2>1, LabelMoves
    <2>3. QED
        BY <1>1, <2>2 DEF ClientWalk
<1>4. QED
    BY <1>2, <1>3, ClientStepWalks

\* The page of a request, and a walk whose first page may be this one.
PageFor(r) ==
    Find(Listed(r.path, r.http, TableOf(r.path, nodes, audit)), PageOf(r.http), Size(r.http))

Begun(w, r) ==
    IF w.state = "asked" THEN [w EXCEPT !.state = "on", !.start = WantedNow(r.path, r.http)]
    ELSE w

\* A page is written for the walk that waits for it.
LEMMA PageComes ==
    ASSUME TableInv, NEW w \in Walks \cup {NoWalk, Refused}, NEW r,
           r.path \in {"list", "revisions"}, r.http \in AllForms, ~Refusable(r.http),
           WalkAt(nodes, audit, w, r, "route", None)
    PROVE  WalkAt(nodes, audit, Begun(w, r), r, "answered", PageFor(r))
<1>1. PICK p, v : p = PageFor(r) /\ v = Begun(w, r)
    OBVIOUS
<1>2. CASE w.state = "asked"
    <2>1. w \in Walks
        BY <1>2 DEF NoWalk, Refused
    <2>2. /\ r = w.request /\ w.waits /\ w.seen = <<>> /\ w.writes = 0
          /\ r.http.page \in {0, 1}
        BY <1>2 DEF WalkAt
    <2>3. PICK path \in {"list", "revisions"}, http \in AllForms : path = r.path /\ http = r.http
        OBVIOUS
    <2>4. PICK table : table = TableOf(path, nodes, audit)
        OBVIOUS
    <2>5. PICK start : start = Keys(path, Listed(path, http, table))
        OBVIOUS
    <2>6. v = [w EXCEPT !.state = "on", !.start = start]
        BY <1>1, <1>2, <2>3, <2>4, <2>5, WantedAreListed DEF Begun
    <2>7. /\ v.state = "on" /\ v.start = start /\ v.request = r /\ v.waits /\ v.seen = <<>>
          /\ v.writes = 0
        BY <2>1, <2>2, <2>6 DEF Walks
    <2>8. Progress(path, http, start, <<>>, 0, Place(http), table)
        BY <2>2, <2>3, <2>4, <2>5, ProgressStart
    <2>9. /\ Progress(path, http, start, <<>> \o p.elements, 0, After(http, p), table)
          /\ Sent(http, start, 0, p.next)
        <3>1. <<>> \in Seq(AllRows)
            OBVIOUS
        <3>2. QED
            BY <1>1, <2>3, <2>4, <2>8, <3>1, ProgressPage DEF PageFor
    <2>10. PICK shown, e, b : shown = <<>> \o p.elements /\ e = After(http, p) /\ b = Place(http)
        OBVIOUS
    <2>11. /\ v.seen \o p.elements = shown /\ After(v.request.http, p) = e
           /\ Place(v.request.http) = b
        BY <2>3, <2>7, <2>10
    <2>12. Stands(nodes, audit, v, shown, e) /\ Stands(nodes, audit, v, <<>>, b)
        BY <2>3, <2>4, <2>7, <2>8, <2>9, <2>10 DEF Stands
    <2>13. ~Refusable(v.request.http)
        BY <2>7
    <2>14. Due(v, p.next) /\ Due(v, v.request.http.page)
        BY <2>2, <2>3, <2>7, <2>9 DEF Due, Sent
    <2>15. QED
        BY <1>1, <2>7, <2>11, <2>12, <2>13, <2>14 DEF WalkAt
<1>3. CASE w.state = "on" /\ w.waits
    <2>1. w \in Walks
        BY <1>3 DEF NoWalk, Refused
    <2>2. r = w.request /\ Stands(nodes, audit, w, w.seen, Place(r.http)) /\ Due(w, r.http.page)
        BY <1>3 DEF WalkAt
    <2>3. PICK path \in {"list", "revisions"}, http \in AllForms : path = r.path /\ http = r.http
        OBVIOUS
    <2>4. PICK table : table = TableOf(path, nodes, audit)
        OBVIOUS
    <2>5. w.seen \in Seq(AllRows) /\ w.writes \in Nat
        BY <2>1 DEF Walks
    <2>6. Progress(path, http, w.start, w.seen, w.writes, Place(http), table)
        BY <2>2, <2>3, <2>4 DEF Stands
    <2>7. /\ Progress(path, http, w.start, w.seen \o p.elements, w.writes, After(http, p), table)
          /\ Sent(http, w.start, w.writes, p.next)
        BY <1>1, <2>3, <2>4, <2>5, <2>6, ProgressPage DEF PageFor
    <2>8. Stands(nodes, audit, w, w.seen \o p.elements, After(r.http, p))
        BY <2>2, <2>3, <2>4, <2>7 DEF Stands
    <2>9. v = w
        BY <1>1, <1>3 DEF Begun
    <2>10. Due(w, p.next)
        BY <2>2, <2>3, <2>7 DEF Due
    <2>11. QED
        BY <1>1, <1>3, <2>2, <2>8, <2>9, <2>10 DEF WalkAt
<1>4. CASE w.state # "asked" /\ ~(w.state = "on" /\ w.waits)
    <2>1. v = w
        BY <1>1, <1>4 DEF Begun
    <2>2. QED
        BY <1>1, <1>4, <2>1 DEF WalkAt
<1>5. QED
    BY <1>2, <1>3, <1>4

LEMMA RouteWalks ==
    ASSUME SessionInv, TypeInv, WalkInv, NEW c \in Clients,
           ServeList(c) \/ ServeRevisions(c) \/ ServeOne(c) \/ ServeLogin(c)
    PROVE  WalkInv'
<1>1. /\ UNCHANGED <<nodes, audit, request, found>>
      /\ pc[c] = "route" /\ pc' = [pc EXCEPT ![c] = "answered"]
    BY DEF ServeList, ServeRevisions, ServeOne, ServeLogin, RouteTo, Frame, At, Goto, tableVars
<1>2. CASE UNCHANGED <<pager, walk>>
    BY <1>1, <1>2, GuardWalks
<1>3. CASE ~UNCHANGED <<pager, walk>>
    <2>1. ServeList(c) \/ ServeRevisions(c)
        BY <1>3 DEF ServeOne, ServeLogin
    <2>2. PICK r : r = request[c]
        OBVIOUS
    <2>3. /\ r.path \in {"list", "revisions"} /\ HandleSearch(r.http) # NoForm
          /\ walk' = Opened(c)
          /\ pager' = [pager EXCEPT ![c] = Find(Selected(r.path, HandleSearch(r.http)),
                          HandleSearch(r.http).page, HandleSearch(r.http).perPage)]
        BY <1>3, <2>1, <2>2, RouteServes
    <2>4. r.http \in AllForms
        <3>1. r \in AllRequests
            BY <1>1, <2>2 DEF TypeInv, ClientTyped
        <3>2. QED
            BY <2>3, <3>1 DEF AllRequests
    <2>5. ~Refusable(r.http)
        BY <2>3, FormOrNot
    <2>6. PICK p : p = PageFor(r)
        OBVIOUS
    <2>7. pager' = [pager EXCEPT ![c] = p]
        <3>1. Selected(r.path, HandleSearch(r.http))
                 = Listed(r.path, r.http, TableOf(r.path, nodes, audit))
            BY <2>3, <2>4, <2>5, SelectedAreListed DEF TypeInv
        <3>2. /\ HandleSearch(r.http).page = PageOf(r.http)
              /\ HandleSearch(r.http).perPage = Size(r.http)
            BY <2>4, <2>5, FormFields
        <3>3. QED
            BY <2>3, <2>6, <3>1, <3>2 DEF PageFor
    <2>8. PICK w, v : w = walk[c] /\ v = Begun(w, r)
        OBVIOUS
    <2>9. /\ w \in Walks \cup {NoWalk, Refused} /\ DOMAIN walk = Clients /\ DOMAIN pager = Clients
        BY <2>8 DEF TypeInv, ClientTyped
    <2>10. walk'[c] = v /\ \A d \in Clients \ {c} : walk'[d] = walk[d]
        <3>1. CASE w.state = "asked"
            <4>1. walk' = [walk EXCEPT ![c].state = "on", ![c].start = WantedNow(r.path, r.http)]
                BY <2>2, <2>3, <2>8, <3>1 DEF Opened
            <4>2. PICK start : start = WantedNow(r.path, r.http)
                OBVIOUS
            <4>3. walk'[c] = [walk[c] EXCEPT !.state = "on", !.start = start]
                BY <2>9, <4>1, <4>2
            <4>4. v = [w EXCEPT !.state = "on", !.start = start]
                BY <2>8, <3>1, <4>2 DEF Begun
            <4>5. QED
                BY <2>8, <2>9, <4>1, <4>3, <4>4
        <3>2. CASE w.state # "asked"
            BY <2>3, <2>8, <3>2 DEF Opened, Begun
        <3>3. QED
            BY <3>1, <3>2
    <2>11. WalkAt(nodes, audit, w, r, "route", None)
        <3>1. WalkAt(nodes, audit, w, r, "route", pager[c])
            BY <1>1, <2>2, <2>8 DEF WalkInv, ClientWalk
        <3>2. pager[c] = None
            BY <3>1 DEF WalkAt
        <3>3. QED
            BY <3>1, <3>2
    <2>12. WalkAt(nodes, audit, v, r, "answered", p)
        <3>1. TableInv
            BY DEF TypeInv
        <3>2. w \in Walks \cup {NoWalk, Refused} /\ r.path \in {"list", "revisions"}
            BY <2>3, <2>9
        <3>3. QED
            BY <2>4, <2>5, <2>6, <2>8, <2>11, <3>1, <3>2, PageComes
    <2>13. ClientWalk(c)'
        <3>1. pc'[c] = "answered" /\ pager'[c] = p /\ request'[c] = r
            BY <1>1, <2>2, <2>7, <2>9 DEF SessionInv, GuardTypeOK
        <3>2. QED
            BY <1>1, <2>10, <2>12, <3>1 DEF ClientWalk
    <2>14. Elsewhere(c)
        BY <1>1, <2>7, <2>9, <2>10 DEF Elsewhere, SessionInv, GuardTypeOK
    <2>15. QED
        BY <1>1, <2>13, <2>14, ClientStepWalks
<1>4. QED
    BY <1>2, <1>3

LEMMA ProgressAlike ==
    ASSUME NEW http \in AllForms, NEW n \in Nat, NEW other, other = [http EXCEPT !.page = n],
           NEW path, NEW start, NEW seen, NEW writes, NEW b, NEW table
    PROVE  /\ Progress(path, http, start, seen, writes, b, table)
                 => Progress(path, other, start, seen, writes, b, table)
           /\ Accurate(path, http, start, seen, writes, table)
                 => Accurate(path, other, start, seen, writes, table)
           /\ \A page : Sent(http, start, writes, page) => Sent(other, start, writes, page)
<1>1. PICK list : list = Listed(path, http, table) /\ list = Listed(path, other, table)
    BY ListedAlike
<1>2. \A x : Wanted(other, x) <=> Wanted(http, x)
    BY ListedAlike
<1>3. WantedRows(path, other) = WantedRows(path, http)
    BY <1>2 DEF WantedRows
<1>4. Held(path, http, start, table) => Held(path, other, start, table)
    BY <1>3 DEF Held
<1>5. Size(other) = Size(http)
    BY DEF Size, AllForms
<1>6. QED
    BY <1>1, <1>2, <1>4, <1>5 DEF Progress, Accurate, Fits, Sent

\* The page arrives.
LEMMA PageArrives ==
    ASSUME TableInv, NEW w \in Walks, NEW r, NEW p \in Pages, p # None,
           w.state \in {"asked", "on"}, w.waits,
           WalkAt(nodes, audit, w, r, "answered", p)
    PROVE  WalkAt(nodes, audit, Continued(w, p), None, "idle", None)
<1>1. PICK path \in {"list", "revisions"}, http \in AllForms :
        path = w.request.path /\ http = w.request.http
    BY DEF Walks, WalkRequests
<1>2. PICK known \in Seq(AllRows), writes \in Nat, start \in SUBSET (Ids \X Nat) :
        known = w.seen /\ writes = w.writes /\ start = w.start
    BY DEF Walks
<1>3. PICK shown \in Seq(AllRows) : shown = known \o p.elements
    <2>1. p.elements \in Seq(AllRows)
        BY DEF Pages
    <2>2. ASSUME NEW s \in Seq(AllRows), NEW t \in Seq(AllRows) PROVE s \o t \in Seq(AllRows)
        OBVIOUS
    <2>3. QED
        BY <2>1, <2>2
<1>4. PICK table : table = TableOf(path, nodes, audit)
    OBVIOUS
<1>5. w.state = "on" /\ ~Refusable(http)
    BY <1>1 DEF WalkAt
<1>6. Progress(path, http, start, shown, writes, After(http, p), table)
    <2>1. Stands(nodes, audit, w, w.seen \o p.elements, After(w.request.http, p))
        BY <1>5 DEF WalkAt
    <2>2. w.seen \o p.elements = shown
        BY <1>2, <1>3
    <2>3. QED
        BY <1>1, <1>2, <1>4, <2>1, <2>2 DEF Stands
<1>7. PICK n \in Nat : n = p.next
    BY DEF Pages
<1>8. PICK other \in AllForms : other = [http EXCEPT !.page = n]
    BY OtherPage
<1>9. PICK v : v = Continued(w, p)
    OBVIOUS
<1>10. /\ v.state = (IF n = 0 THEN "ended" ELSE "on") /\ v.request.path = path
       /\ v.request.http = other /\ v.waits = FALSE /\ v.seen = shown /\ v.start = start
       /\ v.writes = writes
    BY <1>1, <1>2, <1>3, <1>7, <1>8, <1>9, ContinuedIs
<1>11. CASE n = 0
    <2>1. After(http, p) = Most
        BY <1>7, <1>11 DEF After
    <2>2. Accurate(path, http, start, shown, writes, table)
        BY <1>4, <1>6, <2>1, ProgressEnds
    <2>3. Accurate(path, other, start, shown, writes, table)
        BY <1>8, <2>2, ProgressAlike
    <2>4. v.state = "ended"
        BY <1>10, <1>11
    <2>5. QED
        BY <1>4, <1>9, <1>10, <2>3, <2>4 DEF WalkAt
<1>12. CASE n # 0
    <2>1. other.page = n /\ Size(other) = Size(http) /\ ~Refusable(other)
        BY <1>5, <1>8, ListedAlike
    <2>2. Place(other) = After(http, p)
        BY <1>7, <1>12, <2>1 DEF Place, After, PageOf
    <2>3. Progress(path, other, start, shown, writes, Place(other), table)
        BY <1>6, <1>8, <2>2, ProgressAlike
    <2>4. Stands(nodes, audit, v, v.seen, Place(v.request.http))
        BY <1>4, <1>10, <2>3 DEF Stands
    <2>5. v.state = "on" /\ ~Refusable(v.request.http)
        BY <1>10, <1>12, <2>1
    <2>6. Due(v, v.request.http.page)
        <3>1. Due(w, p.next)
            BY <1>5 DEF WalkAt
        <3>2. Sent(http, start, writes, n)
            BY <1>1, <1>2, <1>7, <3>1 DEF Due
        <3>3. Sent(other, start, writes, n)
            BY <1>8, <3>2, ProgressAlike
        <3>4. QED
            BY <1>10, <2>1, <3>3 DEF Due
    <2>7. QED
        BY <1>9, <1>10, <2>4, <2>5, <2>6 DEF WalkAt
<1>13. QED
    BY <1>11, <1>12

LEMMA ReceiveWalks ==
    ASSUME SessionInv, TypeInv, WalkInv, NEW c \in Clients, Receive(c) PROVE WalkInv'
<1>1. /\ UNCHANGED <<nodes, audit, found>>
      /\ pc[c] = "answered" /\ pc' = [pc EXCEPT ![c] = "idle"]
      /\ request' = [request EXCEPT ![c] = None] /\ pager' = [pager EXCEPT ![c] = None]
    BY DEF Receive, At, Goto, tableVars
<1>2. /\ walk[c] \in Walks \cup {NoWalk, Refused} /\ pager[c] \in Pages \cup {None}
      /\ DOMAIN walk = Clients /\ DOMAIN pager = Clients
    BY DEF TypeInv, ClientTyped
<1>3. PICK w, p : w = walk[c] /\ p = pager[c]
    OBVIOUS
<1>4. WalkAt(nodes, audit, w, request[c], "answered", p)
    BY <1>1, <1>3 DEF WalkInv, ClientWalk
<1>5. PICK v : /\ walk'[c] = v /\ \A d \in Clients \ {c} : walk'[d] = walk[d]
               /\ WalkAt(nodes, audit, v, None, "idle", None)
    <2>1. CASE w.state \notin {"asked", "on"} \/ ~w.waits
        <3>1. WalkAt(nodes, audit, w, None, "idle", None)
            BY <1>4, <2>1 DEF WalkAt
        <3>2. walk' = walk
            BY <1>3, <2>1 DEF Receive
        <3>3. QED
            BY <1>3, <3>1, <3>2
    <2>2. CASE w.state \in {"asked", "on"} /\ w.waits /\ p = None
        <3>1. walk' = [walk EXCEPT ![c] = [state |-> "refused"]]
            BY <1>3, <2>2 DEF Receive
        <3>2. PICK v : v = [state |-> "refused"]
            OBVIOUS
        <3>3. v.state = "refused"
            BY <3>2
        <3>4. WalkAt(nodes, audit, v, None, "idle", None)
            BY <3>3 DEF WalkAt
        <3>5. QED
            BY <1>2, <3>1, <3>2, <3>4
    <2>3. CASE w.state \in {"asked", "on"} /\ w.waits /\ p # None
        <3>1. walk' = [walk EXCEPT ![c] = Continued(w, p)]
            BY <1>3, <2>3 DEF Receive
        <3>2. w \in Walks /\ p \in Pages
            BY <1>2, <1>3, <2>3 DEF NoWalk, Refused
        <3>3. WalkAt(nodes, audit, Continued(w, p), None, "idle", None)
            BY <1>4, <2>3, <3>2, PageArrives DEF TypeInv
        <3>4. QED
            BY <1>2, <3>1, <3>3
    <2>4. QED
        BY <2>1, <2>2, <2>3
<1>6. /\ walk'[c] = v /\ \A d \in Clients \ {c} : walk'[d] = walk[d]
      /\ pc'[c] = "idle" /\ request'[c] = None /\ pager'[c] = None
    BY <1>1, <1>2, <1>5 DEF SessionInv, GuardTypeOK
<1>7. ClientWalk(c)'
    BY <1>1, <1>5, <1>6 DEF ClientWalk
<1>8. Elsewhere(c)
    BY <1>1, <1>2, <1>6 DEF Elsewhere, SessionInv, GuardTypeOK
<1>9. QED
    BY <1>1, <1>7, <1>8, ClientStepWalks

LEMMA AskWalks ==
    ASSUME SessionInv, TypeInv, WalkInv, NEW c \in Clients, NEW r, Ask(c, r),
           NEW w, walk'[c] = w, \A d \in Clients \ {c} : walk'[d] = walk[d],
           WalkAt(nodes, audit, walk[c], request[c], "idle", None) =>
               WalkAt(nodes, audit, w, r, "token", None)
    PROVE  WalkInv'
<1>1. /\ UNCHANGED <<nodes, audit, found, pager>>
      /\ pc[c] = "idle" /\ pc' = [pc EXCEPT ![c] = "token"]
      /\ request' = [request EXCEPT ![c] = r]
    BY DEF Ask, At, Goto, tableVars
<1>2. WalkAt(nodes, audit, walk[c], request[c], "idle", pager[c])
    BY <1>1 DEF WalkInv, ClientWalk
<1>3. pager[c] = None
    BY <1>2 DEF WalkAt
<1>4. pc'[c] = "token" /\ request'[c] = r
    BY <1>1 DEF SessionInv, GuardTypeOK
<1>5. WalkAt(nodes, audit, w, r, "token", None)
    BY <1>2, <1>3
<1>6. ClientWalk(c)'
    BY <1>1, <1>3, <1>4, <1>5 DEF ClientWalk
<1>7. Elsewhere(c)
    BY <1>1 DEF Elsewhere, SessionInv, GuardTypeOK
<1>8. QED
    BY <1>1, <1>6, <1>7, ClientStepWalks

LEMMA SendWalks ==
    ASSUME SessionInv, TypeInv, WalkInv, NEW c \in Clients, NEW r, Send(c, r) PROVE WalkInv'
<1>1. Ask(c, r) /\ walk' = walk
    BY DEF Send
<1>2. WalkAt(nodes, audit, walk[c], request[c], "idle", None) =>
          WalkAt(nodes, audit, walk[c], r, "token", None)
    BY DEF WalkAt
<1>3. QED
    BY <1>1, <1>2, AskWalks

LEMMA StartWalks ==
    ASSUME SessionInv, TypeInv, WalkInv, NEW c \in Clients, NEW r, StartWalk(c, r)
    PROVE  WalkInv'
<1>1. PICK w : w = [state |-> "asked", request |-> r, waits |-> TRUE,
                    seen |-> <<>>, start |-> {}, writes |-> 0]
    OBVIOUS
<1>2. Ask(c, r) /\ walk' = [walk EXCEPT ![c] = w] /\ r.http.page \in {0, 1}
    BY <1>1 DEF StartWalk
<1>3. walk'[c] = w /\ \A d \in Clients \ {c} : walk'[d] = walk[d]
    BY <1>2 DEF TypeInv
<1>4. /\ w.state = "asked" /\ w.request = r /\ w.waits /\ w.seen = <<>> /\ w.writes = 0
    BY <1>1
<1>5. WalkAt(nodes, audit, w, r, "token", None)
    BY <1>2, <1>4 DEF WalkAt
<1>6. QED
    BY <1>2, <1>3, <1>5, AskWalks

LEMMA NextOfWalks ==
    ASSUME SessionInv, TypeInv, WalkInv, NEW c \in Clients, NextOf(c) PROVE WalkInv'
<1>1. /\ walk[c].state = "on" /\ Ask(c, walk[c].request)
      /\ walk' = [walk EXCEPT ![c].waits = TRUE]
    BY DEF NextOf
<1>2. walk[c] \in Walks /\ DOMAIN walk = Clients
    BY <1>1 DEF TypeInv, ClientTyped, NoWalk, Refused
<1>3. PICK w, v : w = walk[c] /\ v = [walk[c] EXCEPT !.waits = TRUE]
    OBVIOUS
<1>4. walk'[c] = v /\ \A d \in Clients \ {c} : walk'[d] = walk[d]
    BY <1>1, <1>2, <1>3
<1>5. /\ v.state = "on" /\ w.state = "on" /\ v.request = w.request /\ v.seen = w.seen
      /\ v.start = w.start /\ v.writes = w.writes
    BY <1>1, <1>2, <1>3 DEF Walks
<1>6. ASSUME WalkAt(nodes, audit, w, request[c], "idle", None)
      PROVE  WalkAt(nodes, audit, v, w.request, "token", None)
    <2>1. Stands(nodes, audit, w, w.seen, Place(w.request.http)) /\ ~Refusable(w.request.http)
        BY <1>5, <1>6 DEF WalkAt
    <2>2. Stands(nodes, audit, v, v.seen, Place(v.request.http))
        BY <1>5, <2>1 DEF Stands
    <2>3. Due(v, v.request.http.page)
        BY <1>5, <1>6 DEF WalkAt, Due
    <2>4. QED
        BY <1>5, <2>1, <2>2, <2>3 DEF WalkAt
<1>7. QED
    BY <1>1, <1>3, <1>4, <1>6, AskWalks

\* A write is counted by the walks that are under way.
LEMMA WriteWalks ==
    ASSUME TypeInv, WalkInv, NEW i \in Ids, NEW deleted \in BOOLEAN, Write(i, deleted)
    PROVE  WalkInv'
<1>1. TableInv
    BY DEF TypeInv
<1>2. PICK row \in AllRows : Written(row)
    BY <1>1, WriteIs
<1>3. /\ UNCHANGED <<request, pc, pager>>
      /\ walk' = [c \in Clients |->
                      IF walk[c].state = "on" THEN [walk[c] EXCEPT !.writes = @ + 1]
                      ELSE walk[c]]
    BY DEF Write, serverVars
<1>4. ASSUME NEW c \in Clients PROVE ClientWalk(c)'
    <2>1. PICK w, v : w = walk[c] /\ v = walk'[c]
        OBVIOUS
    <2>2. PICK r, label, p : r = request[c] /\ label = pc[c] /\ p = pager[c]
        OBVIOUS
    <2>3. WalkAt(nodes, audit, w, r, label, p)
        BY <2>1, <2>2 DEF WalkInv, ClientWalk
    <2>4. w \in Walks \cup {NoWalk, Refused} /\ p \in Pages \cup {None}
        BY <2>1, <2>2 DEF TypeInv, ClientTyped
    <2>5. v = IF w.state = "on" THEN [w EXCEPT !.writes = @ + 1] ELSE w
        BY <1>3, <2>1
    <2>6. CASE w.state = "on"
        <3>1. w \in Walks
            BY <2>4, <2>6 DEF NoWalk, Refused
        <3>2. PICK path \in {"list", "revisions"}, http \in AllForms, writes \in Nat,
                   start \in SUBSET (Ids \X Nat) :
                path = w.request.path /\ http = w.request.http /\ writes = w.writes
                /\ start = w.start
            BY <3>1 DEF Walks, WalkRequests
        <3>3. /\ v.state = "on" /\ v.request = w.request /\ v.waits = w.waits
              /\ v.seen = w.seen /\ v.start = start /\ v.writes = writes + 1
            BY <2>5, <2>6, <3>1, <3>2 DEF Walks
        <3>4. ASSUME NEW known \in Seq(AllRows), NEW b, Stands(nodes, audit, w, known, b)
              PROVE  Stands(nodes', audit', v, known, b)
            <4>1. Progress(path, http, start, known, writes, b, TableOf(path, nodes, audit))
                BY <3>2, <3>4 DEF Stands
            <4>2. Progress(path, http, start, known, writes + 1, b, TableOf(path, nodes', audit'))
                BY <1>1, <1>2, <4>1, ProgressWrite
            <4>3. QED
                BY <3>2, <3>3, <4>2 DEF Stands
        <3>5. w.seen \in Seq(AllRows)
            BY <3>1 DEF Walks
        <3>6. ASSUME w.waits, p # None PROVE w.seen \o p.elements \in Seq(AllRows)
            <4>1. p.elements \in Seq(AllRows)
                BY <2>4, <3>6 DEF Pages
            <4>2. ASSUME NEW s \in Seq(AllRows), NEW t \in Seq(AllRows) PROVE s \o t \in Seq(AllRows)
                OBVIOUS
            <4>3. QED
                BY <3>5, <4>1, <4>2
        <3>7. ~w.waits \/ p = None => Stands(nodes', audit', v, v.seen, Place(v.request.http))
            <4>1. SUFFICES ASSUME ~w.waits \/ p = None
                           PROVE  Stands(nodes', audit', v, v.seen, Place(v.request.http))
                OBVIOUS
            <4>2. Stands(nodes, audit, w, w.seen, Place(w.request.http))
                BY <2>3, <2>6, <4>1 DEF WalkAt
            <4>3. Stands(nodes', audit', v, w.seen, Place(w.request.http))
                BY <3>4, <3>5, <4>2
            <4>4. QED
                BY <3>3, <4>3
        <3>8. w.waits /\ p # None =>
                  Stands(nodes', audit', v, v.seen \o p.elements, After(v.request.http, p))
            <4>1. SUFFICES ASSUME w.waits, p # None
                           PROVE  Stands(nodes', audit', v, v.seen \o p.elements,
                                         After(v.request.http, p))
                OBVIOUS
            <4>2. PICK shown \in Seq(AllRows) : shown = w.seen \o p.elements
                BY <3>6, <4>1
            <4>3. Stands(nodes, audit, w, shown, After(w.request.http, p))
                BY <2>3, <2>6, <4>1, <4>2 DEF WalkAt
            <4>4. Stands(nodes', audit', v, shown, After(w.request.http, p))
                BY <3>4, <4>3
            <4>5. QED
                BY <3>3, <4>2, <4>4
        <3>9. \A page \in Nat : Due(w, page) => Due(v, page)
            <4>1. Cardinality(start) \in Nat
                <5>1. PICK known, b : Stands(nodes, audit, w, known, b)
                    BY <2>3, <2>6 DEF WalkAt
                <5>2. QED
                    BY <3>2, <5>1 DEF Stands, Progress, Fits
            <4>2. SUFFICES ASSUME NEW page \in Nat, Due(w, page), page > 1
                           PROVE  (page - 1) * Size(http) < Cardinality(start) + (writes + 1)
                BY <3>2, <3>3 DEF Due, Sent
            <4>3. (page - 1) * Size(http) < Cardinality(start) + writes
                BY <3>2, <4>2 DEF Due, Sent
            <4>4. ~Refusable(http)
                BY <2>3, <2>6, <3>2 DEF WalkAt
            <4>5. PICK size \in Nat : size = Size(http)
                BY <4>4, FormFields
            <4>6. PICK m \in Nat : m = (page - 1) * size
                BY <4>2
            <4>7. QED
                BY <4>1, <4>3, <4>5, <4>6
        <3>10. /\ Due(v, v.request.http.page)
               /\ w.waits /\ p # None => Due(v, p.next)
            <4>1. ~Refusable(http)
                BY <2>3, <2>6, <3>2 DEF WalkAt
            <4>2. http.page \in Nat
                BY <4>1, FormFields
            <4>3. p # None => p.next \in Nat
                BY <2>4 DEF Pages
            <4>4. Due(w, w.request.http.page) /\ (w.waits /\ p # None => Due(w, p.next))
                BY <2>3, <2>6 DEF WalkAt
            <4>5. QED
                BY <3>2, <3>3, <3>9, <4>2, <4>3, <4>4
        <3>11. WalkAt(nodes', audit', v, r, label, p)
            BY <2>3, <2>6, <3>3, <3>7, <3>8, <3>10 DEF WalkAt
        <3>12. QED
            BY <1>3, <2>1, <2>2, <3>11 DEF ClientWalk
    <2>7. CASE w.state = "ended"
        <3>1. w \in Walks
            BY <2>4, <2>7 DEF NoWalk, Refused
        <3>2. PICK path \in {"list", "revisions"}, http \in AllForms, writes \in Nat,
                   start \in SUBSET (Ids \X Nat), known \in Seq(AllRows) :
                path = w.request.path /\ http = w.request.http /\ writes = w.writes
                /\ start = w.start /\ known = w.seen
            BY <3>1 DEF Walks, WalkRequests
        <3>3. Accurate(path, http, start, known, writes, TableOf(path, nodes, audit))
            BY <2>3, <2>7, <3>2 DEF WalkAt
        <3>4. Accurate(path, http, start, known, writes, TableOf(path, nodes', audit'))
            BY <1>1, <1>2, <3>3, AccurateWrite
        <3>5. v = w
            BY <2>5, <2>7
        <3>6. WalkAt(nodes', audit', v, r, label, p)
            BY <2>3, <2>7, <3>2, <3>4, <3>5 DEF WalkAt
        <3>7. QED
            BY <1>3, <2>1, <2>2, <3>6 DEF ClientWalk
    <2>8. CASE w.state \notin {"on", "ended"}
        <3>1. v = w
            BY <2>5, <2>8
        <3>2. WalkAt(nodes', audit', v, r, label, p)
            BY <2>3, <2>8, <3>1 DEF WalkAt
        <3>3. QED
            BY <1>3, <2>1, <2>2, <3>2 DEF ClientWalk
    <2>9. QED
        BY <2>6, <2>7, <2>8
<1>5. QED
    BY <1>4 DEF WalkInv

LEMMA RestWalks ==
    ASSUME WalkInv, UNCHANGED <<nodes, audit, request, pc, pager, walk>> PROVE WalkInv'
BY DEF WalkInv, ClientWalk

LEMMA GuardStepWalks ==
    ASSUME SessionInv, TypeInv, WalkInv, NEW c \in Clients,
           \/ TokenCredentials(c) \/ TokenUser(c) \/ LoginCredentials(c)
           \/ LoginUser(c) \/ LoginCheck(c)
    PROVE  WalkInv'
<1>1. /\ UNCHANGED <<nodes, audit, request, pager, walk>>
      /\ pc[c] # "answered"
    BY DEF TokenCredentials, TokenUser, LoginCredentials, LoginUser, LoginCheck, At, tableVars,
           clientVars
<1>2. \A d \in Clients \ {c} : found'[d] = found[d]
    BY DEF TokenCredentials, TokenUser, LoginCredentials, LoginUser, LoginCheck, SessionInv,
           GuardTypeOK
<1>3. PICK label : label # "idle" /\ pc' = [pc EXCEPT ![c] = label]
    <2>1. \/ pc' = [pc EXCEPT ![c] = "login"] \/ pc' = [pc EXCEPT ![c] = "answered"]
          \/ pc' = [pc EXCEPT ![c] = "tokenUser"] \/ pc' = [pc EXCEPT ![c] = "route"]
          \/ pc' = [pc EXCEPT ![c] = "loginUser"] \/ pc' = [pc EXCEPT ![c] = "loginCheck"]
        BY DEF TokenCredentials, TokenUser, LoginCredentials, LoginUser, LoginCheck, Goto, Forbid,
               AfterLogin
    <2>2. /\ "login" # "idle" /\ "answered" # "idle" /\ "tokenUser" # "idle"
          /\ "route" # "idle" /\ "loginUser" # "idle" /\ "loginCheck" # "idle"
        OBVIOUS
    <2>3. QED
        BY <2>1, <2>2
<1>4. QED
    BY <1>1, <1>2, <1>3, GuardWalks

LEMMA NextWalks == SessionInv /\ TypeInv /\ WalkInv /\ [GatewayNext]_gatewayVars => WalkInv'
<1>1. SUFFICES ASSUME SessionInv, TypeInv, WalkInv, [GatewayNext]_gatewayVars PROVE WalkInv'
    OBVIOUS
<1>2. ASSUME NEW c \in Clients, NEW r \in Requests, Send(c, r) PROVE WalkInv'
    BY <1>1, <1>2, SendWalks
<1>3. ASSUME NEW c \in Clients, NEW r, StartWalk(c, r) PROVE WalkInv'
    BY <1>1, <1>3, StartWalks
<1>4. ASSUME NEW c \in Clients, NextOf(c) PROVE WalkInv'
    BY <1>1, <1>4, NextOfWalks
<1>5. ASSUME NEW c \in Clients, Handle(c) PROVE WalkInv'
    <2>1. CASE \/ TokenCredentials(c) \/ TokenUser(c) \/ LoginCredentials(c)
               \/ LoginUser(c) \/ LoginCheck(c)
        BY <1>1, <2>1, GuardStepWalks
    <2>2. CASE ServeList(c) \/ ServeRevisions(c) \/ ServeOne(c) \/ ServeLogin(c)
        BY <1>1, <2>2, RouteWalks
    <2>3. CASE Receive(c)
        BY <1>1, <2>3, ReceiveWalks
    <2>4. QED
        BY <1>5, <2>1, <2>2, <2>3 DEF Handle
<1>6. ASSUME NEW i \in Ids, NEW d \in BOOLEAN, Write(i, d) PROVE WalkInv'
    BY <1>1, <1>6, WriteWalks
<1>7. ASSUME NEW a \in Accounts, NEW n \in Names, NEW p \in Passwords, SaveUser(a, n, p)
      PROVE  WalkInv'
    <2>1. UNCHANGED <<nodes, audit, request, pc, pager, walk>>
        BY <1>7 DEF SaveUser, Others, clientVars, serverVars
    <2>2. QED
        BY <1>1, <2>1, RestWalks
<1>8. CASE Tick
    <2>1. UNCHANGED <<nodes, audit, request, pc, pager, walk>>
        BY <1>8 DEF Tick, Others, clientVars, serverVars, tableVars
    <2>2. QED
        BY <1>1, <2>1, RestWalks
<1>9. CASE UNCHANGED gatewayVars
    <2>1. UNCHANGED <<nodes, audit, request, pc, pager, walk>>
        BY <1>9 DEF gatewayVars, tableVars, clientVars, serverVars
    <2>2. QED
        BY <1>1, <2>1, RestWalks
<1>10. QED
    BY <1>1, <1>2, <1>3, <1>4, <1>5, <1>6, <1>7, <1>8, <1>9 DEF GatewayNext

\* Who follows "next" to the last page, while others save and delete, has been
\* shown only what it asked for; each write hid at most one row that was there
\* all the time, and repeated at most one (Api.Find, BuildQuery, HandleSearch).
THEOREM WalkIsAccurate == GatewaySpec => []WalkAccurate
<1>1. GatewayInit => TypeInv /\ WalkInv
    BY InitTyped, InitWalks
<1>2. TypeInv /\ WalkInv => WalkAccurate
    <2>1. SUFFICES ASSUME TypeInv, WalkInv, NEW c \in Clients, walk[c].state = "ended"
                   PROVE  LET path == walk[c].request.path
                              http == walk[c].request.http
                              seen == walk[c].seen
                              keys == {Key(path, seen[k]) : k \in 1..Len(seen)}
                              lost == (walk[c].start \cap WantedNow(path, http)) \ keys
                          IN /\ \A k \in 1..Len(seen) : Wanted(http, seen[k])
                             /\ Cardinality(lost) <= walk[c].writes
                             /\ Len(seen) <= Cardinality(keys) + walk[c].writes
        BY DEF WalkAccurate
    <2>2. PICK path, http, shown, start, writes :
            /\ path = walk[c].request.path /\ http = walk[c].request.http
            /\ shown = walk[c].seen /\ start = walk[c].start /\ writes = walk[c].writes
        OBVIOUS
    <2>3. Accurate(path, http, start, shown, writes, TableOf(path, nodes, audit))
        BY <2>1, <2>2 DEF WalkInv, ClientWalk, WalkAt
    <2>4. WantedNow(path, http) = Keys(path, Listed(path, http, TableOf(path, nodes, audit)))
        BY <2>1, WantedAreListed DEF TypeInv
    <2>5. Keys(path, shown) = {Key(path, shown[k]) : k \in 1..Len(shown)}
        BY DEF Keys, Rows
    <2>6. \A k \in 1..Len(shown) : Wanted(http, shown[k])
        BY <2>3 DEF Accurate, Rows
    <2>7. /\ Cardinality((start \cap WantedNow(path, http))
                            \ {Key(path, shown[k]) : k \in 1..Len(shown)}) <= writes
          /\ Len(shown) <= Cardinality({Key(path, shown[k]) : k \in 1..Len(shown)}) + writes
        BY <2>3, <2>4, <2>5 DEF Accurate
    <2>8. QED
        BY <2>2, <2>6, <2>7
<1>3. QED
    BY <1>1, <1>2, GuardInvariant, NextTyped, NextWalks, PTL DEF GatewaySpec

\* Who follows "next" asks for a page after the first only while rows of the
\* start are left, or of the writes since: each write keeps a walk going by one
\* row at most (Api.Find).
THEOREM WalkIsBounded == GatewaySpec => []WalkBounded
<1>1. GatewayInit => TypeInv /\ WalkInv
    BY InitTyped, InitWalks
<1>2. WalkInv => WalkBounded
    <2>1. SUFFICES ASSUME WalkInv, NEW c \in Clients, walk[c].state = "on",
                          walk[c].request.http.page > 1
                   PROVE  (walk[c].request.http.page - 1) * Size(walk[c].request.http)
                              < Cardinality(walk[c].start) + walk[c].writes
        BY DEF WalkBounded, Size
    <2>2. Due(walk[c], walk[c].request.http.page)
        BY <2>1 DEF WalkInv, ClientWalk, WalkAt
    <2>3. QED
        BY <2>1, <2>2 DEF Due, Sent
<1>3. QED
    BY <1>1, <1>2, GuardInvariant, NextTyped, NextWalks, PTL DEF GatewaySpec
-----------------------------------------------------------------------------
(* A client that reads the first page and then every page "next" names.    *)

VARIABLES asked, seen

WalkFrom(rows, perPage) ==
    /\ asked = 1 /\ seen = <<>>
    /\ [][/\ asked # 0
          /\ asked' = NextPage(rows, asked, perPage)
          /\ seen' = seen \o Elements(rows, asked, perPage)]_<<asked, seen>>

\* It has seen the rows before the page it asks for, in their order.
Prefix(S, rows, perPage) ==
    /\ asked \in Nat /\ seen \in Seq(S)
    /\ \A k \in 1..Len(seen) : seen[k] = rows[k]
    /\ asked # 0 => Len(seen) = (asked - 1) * perPage /\ Len(seen) <= Len(rows)
    /\ asked = 0 => Len(seen) = Len(rows)

LEMMA StepKeepsPrefix ==
    ASSUME NEW S, NEW rows \in Seq(S), Len(rows) < Wrap, NEW perPage \in Nat \ {0},
           Prefix(S, rows, perPage), asked # 0,
           asked' = NextPage(rows, asked, perPage),
           seen' = seen \o Elements(rows, asked, perPage)
    PROVE  Prefix(S, rows, perPage)'
<1> DEFINE from == (asked - 1) * perPage
           elements == Elements(rows, asked, perPage)
<1>1. /\ asked \in Nat \ {0} /\ seen \in Seq(S) /\ Len(seen) = from
      /\ from \in Nat /\ from <= Len(rows) /\ from < Wrap
    BY SearchAssumption DEF Prefix
<1>2. /\ elements \in Seq(S)
      /\ Len(elements) = IF from + perPage < Len(rows) THEN perPage ELSE Len(rows) - from
      /\ \A k \in 1..Len(elements) : elements[k] = rows[from + k]
      /\ asked' = IF from + perPage < Len(rows) THEN asked + 1 ELSE 0
    BY <1>1, PageOfList
<1>3. from + perPage = asked * perPage
    BY <1>1
<1> HIDE DEF from, elements
<1>4. seen' \in Seq(S) /\ Len(seen') = from + Len(elements)
    <2>1. seen' = seen \o elements
        BY DEF elements
    <2>2. ASSUME NEW a \in Seq(S), NEW b \in Seq(S)
          PROVE  a \o b \in Seq(S) /\ Len(a \o b) = Len(a) + Len(b)
        OBVIOUS
    <2>3. QED
        BY <1>1, <1>2, <2>1, <2>2
<1>5. ASSUME NEW k \in 1..Len(seen') PROVE seen'[k] = rows[k]
    <2>1. CASE k <= from
        <3>1. seen'[k] = seen[k]
            BY <1>1, <1>2, <1>4, <2>1 DEF elements
        <3>2. QED
            BY <1>1, <2>1, <3>1 DEF Prefix
    <2>2. CASE k > from
        <3>1. k - from \in 1..Len(elements) /\ from + (k - from) = k
            BY <1>1, <1>2, <1>4, <2>2
        <3>2. seen'[k] = elements[k - from]
            BY <1>1, <1>2, <1>4, <2>2, <3>1 DEF elements
        <3>3. QED
            BY <1>2, <3>1, <3>2
    <2>3. QED
        BY <1>1, <1>4, <2>1, <2>2
<1>6. CASE from + perPage < Len(rows)
    <2>1. /\ asked' = asked + 1 /\ asked' # 0 /\ asked' \in Nat
          /\ Len(seen') = asked * perPage /\ Len(seen') < Len(rows)
        BY <1>1, <1>2, <1>3, <1>4, <1>6
    <2>2. asked' - 1 = asked
        BY <1>1, <2>1
    <2>3. Len(seen') = (asked' - 1) * perPage /\ Len(seen') <= Len(rows)
        BY <1>1, <1>4, <2>1, <2>2
    <2>4. \A k \in 1..Len(seen') : seen'[k] = rows[k]
        BY <1>5
    <2> HIDE DEF elements
    <2>5. QED
        BY <1>4, <2>1, <2>3, <2>4 DEF Prefix
<1>7. CASE ~(from + perPage < Len(rows))
    <2>1. asked' = 0 /\ Len(seen') = Len(rows)
        BY <1>1, <1>2, <1>4, <1>7
    <2>2. \A k \in 1..Len(seen') : seen'[k] = rows[k]
        BY <1>5
    <2> HIDE DEF elements
    <2>3. QED
        BY <1>4, <2>1, <2>2 DEF Prefix
<1>8. QED
    BY <1>6, <1>7

\* Who follows "next" over rows that nobody changes has seen, when there is no
\* next page, every row once and in order: no row is skipped at a boundary, none
\* is repeated, and no offset wraps on the way (Api.Find).
THEOREM PagesAreTheList ==
    ASSUME NEW S, NEW rows \in Seq(S), Len(rows) < Wrap, NEW perPage \in Nat \ {0}
    PROVE  WalkFrom(rows, perPage) => [](asked = 0 => seen = rows)
<1>1. asked = 1 /\ seen = <<>> => Prefix(S, rows, perPage)
    BY DEF Prefix
<1>2. /\ Prefix(S, rows, perPage)
      /\ [/\ asked # 0
          /\ asked' = NextPage(rows, asked, perPage)
          /\ seen' = seen \o Elements(rows, asked, perPage)]_<<asked, seen>>
      => Prefix(S, rows, perPage)'
    <2>1. CASE UNCHANGED <<asked, seen>>
        BY <2>1 DEF Prefix
    <2>2. QED
        BY <2>1, StepKeepsPrefix
<1>3. Prefix(S, rows, perPage) => (asked = 0 => seen = rows)
    <2>1. SUFFICES ASSUME Prefix(S, rows, perPage), asked = 0 PROVE seen = rows
        OBVIOUS
    <2>2. /\ seen \in Seq(S) /\ Len(seen) = Len(rows)
          /\ \A k \in 1..Len(seen) : seen[k] = rows[k]
        BY <2>1 DEF Prefix
    <2>3. QED
        BY <2>2
<1>4. QED
    BY <1>1, <1>2, <1>3, PTL DEF WalkFrom

=============================================================================
