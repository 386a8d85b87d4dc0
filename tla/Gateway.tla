------------------------------- MODULE Gateway -------------------------------
(***************************************************************************)
(* What a request meets on its way into the server: the guard              *)
(* (plugins/guard), a middleware that tries a token and then a login, and  *)
(* the read routes of plugins/api/api_http.go, with the search behind      *)
(* them.  A client logs in, reads, and walks a list page by page; other    *)
(* clients save and delete nodes, rename users and change passwords        *)
(* between any two statements, and tokens expire.                          *)
(*                                                                         *)
(* The tables are read by one query per page, so a write is one step here; *)
(* NodeManager takes it apart.  Its updated_at is later than all others.   *)
(***************************************************************************)
EXTENDS Search, FiniteSets

CONSTANTS
    Clients,
    Accounts,   \* the nodes of type core.user
    Names, Passwords,
    Ids,        \* the other nodes
    Content,    \* by node, the columns a search filters
    HttpForms,  \* the parameters that requests carry
    FirstAccounts, FirstNodes,  \* the accounts, and the nodes by updated_at, at first
    None,       \* no account, token, request or page
    Validity,   \* of a token (30 minutes)
    Subject,    \* the node whose revisions are asked for
    MaxClock, MaxWrites, MaxChanges,  \* bounds: the clock, writes of nodes and users,
    MaxRequests, MaxPage              \* requests outside a walk, pages of a walk

Row(i, version, deleted) ==
    [id |-> i, version |-> version, deleted |-> deleted,
     enabled |-> Content[i].enabled, column |-> Content[i].column,
     field |-> Content[i].field]

Rows(table) == {table[k] : k \in 1..Len(table)}

Token == [name : Names, expires : 0..(MaxClock + Validity)]

Login(name, password, decodes) ==
    [path |-> "login", name |-> name, password |-> password, decodes |-> decodes]
Reads == [path : {"list", "revisions"}, http : HttpForms] \cup [path : {"one"}, id : Ids]

\* Every request that could be made.
AllRequests ==
    [path : {"list", "revisions"}, http : AllForms] \cup [path : {"one"}, id : Ids]
        \cup [path : {"login"}, name : Names, password : Passwords, decodes : BOOLEAN]

User == [name : Names, password : Passwords]

ASSUME GatewayAssumption ==
    /\ FirstAccounts \in [Accounts -> User]
    /\ FirstNodes \in Seq(Ids)
    /\ \A j, k \in 1..Len(FirstNodes) : FirstNodes[j] = FirstNodes[k] => j = k
    /\ \A i \in Ids : Content[i].enabled \in BOOLEAN
    /\ HttpForms \subseteq AllForms
    /\ Validity \in Nat \ {0}
    /\ MaxClock \in Nat /\ MaxWrites \in Nat /\ MaxChanges \in Nat
    /\ Len(FirstNodes) + MaxWrites < Wrap
    /\ None \notin User \cup Token \cup AllRequests

VARIABLES
    account,   \* the username and password of each account
    nodes,     \* <prefix>_nodes and
    audit,     \* <prefix>_nodes_audit, by updated_at
    clock,
    changes,   \* how often an account was changed
    request, sent,  \* of each client: its request, and the token it carries
    pc,        \* where the request is
    found,     \* the account the guard has read
    answer,    \* the statuses written to the connection
    pager,     \* the page written after them
    token,     \* what the client keeps
    walk,      \* its walk over a list
    requests,  \* how many other requests it made
    logins,    \* the logins that succeeded: who, when
    checked    \* when the token of the request was found valid

serverVars == <<pc, found, answer, pager, checked>>
clientVars == <<request, sent, token, walk, requests>>
tableVars == <<account, nodes, audit, changes>>
gatewayVars == <<tableVars, clock, clientVars, serverVars, logins>>

NoWalk == [state |-> "off"]

GatewayInit ==
    /\ account = FirstAccounts
    /\ nodes = [k \in 1..Len(FirstNodes) |-> Row(FirstNodes[k], 1, FALSE)]
    /\ audit = nodes
    /\ clock = 0 /\ changes = 0 /\ logins = {}
    /\ request = [c \in Clients |-> None] /\ sent = [c \in Clients |-> None]
    /\ pc = [c \in Clients |-> "idle"]
    /\ found = [c \in Clients |-> None]
    /\ answer = [c \in Clients |-> <<>>]
    /\ pager = [c \in Clients |-> None]
    /\ requests = [c \in Clients |-> 0]
    /\ token = [c \in Clients |-> None]
    /\ walk = [c \in Clients |-> NoWalk]
    /\ checked = [c \in Clients |-> 0]

-----------------------------------------------------------------------------
(* Everybody else.                                                         *)

Others == <<clientVars, serverVars, logins>>

Version(i) == Cardinality({k \in 1..Len(audit) : audit[k].id = i}) + 1

\* Save of a node: a new one, or one that is not deleted.  A walk under way
\* counts the writes.
Write(i, deleted) ==
    LET old == {k \in 1..Len(nodes) : nodes[k].id = i}
        row == Row(i, Version(i), deleted)
        others == {n \in Rows(nodes) : n.id # i}
    IN /\ Len(audit) < Len(FirstNodes) + MaxWrites
       /\ \A k \in old : ~nodes[k].deleted
       /\ deleted => old # {}
       /\ nodes' = Append(Picked(nodes, others), row)
       /\ audit' = Append(audit, row)
       /\ walk' = [c \in Clients |->
                      IF walk[c].state = "on" THEN [walk[c] EXCEPT !.writes = @ + 1]
                      ELSE walk[c]]
       /\ UNCHANGED <<account, changes, clock, request, sent, token, requests,
                      serverVars, logins>>

\* Save of a user: another name, or another password (updatePassword).
SaveUser(a, name, password) ==
    /\ changes < MaxChanges
    /\ account[a] # [name |-> name, password |-> password]
    /\ changes' = changes + 1
    /\ account' = [account EXCEPT ![a] = [name |-> name, password |-> password]]
    /\ UNCHANGED <<nodes, audit, clock, Others>>

Tick ==
    /\ clock < MaxClock
    /\ clock' = clock + 1
    /\ UNCHANGED <<tableVars, Others>>

-----------------------------------------------------------------------------
(* The guard.                                                              *)

At(c, where) == pc[c] = where
Goto(c, where) == pc' = [pc EXCEPT ![c] = where]

Responds(c, code) == answer' = [answer EXCEPT ![c] = Append(@, code)]

\* onAuthenticationFailure: the handler returns, the route is not called.
Forbid(c) == Responds(c, 403) /\ Goto(c, "answered")

NamedBy(name) == {a \in Accounts : account[a].name = name}

\* The path of the token authenticator, ^\/nodes\/(.*)$.
Guarded(r) == r.path \in {"revisions", "one"}

\* Mutation: the expiry of a token is not looked at.
ParsesAnyToken(t) == t # None

Parses(t) == t # None /\ clock < t.expires

\* JwtTokenGuardAuthenticator.getCredentials.
TokenCredentials(c) ==
    /\ At(c, "token")
    /\ \/ /\ ~Guarded(request[c])
          /\ Goto(c, "login")
          /\ UNCHANGED <<answer, checked>>
       \/ /\ Guarded(request[c]) /\ ~Parses(sent[c])
          /\ Forbid(c)
          /\ UNCHANGED checked
       \/ /\ Guarded(request[c]) /\ Parses(sent[c])
          /\ Goto(c, "tokenUser")
          /\ checked' = [checked EXCEPT ![c] = clock]
          /\ UNCHANGED answer
    /\ UNCHANGED <<tableVars, clock, clientVars, found, pager, logins>>

\* getUser, which finds users that were deleted as well, and the success
\* that leaves the answer to the route: the loop ends.
TokenUser(c) ==
    /\ At(c, "tokenUser")
    /\ IF NamedBy(sent[c].name) = {} THEN Forbid(c)
       ELSE Goto(c, "route") /\ UNCHANGED answer
    /\ UNCHANGED <<tableVars, clock, clientVars, found, pager, checked, logins>>

\* JwtLoginGuardAuthenticator.getCredentials: a form that does not decode
\* counts as no credentials.
LoginCredentials(c) ==
    /\ At(c, "login")
    /\ IF request[c].path = "login" /\ request[c].decodes
       THEN Goto(c, "loginUser") ELSE Goto(c, "route")
    /\ UNCHANGED <<tableVars, clock, clientVars, found, answer, pager, checked, logins>>

LoginUser(c) ==
    /\ At(c, "loginUser")
    /\ LET named == NamedBy(request[c].name)
       IN IF named = {} THEN Forbid(c) /\ UNCHANGED found
          ELSE /\ \E a \in named : found' = [found EXCEPT ![c] = account[a]]
               /\ Goto(c, "loginCheck")
               /\ UNCHANGED answer
    /\ UNCHANGED <<tableVars, clock, clientVars, pager, checked, logins>>

\* Mutation: the success of a login leaves the answer to the route.
AfterLoginTheRoute == "route"

\* onAuthenticationSuccess returns true: the request ends here.
AfterLogin == "answered"

\* checkCredentials, on the password as it was read, and the token.
LoginCheck(c) ==
    /\ At(c, "loginCheck")
    /\ IF found[c].password = request[c].password
       THEN /\ token' = [token EXCEPT ![c] =
                            [name |-> found[c].name, expires |-> clock + Validity]]
            /\ logins' = logins \cup {[name |-> found[c].name, at |-> clock]}
            /\ Responds(c, 200) /\ Goto(c, AfterLogin)
       ELSE Forbid(c) /\ UNCHANGED <<token, logins>>
    /\ found' = [found EXCEPT ![c] = None]
    /\ UNCHANGED <<tableVars, clock, request, sent, walk, requests, pager, checked>>

-----------------------------------------------------------------------------
(* The routes.                                                             *)

\* The rows the query of a route selects, in its order.
Selected(path, form) ==
    Sorted(form,
        IF path = "list" THEN Picked(nodes, {n \in Rows(nodes) : BuildQuery(form, n)})
        ELSE Picked(audit, {n \in Rows(audit) : n.id = Subject /\ BuildQuery(form, n)}))

\* What its parameters ask for: the reference the walk is held against.
Wanted(http, row) ==
    /\ \A c \in Columns : http.where[c] # {} => row.column[c] \in http.where[c]
    /\ \A f \in Fields : JsonMatches(http.json[f], row.field[f])
    /\ row.deleted <=> http.deleted = "true"
    /\ http.enabled # "" => (row.enabled <=> http.enabled = "true")

Key(path, row) == <<row.id, IF path = "list" THEN 0 ELSE row.version>>

WantedNow(path, http) ==
    {Key(path, n) : n \in
        {m \in IF path = "list" THEN Rows(nodes) ELSE Rows(audit) :
            Wanted(http, m) /\ (path = "list" \/ m.id = Subject)}}

\* The first page of a walk has been read.
Opened(c) ==
    IF walk[c].state = "asked"
    THEN [walk EXCEPT ![c].state = "on",
                      ![c].start = WantedNow(request[c].path, request[c].http)]
    ELSE walk

RouteTo(c, path) == At(c, "route") /\ request[c].path = path /\ Goto(c, "answered")

Frame == UNCHANGED <<tableVars, clock, request, sent, token, requests, found, checked, logins>>

\* GET /nodes.  Anything that panics is answered by the middleware Recoverer.
ServeList(c) ==
    LET form == HandleSearch(request[c].http)
    IN /\ RouteTo(c, "list")
       /\ IF form = NoForm THEN Responds(c, 412) /\ UNCHANGED <<pager, walk>>
          ELSE IF ~Runs(form) \/ Overflows(form.page, form.perPage)
          THEN Responds(c, 500) /\ UNCHANGED <<pager, walk>>
          ELSE /\ Responds(c, 200)
               /\ \E rows \in {Selected("list", form)} :
                     pager' = [pager EXCEPT ![c] = Find(rows, form.page, form.perPage)]
               /\ walk' = Opened(c)
       /\ Frame

\* GET /nodes/:uuid/revisions goes on without a form, and panics on it.
ServeRevisions(c) ==
    LET form == HandleSearch(request[c].http)
    IN /\ RouteTo(c, "revisions")
       /\ IF form = NoForm
          THEN /\ answer' = [answer EXCEPT ![c] = @ \o <<412, 500>>]
               /\ UNCHANGED <<pager, walk>>
          ELSE IF ~Runs(form) \/ Overflows(form.page, form.perPage)
          THEN Responds(c, 500) /\ UNCHANGED <<pager, walk>>
          ELSE /\ Responds(c, 200)
               /\ \E rows \in {Selected("revisions", form)} :
                     pager' = [pager EXCEPT ![c] = Find(rows, form.page, form.perPage)]
               /\ walk' = Opened(c)
       /\ Frame

\* GET /nodes/:uuid, also of a revision: what is not found is answered twice.
ServeOne(c) ==
    /\ RouteTo(c, "one")
    /\ IF \E k \in 1..Len(nodes) : nodes[k].id = request[c].id
       THEN Responds(c, 200)
       ELSE answer' = [answer EXCEPT ![c] = @ \o <<404, 500>>]
    /\ Frame
    /\ UNCHANGED <<pager, walk>>

\* POST /login is reached only by a form that does not decode, and panics.
ServeLogin(c) ==
    /\ RouteTo(c, "login")
    /\ Responds(c, IF request[c].decodes THEN 200 ELSE 500)
    /\ Frame
    /\ UNCHANGED <<pager, walk>>

-----------------------------------------------------------------------------
(* The clients.                                                            *)

Ask(c, r) ==
    /\ At(c, "idle")
    /\ Goto(c, "token")
    /\ request' = [request EXCEPT ![c] = r]
    /\ sent' = [sent EXCEPT ![c] = token[c]]
    /\ UNCHANGED <<tableVars, clock, token, found, answer, pager, checked, logins>>

\* Requests before a walk; during it, only a login for a new token.
Send(c, r) ==
    /\ requests[c] < MaxRequests
    /\ walk[c].state = "off" \/ (walk[c].state = "on" /\ r.path = "login")
    /\ requests' = [requests EXCEPT ![c] = @ + 1]
    /\ Ask(c, r)
    /\ UNCHANGED walk

\* The first page of a walk; NextOf is every other one.
StartWalk(c, r) ==
    /\ walk[c].state = "off"
    /\ r.http.page \in {0, 1}
    /\ Ask(c, r)
    /\ walk' = [walk EXCEPT ![c] = [state |-> "asked", request |-> r, waits |-> TRUE,
                                    seen |-> <<>>, start |-> {}, writes |-> 0]]
    /\ UNCHANGED requests

NextOf(c) ==
    /\ walk[c].state = "on"
    /\ walk[c].request.http.page <= MaxPage
    /\ Ask(c, walk[c].request)
    /\ walk' = [walk EXCEPT ![c].waits = TRUE]
    /\ UNCHANGED requests

\* The walk goes on with the page the pager names.
Continued(w, p) ==
    [w EXCEPT !.waits = FALSE,
              !.state = IF p.next = 0 THEN "ended" ELSE "on",
              !.request.http.page = p.next,
              !.seen = @ \o p.elements]

Receive(c) ==
    /\ At(c, "answered")
    /\ Goto(c, "idle")
    /\ walk' = IF walk[c].state \notin {"asked", "on"} \/ ~walk[c].waits THEN walk
               ELSE IF pager[c] = None THEN [walk EXCEPT ![c] = [state |-> "refused"]]
               ELSE [walk EXCEPT ![c] = Continued(@, pager[c])]
    /\ request' = [request EXCEPT ![c] = None] /\ sent' = [sent EXCEPT ![c] = None]
    /\ answer' = [answer EXCEPT ![c] = <<>>] /\ pager' = [pager EXCEPT ![c] = None]
    /\ checked' = [checked EXCEPT ![c] = 0]
    /\ UNCHANGED <<tableVars, clock, token, requests, found, logins>>

-----------------------------------------------------------------------------
Handle(c) ==
    \/ TokenCredentials(c)
    \/ TokenUser(c)
    \/ LoginCredentials(c)
    \/ LoginUser(c)
    \/ LoginCheck(c)
    \/ ServeList(c)
    \/ ServeRevisions(c)
    \/ ServeOne(c)
    \/ ServeLogin(c)
    \/ Receive(c)

Requests == Reads \cup {Login(n, p, d) : n \in Names, p \in Passwords, d \in BOOLEAN}

GatewayNext ==
    \/ \E c \in Clients :
        \/ \E r \in Requests : Send(c, r)
        \/ \E h \in HttpForms, p \in {"list", "revisions"} :
               StartWalk(c, [path |-> p, http |-> h])
        \/ NextOf(c)
        \/ Handle(c)
    \/ \E i \in Ids, deleted \in BOOLEAN : Write(i, deleted)
    \/ \E a \in Accounts, n \in Names, p \in Passwords : SaveUser(a, n, p)
    \/ Tick

GatewaySpec == GatewayInit /\ [][GatewayNext]_gatewayVars

-----------------------------------------------------------------------------
(* Properties.                                                             *)

GatewayTypeOK ==
    /\ account \in [Accounts -> User]
    /\ clock \in 0..MaxClock /\ changes \in 0..MaxChanges
    /\ \A c \in Clients :
        /\ request[c] # None <=> pc[c] # "idle"
        /\ token[c] \in Token \cup {None} /\ sent[c] \in Token \cup {None}
        /\ found[c] # None <=> pc[c] = "loginCheck"
        /\ answer[c] # <<>> <=> pc[c] = "answered"
        /\ pager[c] # None =>
            /\ pager[c].page \in Nat \ {0} /\ pager[c].perPage \in 1..MaxResult \cup {DefaultPerPage}
            /\ Len(pager[c].elements) <= pager[c].perPage
            /\ pager[c].next # 0 => Len(pager[c].elements) = pager[c].perPage

\* A client that follows "next" from the first page to the last is shown only
\* what it asked for; and of the rows that were there when it began and still
\* are, each write while it walked hides at most one, and repeats at most one.
\* With no write it sees every row once.  (Api.Find, BuildQuery, HandleSearch)
WalkAccurate ==
    \A c \in Clients : walk[c].state = "ended" =>
        LET path == walk[c].request.path
            http == walk[c].request.http
            seen == walk[c].seen
            keys == {Key(path, seen[k]) : k \in 1..Len(seen)}
            lost == (walk[c].start \cap WantedNow(path, http)) \ keys
        IN /\ \A k \in 1..Len(seen) : Wanted(http, seen[k])
           /\ Cardinality(lost) <= walk[c].writes
           /\ Len(seen) <= Cardinality(keys) + walk[c].writes

\* A guarded route runs only for a token that a login gave, less than Validity
\* before the guard looked at it, to the user it names; whatever became of the
\* passwords and the clock since.  (JwtTokenGuardAuthenticator)
SessionBacked ==
    \A c \in Clients : pc[c] = "route" /\ Guarded(request[c]) =>
        \E l \in logins :
            /\ l.name = sent[c].name
            /\ checked[c] \in l.at..(l.at + Validity - 1)

\* A request is answered once: by the guard or by its route, never by both.
\* Only a node that is not found, and a search of revisions that is refused,
\* are answered twice by their route.  (GetGuardMiddleware, performAuthentication)
OneAnswer ==
    \A c \in Clients : Len(answer[c]) > 1 =>
        /\ answer[c] \in {<<404, 500>>, <<412, 500>>}
        /\ request[c].path = IF answer[c][1] = 404 THEN "one" ELSE "revisions"

\* A client that follows "next" is sent on only as long as there were rows left
\* at the start, and once more for each write since: a walk cannot outlast its
\* list unless others keep it going.  (They can: with a save of the node before
\* each page, a walk over its revisions never ends.)  (Api.Find)
WalkBounded ==
    \A c \in Clients : walk[c].state = "on" =>
        LET http == walk[c].request.http
            size == IF http.perPage = 0 THEN DefaultPerPage ELSE http.perPage
        IN http.page > 1 =>
              (http.page - 1) * size < Cardinality(walk[c].start) + walk[c].writes

=============================================================================
