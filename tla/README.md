# A TLA+ model of gonode

gonode is a node store: a Go server that keeps typed, versioned, hierarchical
documents ("nodes") in PostgreSQL, offers them over HTTP, announces every
change with PostgreSQL's LISTEN/NOTIFY, keeps binaries in an encrypted vault
and reacts to its own notifications (image downloads, video metadata,
WebSockets). This directory models the server in TLA+, checks it with TLC and
proves part of it with TLAPS. Paths below are relative to `src/`.

## 1. Inventory

| Component | State | Operations | Talks to | Hard behaviour | What makes it correct |
|---|---|---|---|---|---|
| Node manager (`core/manager_pgsql.go`) | tables `nodes`, `nodes_audit` | `Save`, `RemoveOne`, `Remove`, reads | database, `NOTIFY` | no call runs in a transaction: each SQL statement is atomic on its own, a failure panics half-way | history without gaps, no event before its audit row, conflicts only for a reason, a removal that nothing disturbs returns |
| Node hierarchy (`Move`) | columns `parent_uuid`, `parents` | `Move` | database | Read Committed transaction of two statements, row locks in any order, recursive query | a forest and the array the path, as far as documents and overlapping moves let it be; a move leaves the arrays of its branch consistent; moves return |
| HTTP API (`plugins/api`) | none | POST, PUT, PUT ?raw, DELETE, reads, move, notify, stream | node manager, vault, hub | reads before it writes; drops the manager's answer | one row per node, what is acknowledged is kept, deletion is final |
| Notification subscriber (`core/pubsub.go`) | handler lists, driver's listener | `ListenMessage`, `Register`, `Stop`, dispatcher | driver, all listeners | a goroutine per handler and event, shared loop variable, unlocked list, reconnection | everybody called once, `Stop` returns |
| WebSocket hub (`plugins/api/api_http.go:165-262`) | list of connections | connect, disconnect, broadcast, shutdown | subscriber | the list is shared without a lock | one ring; a broadcast reaches everybody, once |
| Vault (`plugins/vault`) | three objects per name | `Has`, `Get`, `GetMeta`, `Put`, `Remove` | file system, S3 | three writes without a transaction, concurrent `Put`, upload at `Close`, crashes | what `Put` acknowledges can be read back; an entry is written once, unless the look at it fails |
| Vault ciphers (`plugins/vault/vault_cipher.go`) | none | padding, encrypt, decrypt | vault | block boundaries, a source that fails | decrypting gives back what was encrypted |
| Media pipeline (`plugins/media`) | status of images and videos, their binaries | hooks, image and video listeners | subscriber, manager, vault, network | repeated notifications, downloads of any length, stale copies | a status says what is in the vault; what waits is served; it comes to rest |
| Search and pager (`plugins/search`, `Api.Find`) | none | form, query, page, links | node manager | offsets into a list that changes, 64-bit arithmetic | following the links shows the list, and goes on only while rows may be left |
| Guard (`plugins/guard`) | none (tokens are the client's) | login and token authenticators, middleware | node manager | what each pair of results lets through; users and the clock change between steps | a route runs for a valid token only; one answer |
| Explorer (`explorer/src`) | Redux stores | actions and reducers | HTTP API | answers in any order | the store shows the latest answer |
| Setup, server life cycle, node types, serialization, configuration, unused code, test support | | | | | not state machines of their own |

The pieces interact like this. A request passes the guard and reaches a route.
A route that writes reads the node with `Manager.Find`, checks the document
against it and calls the manager, which reads the row a second time, writes
node and audit row and sends a `ModelEvent` on the channel
`<prefix>_manager_action`. The subscriber's dispatcher receives it and starts
one goroutine per handler, one of which broadcasts it to the WebSockets. The
hooks of images and videos send a second notification, whose handlers
download, write the vault and save the node again, which passes the same hooks.

## 2. Modules

    Forests  <--EXTENDS--  Hierarchy
       ^                      ^
       |                      | INSTANCE WITH forest <- parent
       +------EXTENDS----- NodeTree   <--EXTENDS--  MCNodeTree, NodeTreeProofs

    NodeManager <--EXTENDS-- NodeApi  <--EXTENDS-- MCNodeApi
       ^   ^                    ^
       |   +-- NodeManagerProofs <--- NodeApiProofs
       +-- MCNodeManager

    VaultCipher <--EXTENDS-- Vault <--EXTENDS-- MCVault, VaultProofs
                               |
                               | INSTANCE (entry, busy)
                               v
                           WriteOnce <--INSTANCE-- Media <--EXTENDS-- MCMedia, MediaProofs

    Search  <--EXTENDS-- Gateway <--EXTENDS-- MCGateway, GatewayProofs

    Hub <--EXTENDS-- MCHub, HubProofs

    Subscriber <--EXTENDS-- MCSubscriber, SubscriberProofs

Two modules are abstract specifications: `Hierarchy`, implemented by NodeTree,
and `WriteOnce`, implemented by Vault and used in its place by Media. NodeApi
is built on NodeManager: its routes take the manager's own actions, under the
conditions of `plugins/api`. The manager's events are the subscriber's
notifications; Hub and Media start where its handlers do.

Operators whose comment starts with "Mutation:" are faulty variants of the
definition that follows them. No specification uses them; substituting one
for the original is how each property was seen to fail when the code is wrong.

### NodeManager: Save, RemoveOne, Remove

A *request* is one call of the manager, in a goroutine. `nodes` is the table
by serial id; a call inserts at most one row, so an id is named after the
request that inserted it. `audit` is the audit table, `bus` the events sent.
`pc`, `node`, `id`, `revise`, `todo` and `outcome` are the call's next
statement, its `*Node`, its arguments, the rest of its batch and its end.

Every SQL statement is one action, since other goroutines run between any two:
the insert path is `InsertAudit`, `InsertNode`, `NotifyCreate`; the update
path `CheckRevision` or `SaveConflict` (the SELECT and the comparison of
revisions), `UpdateNode` (`WHERE id = ?`, no revision in it),
`InsertAuditRevision`, `NotifyUpdate`; `RemoveOne` is `Announce` and then the
update path; `Remove` is `Select`, and per row `NextRemoval`, the update path
without a new revision, `SoftDelete`. `Fail` is `PanicOnError` at any
statement, with what was written left in place, and `Refused` a violation of
`UNIQUE(revision, uuid)`.

The caller is the most general one: a new node, or a stored row it has just
read and edited as it likes. References in `Given` are chosen by callers (the
API accepts a uuid for a new node); the others come from `NewV4` and are new.
Abstracted: the columns other than type, revision, deleted and one `data`;
the handler hooks, which do nothing for the default type; time stamps.

### NodeApi: the routes that write

`ApiCreate`, `ApiUpdate`, `ApiRefuse` are `Api.Save` of a document (POST and
PUT), `ApiDelete` is DELETE, `ApiRaw` PUT of a binary, `Reply` the answer: the
routes and `Api` drop what the manager's `Save` and `RemoveOne` return, and a
panic becomes status 500. A route's read and the call of the manager are one
step. The routes that read are in Gateway, `/move` is NodeTree, `/notify` and
what a binary does to an image are in Media, the stream is Hub.

### Forests, Hierarchy, NodeTree: Move

`Hierarchy` is what the hierarchy promises: in one step, a node is added at the
top or under one that exists, or goes under a node that is not at or below it.
`NodeTree` is `Move` as PostgreSQL runs it, and the inserts it meets. `Create` is
the insert of a document as the client sends it: `Api.Save` keeps `parent_uuid`
and `parents` only of a row that exists, so a new one has any parent in `Named`
and any array in `Brought`, or the one that fits (`Fitting`). The variable
`astray` remembers, for the properties alone, that a row came out of place: its
parent or its array does not fit the table, or it came under a parent during a
move, whose query may already have read the branch. Once that has happened
`Hierarchy` promises no more than that a step writes the parent of one row
(`Graft`).

`Move` takes the snapshot of the first UPDATE and evaluates its guard on
committed rows (`u` not in the array of the target); `SetParent` gets the lock
of the row, waiting for whoever holds it; `ReadBranch` evaluates the recursive
query on a new snapshot that includes the transaction's own write;
`SetParents` locks and writes the rows one by one in an order that PostgreSQL
chooses; `Commit`, `Rollback` and `DeadlockVictim` end the transaction. Locks,
snapshots, deadlock detection and commit are PostgreSQL's and marked external.

### Subscriber: dispatching notifications

`ListenMessage`, `Register` and `Stop` are the methods; `Receive`, `Spawn`,
`Advance` are the dispatcher's loop over the list of handlers, a step per
access; `Handle`, `Answer`, `RemoveHandler` are the goroutine of one handler
and one event. The lists are `container/list`, by what it documents and does
(`Next` of a removed element is nil; removing it again does nothing). The
goroutines share the loop variable `e` with the dispatcher without
synchronization, so `RemoveHandler` may read any value it has had since the
goroutine was started (`Readable`). `Notify` and `Reconnect` are the driver.
Each handler is registered once.

### VaultCipher, Vault, WriteOnce: the vault

`VaultCipher` is what the ciphers do to a stream. A stored byte is a cell that
remembers the keys and the data it came from; `Encrypt` gives the pieces a
cipher writes, one by one, and `Decrypt` what comes back with some keys: the
stream modes (CTR; OFB behaves alike) decrypt any prefix and give garbage for
cells of other keys, CBC needs whole blocks and strips the padding, GCM
answers only when all cells are of one text and one key. `Pad` and `Unpad` are
byte by byte, with the loops' arithmetic. AES itself is external: a cell of
other keys decrypts to garbage, and a GCM tag is not met by chance.

`Vault` is `Put`, `Remove`, `Get` and `GetMeta` on both drivers. The state is
what is in the store: `element` (.vault: whose keys), `meta`, `bin` with
`content`, which is kept apart so that a file that is removed while it is open
stays one. A `Put` is `CallPut`, which looks with `Has`, `CreateVaultElement`,
`WriteMeta`, `OpenBin`, `CopyPiece` for each piece, `Copied` or `CopyFails`,
the removals on an error (`UndoElement`, `UndoMeta`, `UndoBin`), and the
deferred `Close` calls, binary first (`CloseBin`, `CloseMeta`). Both drivers'
`Has` answers "no" to any error, so a look that fails lets a `Put` go over the
entry that is there. When the metadata cannot be encoded, `Put` returns at once
and the keys stay; every other failure goes through the removals, whose own
errors are dropped (`Removed`: the object is gone or it is not). The file
system writes in place and without O_TRUNC; S3 uploads at `Close`, after a
failure too, and the error of that is dropped. `dropped` remembers that an
error of a `Put` was swallowed, the failed look included. `Crash` ends the
process between any two steps.

`WriteOnce` is what a name in the vault amounts to: nothing, being written,
shared by calls that met, whole or broken; once it has settled only a removal
touches it, or a `Put` in the step in which its look fails, which the driver's
counter of failures tells. What a call that has the name to itself leaves
behind, at its end or in a crash, is what it was given, something broken, or
nothing (`Outcomes`). `EntryOf` reads that off the objects: an entry is whole
when a Get answers what the Put that made the binary was given (`Whole`).

### Media: images and videos

`row` is the node (revision, status, whether it has a source), `pending` the
notifications on their way. Clients send whole documents, and the status and the
source in them are stored as they are (`Document`): a client can say that an
image is done (`claim` remembers it), or give it a source or take it away.
`PreUpdate` and `PostUpdate` are the handlers' hooks, of inserts too;
`SaveCheck` and `SaveWrite` are the manager's `Save` cut where NodeManager has
another call run in between. `Handle` is the start of a listener, `GetImage`,
`BeginPut`, `PutRefused`, `EndPut` and `Stored` the download into the vault and
what follows its answer, `GetVideo` and `Thumbnail` the video's, `GetFails` a
download that cannot begin. Clients `Create`, `Update`, `Raw` (PUT ?raw) and
`Notify`. The vault is WriteOnce under the names of `UniqueId`, node and
revision, and `Crash` ends everything that is under way and loses the
notifications.

### Hub: the WebSocket connections

The list is `container/list` by its pointers, because nobody takes a lock:
`Connect` and `PingFails` read the neighbours that `PushBack` and `Unlink`
write to in a later step, with the panic that a neighbour without `next`
causes. `BeginWalk` and `Advance` are a broadcast of one event, or the
shutdown hook, which closes what it stands on. `raced` records that two routes
changed the list at once and `cut` that an element left during a walk. A
step is one operation on the list's memory as the code orders it; what a data
race does beneath that (torn writes) is not modelled.

### Search, Gateway: reading, behind the guard

`Search` has no state: `HandleSearch` is the parser with every refusal,
`BuildQuery` the rows a query selects, `Picked` these in the table's order,
`FindBy` its LIMIT and OFFSET, `Offset`
the unsigned arithmetic (`% Wrap`) whose result the database takes as a signed
number, `Elements`, `NextPage` and `Find` the page.

`Gateway` runs requests through the middleware. `TokenCredentials`,
`TokenUser`, `LoginCredentials`, `LoginUser` and `LoginCheck` are the calls of
the two authenticators, in the middleware's order and with its rule which
result goes on; `ServeList`, `ServeRevisions`, `ServeOne` and `ServeLogin` are
the routes, `Find` behind them. `answer` is the sequence of statuses written,
since some requests are answered twice. A client logs in, reads, and walks a
list by the links (`StartWalk`, `NextOf`, `Receive`), while `Write`,
`SaveUser` and `Tick` change nodes, users and the clock between any two steps.
`Wanted` is what the parameters of a request ask for, stated apart from
`BuildQuery`.

## 3. Runs

TLC searches every behaviour of these instances.

| Run | Instance | Shows |
|---|---|---|
| `manager` | 3 calls, 1 reference chosen by callers, first revisions 1 and 2, batches of 2, fairness | the history has no gap, every event has its audit row, conflicts have a reason, and a `Remove` that nothing disturbs any more returns (`RemoveReturns`) |
| `api` | 3 requests, 2 references (one from `NewV4`, one chosen), documents of revision 1 or 2 | `OneRowPerNode`, `AcceptedInHistory`, `DeletedForGood` |
| `tree` | 1 session, 4 nodes, documents that name any parent, with the array that fits or an empty one | moves that do not overlap refine `Hierarchy`, keep the arrays exact and are refused only for a reason, unless a row came out of place; and even then each makes the arrays of its branch consistent (`MoveRewrites`) |
| `tree_live` | 2 sessions, 3 nodes that start at the top, fairness | overlapping moves return |
| `subscriber` | 2 events, 2 handlers (one answers Stop), 2 channels, 1 reconnection, fairness | nobody is called twice or, until a handler leaves, left out; `Stop` returns |
| `vault` | 3 calls on 1 name, 2 at a time; 2 drivers, 4 ciphers, blocks of 3 bytes; 1 failure or crash | what `Put` acknowledges can be read back, a failed one leaves no binary, GCM reads are authentic, settled entries stay, and Vault refines `WriteOnce` |
| `media` | 1 image, 1 video, 2 listeners, 1 client, 2 changes with any status and source, 1 notice, 1 failure or crash, fairness | done means stored, but for a client's word, what waits is served, the notifications end |
| `hub` | 3 connections, 1 event and the shutdown | one ring unless routes race; a broadcast reaches everybody, nobody twice |
| `gateway` | 1 client, 1 account with two names and passwords, 3 nodes, pages of 1 to 3 rows, 2 writes, arithmetic modulo 16 | a walk shows the list and asks for a page only while rows may be left, routes run for valid tokens, one answer |

Why these bounds.

- `manager`: three calls are what it takes to insert a row and have two calls
  hold different stale copies of it. With two first revisions, two inserts
  store two rows of one reference, and the third call is a `Remove` whose batch
  has both; with one, the second insert is refused. A `Remove` that meets a
  save loops again. `RemoveReturns` is about one request, which stands for all,
  because nothing tells requests apart. References that `NewV4` gives are in
  `api`. The theorems cover every larger instance of the properties they state.
- `api`: both revisions and a node that may be deleted or not let a document
  pass or fail each test of `Api.Save`; there is one type, since a document of
  another type is refused like one for a deleted node.
- `tree`: four nodes give a moved branch of two levels under a target that has a
  parent itself, or of three under a target at the top, after series of any
  number of moves, and branches whose arrays are wrong at any of their rows; in
  `tree_live`, two sessions are enough for both to hold a row the other waits
  for.
- `subscriber`: two events for the same list give two goroutines that remove
  the same element, and two channels give walks over separate lists.
- `vault`: two calls meet and a third finds what they, a failure or a crash left
  behind. One failing step reaches each error path of `Put` once, and the
  removals after it may fail, too; the theorems are for any number of failures.
  Names share nothing (`SettledEntryStays` is proved for any number of them).
  One payload is shorter than a block, the other fills one and has bytes that
  look like padding; it is written in several pieces. The shorter metadata can
  come to lie over the longer.
- `media`: two listeners can download one image at a time; two changes after
  the insert's revision, one of them a raw upload or an edit while a download
  runs; a notice repeats a notification. Each of the changes may be a
  document with any status and source.
- `hub`: three connections give a list with an element between two others and
  let the two neighbours of a leaving element change at the same time.
- `gateway`: pages of one over three nodes are walks of several pages with
  writes at each border; modulo 16, pages 5 and 7 of three rows reach an
  offset beyond the signed range and one that wraps (`PagesAreTheList` is
  proved for every modulus and page size).

Counters that code leaves unbounded are capped by the constants that start with
`Max`; a request or call is one call, so their number bounds NodeManager,
NodeApi and Vault. Symmetry is declared only where calls, requests,
connections, nodes or sessions are interchangeable and no liveness is checked.

Deadlock is not checked where the system stops by design: all calls have
returned, all clients have used up their requests, or the process has ended.
It is checked in `NodeTree`.

### Where the code and what it says of itself differ

Each of these runs has one property, in the words of a doc, test, comment or
log message of the repository, and TLC returns a counterexample.

| Run | What happens |
|---|---|
| `api_conflict` | Two saves pass `Api.Save`'s own comparison; the manager refuses the second with a revision error, `Api.Save` drops it and the client is told the document was stored (`core/error.go:10`). |
| `tree_cycle` | b is under a. The moves of c under b and of a under c overlap: both guards read committed rows, in which neither closes a cycle. One commits; the other waits for the rows the first has locked, writes the arrays it had computed and commits, too: c is under b, b under a, a under c (`test/api/parent_test.go:50`). |
| `subscriber_reconnect` | The nil notification after a reconnection is dereferenced by the log call that reports it, in a goroutine nobody recovers (`core/pubsub.go:107-110`). |

Seen while modelling, without a run of their own:

- manager and API: two saves that both pass the comparison of revisions store
  the same revision, though `docs/node.md:16` speaks of one row per revision; a
  save that read a node before its removal writes the column `deleted` back
  (`plugins/api/api.go:100`); a client that chooses the reference of a new node
  can get two rows for it, with different revisions, from two concurrent POSTs.
  `Remove` ignores the conflicts that its saves report, so two rows of one
  reference can keep it in its loop for ever: `FindOneBy` answers with one of
  them, whichever row the batch holds; saves that keep coming do the same.
- hierarchy: the insert stores `parent_uuid` and `parents` of a document as they
  come, so a POST can put a node under a parent that does not exist, or give it
  an array that makes the guard of `Move` refuse a legal move or admit one that
  closes a cycle; overlapping moves can leave an array that misses an ancestor,
  and two of them, a under b and b under a, can only deadlock or run away, since
  each has locked a row that the other's query rewrites; a node moved under
  itself passes the guard, because its own array does not hold it, and the UNION
  ALL query then does not end (`pc = "spin"`).
- subscriber: the handler that answers Stop removes whatever the shared loop
  variable holds by then, or nil, which panics (`core/pubsub.go:123`);
  handlers run concurrently although `core/pubsub.go:102` says otherwise.
- vault: two calls that meet on a name may mix their keys and binaries; so may a
  `Put` on an entry that is whole, when `Stat` or `HeadObject` fails; metadata
  that cannot be encoded leave the .vault behind (`plugins/vault/vault.go:171`),
  and removals that fail go unnoticed (`plugins/vault/vault.go:288`); a failed
  `Put` on S3 may upload a binary without keys, so that `Has` says yes and `Get`
  fails; a longer .meta file that a crash left makes `GetMeta` of the next entry
  fail; `Get` takes the vault's algorithm, not the element's; the error of an
  upload, and of the source of a GCM encryption, is dropped.
- media: a POST or PUT with the status Done makes an image done that nothing was
  stored of; a download that breaks off, or a PUT ?raw while one is pending,
  leaves the status Update; a stale write can move a revision back, so that a
  later save meets a name that is taken; the HTTP status of a download is not
  looked at; notifications are lost in a crash; every pass over a video makes
  another image of its thumbnail.
- hub: two simultaneous connects can drop one from the list; a removal during
  a broadcast cuts it short for the rest.
- guard and search: `POST /login` behind the guard is reached only by forms that
  do not decode, so its own comparison and its 72 hours are never used; the
  configured validity of the login authenticator is ignored
  (`guard_jwt_login.go:101`); deleted users pass; a node that is not found is
  answered 404 and then 500, a refused search of revisions 412 and then 500; a
  filter by weight always fails; one write during a walk hides or repeats at
  most one row, which is what offsets do; a walk goes on for as long as rows
  come as fast as its pages (the revisions of a node, one on a page, and a save
  before each).

### Fairness

- `FairSpec` (NodeManager): weak fairness of each request's statements. The Go
  scheduler serves every runnable goroutine and the database answers or the
  call panics. Nothing makes a client send a request, so calls are not fair,
  nor are failures. `RemoveReturns` is conditional: from some point on nothing
  but removals is under way, and no reference has two rows (`Undisturbed`).
- `FairTreeSpec`: weak fairness of each session's next step, which includes
  the deadlock detector, and strong fairness of the steps that wait for a row:
  PostgreSQL queues the waiters of a lock, so one that is free again and again
  is granted in the end. `MovesReturn` is conditional on no branch query
  running away (see above).
- `FairSubSpec`: weak fairness of `Close`; strong fairness of the dispatcher and
  of `Exit`, because `select` chooses at random among the ready cases. Handlers
  need not return for it. `StopReturns` is conditional on the process not having
  panicked.
- `MediaSpec`: weak fairness of each worker's next step (a goroutine that can
  run does, and a download ends one way or the other) and, for each node, of a
  listener taking its notification: one that was sent arrives while the
  process runs. Clients are not fair. `Served` excuses behaviours with a
  failure, after which nothing tries again.

## 4. Proofs

Checked by TLAPS for every value of the constants, from the assumptions named
in the modules: `ConstantsAssumption`, `ClientRevisionsAssumption`,
`NoParentAssumption`, `TreeConstants`, `SubscriberConstants`, `VaultAssumption`,
`CipherAssumption`, `HubAssumption`, `SearchAssumption`, `GatewayAssumption`,
`MediaAssumption`. Apart from what integers range over, they say that the marks
for "nothing" are no element of a set of real things, that no node is both an
image and a video, that the ciphers and drivers are among those the code has,
that payloads are sequences of bytes, that the nodes a table begins with are
different ones, and that no table grows as long as the modulus of the offset
arithmetic (2^64 rows).

| Theorem | Says |
|---|---|
| `TypeCorrect` | `Spec => []TypeOK` (NodeManager) |
| `AuditIsComplete` | `Spec => []AuditComplete` |
| `EventsAreBacked` | `Spec => []EventBacked` |
| `ConflictsHaveReason` | `Spec => []NoSpuriousConflict` |
| `ApiTypes` | `ApiSpec => []ApiTypeOK` |
| `DeletionIsFinal` | `ApiSpec => DeletedForGood` |
| `OneRowForEachNode` | `ApiSpec => []OneRowPerNode` |
| `AcceptedDocumentsAreKept` | `ApiSpec => []AcceptedInHistory` |
| `TreeTypes` | `TreeSpec => []TreeTypeOK`, moves overlapping or not |
| `HierarchyIsForest` | `HierarchySpec => []CommittedForest`, of the abstract hierarchy over the column `parent`: a forest unless a row came out of place |
| `PathsKept` | `TreeSpec /\ []NoOverlap => []ParentsArePath` |
| `MovesImplementHierarchy` | `TreeSpec /\ []NoOverlap => ImplementsHierarchy` |
| `AloneCommittedForest` | `TreeSpec /\ []NoOverlap => []CommittedForest` |
| `RefusalsJustified` | `TreeSpec /\ []NoOverlap => RefusedForAReason` |
| `BranchRewritten` | `TreeSpec /\ []NoOverlap => MoveRewrites`, whatever rows were inserted |
| `OneMover` | with one session, the last five without the condition |
| `SubscriberTypes` | `SubSpec => []SubTypeOK` |
| `OnceEach` | `SubSpec => []HandledOnce` |
| `EverybodyCalled` | `SubSpec => NobodySkipped` |
| `PadRoundTrip` | `Unpad(Pad(text)) = text`, and a short text is one block |
| `CipherRoundTrip` | each of the five decrypters gives back what its encrypter was given |
| `VaultTypes` | `VaultSpec => []VaultTypeOK` |
| `SettledEntryStays` | `VaultSpec => SettledStays` |
| `FailedPutLeavesNothing` | `VaultSpec => FailedLeavesNothing` |
| `AcknowledgedIsReadable` | `VaultSpec => []AcknowledgedReadable` |
| `ReadsAreAuthentic` | `VaultSpec => []AuthenticatedRead` |
| `VaultImplementsWriteOnce` | `VaultSpec => ImplementsWriteOnce` |
| `MediaTypes` | `MediaSpec => []MediaTypeOK` |
| `DoneIsStored` | `MediaSpec => []DoneMeansStored` |
| `HubTypes` | `HubSpec => []HubTypeOK`, racing or not |
| `ListIsOneRing` | `HubSpec => []OneRing` |
| `NobodyTwice` | `HubSpec => SentOnce` |
| `WalkReachesAll` | `HubSpec => []EverybodyReached` |
| `GatewayTypes` | `GatewaySpec => []GatewayTypeOK` |
| `WalkIsAccurate` | `GatewaySpec => []WalkAccurate` |
| `SessionIsBacked` | `GatewaySpec => []SessionBacked` |
| `AnsweredOnce` | `GatewaySpec => []OneAnswer` |
| `WalkIsBounded` | `GatewaySpec => []WalkBounded` |
| `PagesAreTheList` | following `next` over rows that do not change shows each once, in order |

**The manager.** `AuditComplete` is not inductive: an update may write a stale
copy, and whether the history still covers it depends on what the copy is. The
inductive invariant is `TypeOK` with

- `InsertFrames`: a call on the insert path has no row yet, and has its audit
  row once it is past the first statement;
- `HeldCopies`: every copy that a call or a removal batch holds is of the node
  and type of the row it will be written to;
- `HeldHistories`: the audit table covers every held copy from the row's first
  revision to the copy's (to the one before it, when the call has counted the
  revision up and not stored it yet);
- `RowHistories`: the same for the row, which is `AuditComplete`;
- `NoticeBacked`, `EventBacked`: a call about to announce a new revision has
  its audit row, and so has every event sent.

`HeldHistories` is the point: overwriting a newer row with an old copy moves
the revision back, but never to one whose history is incomplete. An update
that stores revision k+1 and has not logged it is the case `Logged` allows, by
`pc[r] = "log"`; that label survives a failure there, so a crash between
UPDATE and audit INSERT is visible in the statement of the theorem, not
excluded from it.

Conflicts have an invariant on top, `CInv`. As long as no call has stored a
new revision of a row (`Bumped`), every copy of it that is held says the
revision of the row (`CopiesAgree`), so that only a bumped row, or another row
of the reference, can refuse a call (`ConflictsBacked`).

**The API.** NodeApi is made of calls, statements and failures of NodeManager,
so the invariants of the manager are inductive for it as they are. On top of
them come invariants about the frames of calls: `RowsOwned` and
`InsertersDiffer` (a fresh reference has one inserter, and its row keeps it),
`Announcing` (a removal announces and writes a deleted copy), `RemovalFrames`
(only `Remove` is in the removal loop), `NoticesLogged` and `AcceptedLogged`
(the document of a call is in the audit table from the moment it may be
announced).

**The hierarchy.** `HierarchyIsForest`: if u is not at or above p, some set C
closed under parents holds p and not u. A cycle through the new edge would have
to meet C in a set that, before the move, had a node whose parent lies outside
it; that parent is in C or nobody, hence the cycle had an exit already.

That `Move` goes through such steps rests on the array it tests. `TreeInv` holds
whatever meets: the rows, the locks and what each session has read have their
types, and a parent is a row. `AloneInv` adds, for moves that do not overlap and
as long as no row came out of place, that the committed array of a row is the
path of the row (`ParentsArePath`), and that a session which has run its query
is `Prepared`: the arrays there will be once it has written what it read
(`Final`) are the paths of the forest with its edge in place (`Moved`), and that
edge closes no cycle. `ListedAbove` says that when arrays are paths, a node is
in the array of another exactly if it is above it, so the guard of `Move`
decides `AtOrAbove`. `BranchRounds` unrolls the recursive query into rounds, one
for each depth below the moved row, and `ResultDecides` says that its result
has, for each row below, the one array that is a path in the new forest. An
insert in its place keeps all that: a row under a parent comes only while nobody
moves, and one at the top is no part of any branch.

`MoveRewrites` needs none of this but the rounds. A row has one parent, so a
query that ends has come to it by one way, and the array it found there continues
the one it found at the parent (`ResultContinues`), right or wrong as the
target's own was.

`NoOverlap`, that no two sessions are in a transaction at the same time, is a
hypothesis about the run and not an assumption about the code, which has no
lock to ensure it: without it the rows do not even stay a forest
(`tree_cycle`, section 3). It is met by every behaviour of a single session
(`OneMover`).

**The subscriber.** `SubInv` is about the walk of the dispatcher over a list
that the goroutines of earlier events shorten under it. No list has a handler
twice (`ListsOK`); what the walk has passed comes in the order of the list
(`OrderOK`), so that a step to `Next` cannot come back to an element, which is
`HandledOnce`. As long as nobody has left the list, what was passed is a
beginning of it (`ReachedOK`), so that a walk which has come to the end has
called everybody (`NobodySkipped`). An event is in the queue at most once and
walked for once (`QueueOK`), and a goroutine is one of a handler that the walk
has been to (`CallsOK`).

**The padding.** `PadLengthCompletes`: the loop ends at the least length that
completes a block. `Padded` gives the bytes of `Pad`, the last of which is the
number of bytes to take off again.

**The ciphers.** A stream is written in pieces and read as one text. The pieces
are cut at the borders of copies or blocks; `Account` follows a sequence of
pieces and says, for each cell of the whole, which piece has it at which place,
and from this a cell of the stream is found to be the encryption of the byte at
the same place of the source, for each of the five ciphers (`InStream`).

**The vault.** A call that is under way writes the objects of its own name and
the file it has open. `ObjectsInv`, inductive by itself, says that this file,
and every binary in the store, was made by a Put on the same name
(`ObjectsInvariant`). So a name with no call under way is touched by nobody
(`WritesItsOwn`), and a Put that begins on it finds the binary and returns
(`StartsSettled`); only a removal gets further. A `Put` whose look fails goes
over the entry of a name that has settled; that is the one other step that
begins on one, and `dropped` tells it. `FailedPutLeavesNothing` has `FailInv`,
on the file system: metadata in the store are of calls that got as far as
writing them (`Unwritten`), a call that has its name to itself keeps it until it
ends (`AloneAtWork`), and such a Put begins without a binary and, unless a
removal failed, finds removed what its earlier undo steps have removed
(`Progress`). What it may leave is its keys, if it is the metadata's encoding
that failed.

`AcknowledgedIsReadable` has `ReadInv`: whoever was alone still is (`Solo`), a
call that has not begun has written nothing (`Untouched`), and for each step
of a Put that is alone, what of its keys, metadata and binary is in the store
or in its temporary files (`PutAt`): in the middle of the copy, exactly the
pieces it has written; at the end all of them, unless an error was dropped.
The rest is `CipherRoundTrip`.

`ReadsAreAuthentic` needs nobody to be alone. `GenuineInv`, for aes_gcm: every
cell of every file was sealed by a Put on the name of the file, at the very
place where it lies (`Genuine`). A text that opens under some keys is the whole
text of one of these Puts.

`VaultImplementsWriteOnce` adds `OnceInv`: the binary under a name that a Put
has to itself is its own. Until a call returns, its steps leave the entry as it
is (`GoesOnSame`); the entries of other names do not change (`OthersSame`); a
return either leaves others at work, who then share the entry (`StepReturns`),
or settles it as one of the `Outcomes`, and a crash settles all that are under
way in the same manner (`StepCrashes`).

**The media.** `DoneMeansStored` is about rows, and rows are overwritten with
copies of any age. `MediaInv` therefore asks the same of every copy that is
about to be saved as done, unless it is done by a client's word (`WorkerOK`),
and what was stored once stays so whatever happens to the store, or is `tainted`
(`Stays`). For the name of a copy to be a name at all, its revision is at most
one more than the number of changes (`RowOK`). `MediaTypeOK` has `HoldInv` on
top: the vault is busy with a name only for workers whose copy has that name
(`Busied`), and no node that has a source, and no copy of one that is about to
be saved, is still in status init (`Asked`). Media uses the vault as WriteOnce,
which `VaultImplementsWriteOnce` justifies.

**The hub.** `RingInv` is: unless routes have raced, the pointers are
of the right kind (`PointersOK`), `next` and `prev` undo each other on the
ring of running connections (`RingOK`), and at most one route is between its
reads and its writes, with neighbours that are still neighbours
(`OneChanges`). This does not exclude a second ring beside the root's.
`OneCycle` does: a part of the ring that holds the root and is closed under
`next` is all of it. A walk has been where its `Trail` says, a set that `next`
leaves only at the cursor; when the cursor comes back to the root the set is
closed, hence everything (`WalkReachesAll`).

`HubTypes` and `NobodyTwice` hold when routes race, too. The list may lose
elements then, but never gets a loop that misses the root: `OrderInv` says that
there is a numbering of the connections along which `next` ascends
(`Ascends`), whatever the pointers are, and a route that comes in gets a number
between those of its neighbours (`Inserted`). A walk ascends with it and so
never meets an element twice.

**The gateway.** `SessionInv` follows a token from its login to the route: a
name that was read from an account, a login for every token a client keeps
or sends, and between the two steps of the guard the time at which the
expiry was looked at. `AnsweredOnce` has an invariant on `answer`: nothing is
written before a request is answered, and only one step answers it.

**The walk.** `WalkAccurate` is about the end of a walk of any number of pages,
over a table that others write between them. It is proved in three layers.

- The tables. `TableInv`: a node has one row, a revision of it a version of its
  own, and no table is longer than its first rows and the writes.
  `SelectedAreListed` says that the query of a route finds, in order, the rows
  that were asked for; it speaks of `Picked`, which keeps the order of a table
  (`PickedSame`, `PickedTwice`). A write takes at most one row out of such a
  list and puts at most one at an end of it (`Rewritten`, `WrittenRewrites`).
- The count. The client stands at a place of the list, the offset of the next
  page. `Accounted`: of the rows of the start, no more than the writes are
  before this place and have not been seen; and no more rows were shown than
  there are different ones, less those behind the place that will come again,
  and the writes. A write moves at most one row over the place, either way
  (`FrontOneMore`, `BackOneMore`), and so costs one in each count
  (`AccountedWrite`); a page moves the place past what it shows
  (`AccountedPage`); at the end nothing is behind (`AccountedEnd`). This is
  where the property's bound of one row for each write comes from.
- The client. `WalkAt` follows a walk from its first request over pages that
  are asked for, written and received to its end. `Held` is why later writes do
  not break what was true when it ended: the rows it began with are in the
  table, wanted or deleted, and a deleted one is not undone, so that nothing
  comes back into the list that the walk could then be said to have lost. That
  is so because a save is one step in Gateway; the stale save of section 3 that
  writes `deleted` back is in NodeManager.

`WalkIsBounded` has two parts. `Fits`: the list of a route has at most as many
rows as when the walk began, and one for each write since. `Sent` and `Due`: a
page beyond the first is asked for only after one that was full and had more
behind it, so that the rows before it are fewer than the list had then.

`GatewayTypes` is `TypeInv`, which gives the walk the types of its pages.

**The pages.** `PageOfList` says what one page holds and that `next` is set
exactly when there is more; `OffsetExact` that no offset on the way wraps when
the list is shorter than the modulus. A walk that has seen a prefix of the
list sees a longer one or all of it (`StepKeepsPrefix`), which is the
inductive invariant of `WalkFrom`, the walk as a specification of its own.

**Induction.** The library's induction theorems take an operator as a
parameter, which the installed provers do not instantiate. Where the proofs
need induction over numbers, they use sets instead: `LeastNumber` comes from
`WFMin`, which speaks of sets, and `AllNumbers` from it. The rounds of the
recursive query and the accounts of the pieces of a stream are followed that
way, and `AllSequences` does the same for sequences that grow by one element:
it takes the set of those a fact holds for, which is how the equations of the
recursive function in `Picked` are solved.

**Left to TLC.** Liveness under fairness (`RemoveReturns`, `MovesReturn`,
`StopReturns`, `Served`, `Quiesces`), which TLAPS does not reach. Every other
property of the passing runs is stated by a theorem; the four of the hierarchy
beside its types (`PathsKept`, `MovesImplementHierarchy`, `RefusalsJustified`,
`BranchRewritten`) under the condition that moves do not overlap, without which
the rows do not even stay a forest.

## 5. Not modelled, and why

- Explorer: the state of a page in a browser, over the same API; the server
  keeps none of it. Its hazard is listed with the others.
- Setup creates the schema, which is the initial state; dropping and loading
  tables under a running server is an operator's action.
- Server life cycle: wiring; its order (Prepare, Run, Exit) is used by
  Subscriber and Hub, and what it registers by Media and Gateway.
- Node types other than images, videos and users, serialization, SQL builders,
  configuration, security headers, development commands, mocks and fixtures
  keep no state.
- `plugins/guard/jwt_token.go`, `plugins/search/search_basic_index.go` and
  `plugins/vault/vault_stats.go` are not used by the server.
- Within the modelled parts: log messages, time stamps but for the order of
  `updated_at`, `ReadOnly` (a constant refusal), the Ping timer of the
  subscriber, the branch of `ListenMessage` after `Register` that no caller
  takes, resizing of images (a pure read), and two writers on one WebSocket,
  whose outcome is its library's.

## 6. What could follow

1. **Composition**: Media over NodeManager itself instead of the two steps of
   its `Save`, with the subscriber's handler lists in between.
2. **Explorer**: the reducers under answers that arrive in any order.
