# NexusMesh: models, checks and proofs

NexusMesh sells bandwidth of a mesh of WiFi routers. A browser user logs in with
a wallet, asks for a connection, is routed over a path of routers to a gateway,
and pays the first router of the path when the connection ends. This directory
holds TLA+ modules of the parts of the system where state is shared, reserved,
paid for or freed; TLC configurations that check them on small instances; and
TLAPS proofs of what matters most for instances of any size.

Paths below are relative to the repository (`src/...`).

## 1. Inventory

| Component | State | Operations | Talks to |
|---|---|---|---|
| **Engine, mesh** (`Engine/src/core`, `services`) | `id2PtrMap` owning the nodes, quadtree and adjacency lists of raw pointers, available bandwidth per node | `InitialReboot`, `AddNodeMethod`, `RemoveNodeMethod`, `GetShortestPath` (search and reservation), `RemoveUserMethod` | called by the Orchestrator over gRPC |
| **Engine, quadtree** (`quadtree.cpp`, `boundary.hpp`) | the tree | insert, subdivide, query, remove | Engine, mesh |
| **Engine, process** (`main.cpp`) | task queue, `stop_`, `maint_running`, threads | post, workerLoop, stop, start and shutdown of the server | |
| **Orchestrator, connections** (`user.controllers.js`) | none of its own: AccessToken and ConnectionToken cookies in the browser, the login challenge in the Express session | nonce, authenticate, logout, `get_connection`, `end_connection`, history | Engine, MongoDB, Ledger |
| **Orchestrator, node registry** (`pseudo_node.controllers.js`, `wifi_node.models.js`) | the WifiNode collection | `register`, `add_node`, `remove_node` | contract (view), MongoDB, Engine |
| **Orchestrator, process** (`index.js`, `db/index.js`) | | start, shutdown (drops the collection) | MongoDB |
| **Ledger service** (`Ledger/src`) | `sessions` table | `settle_session`, `get_history` | contract, PostgreSQL |
| **Contracts** (`NexusMeshLedger.sol`, `MeshToken.sol`) | registered wallets, balances, allowances | `registerNode`, `transferFunds`, `setLedgerService`, ERC20 | |
| **Frontend store** (`store/`, `backend/`, header buttons, `Connection.jsx`) | `activeStatus`, `transitionStatus`, the connection timer | connect, end, logout, timer, reload | Orchestrator, MetaMask |
| Scripts, pages, generated code | | | |

What makes each part hard, and what correct means for it:

- **Engine, mesh.** One exclusive lock (`rw_mutex_`) covers every RPC, so the
  difficulty is not interleaving inside the Engine but long sequences of RPCs:
  nodes are freed while others point to them, addresses are reused, a batch may
  be rejected half way after the old mesh has been cleared, bandwidth counters
  are the only memory of who uses what, and a release is believed whatever it
  says. Correct: index and map agree, neighbours are linked, bandwidth is
  conserved, a granted path is a route and a cheapest one, a refusal is
  justified, a search ends.
- **Engine, process.** A hand-written thread pool with two different orders of
  taking threads down. Correct: no lost wakeup, no deadlock between joins,
  nothing left running or waiting when `main` returns.
- **Orchestrator and Ledger, connections.** Every `await` is a place where other
  requests run, a reply is lost or a process dies. Nothing is remembered on the
  server, nothing is retried, nothing is compensated: the only record of a
  reservation is a JWT in a cookie. Correct: the right wallet pays, never before
  the bandwidth is released; success is reported only when all of it is done;
  counters in the Engine agree with the reservations that are open.
- **Node registry.** Contract, MongoDB and Engine are changed one after the
  other by handlers that may overlap. Correct: whoever the Engine routes over
  can be paid, and the Engine is never handed a batch that breaks it.
- **Engine, quadtree.** Boxes that share their edges, nodes that share a place,
  an overlap test whose `abs` may be the one of integers, removal from a tree
  whose shape depends on the order of insertions. Correct: a query finds the
  nodes in its box, all and only these, and a removed pointer is not found again.
- **Frontend store.** A timer, two buttons and a logout that may all end the same
  connection, in several tabs with one cookie jar; answers whose headers change
  the cookies before, or without, their body reaching the page; reloads that take
  the timer with them. Correct: a connection on the screen is timed, ends, and is
  ended once; what the user sees is what the cookie is for; a token that can
  still end a session does not lie around with nobody to use it.

## 2. Modules

| Module | Models | State and actions |
|---|---|---|
| `MeshEngine` | Engine, mesh | `heap`, `id2PtrMap`, `tree`, adjacency as sets of addresses; one action per RPC, one per iteration of the two loops of `getShortestPath` (`phase` says where it is); `tokens` are the reservations outside the Engine |
| `MeshEngineProofs` | | types, index and links of `MeshEngine`, for any mesh |
| `MeshSearchProofs` | | what the search and the walk know at each point, for any mesh |
| `MeshBooks` | | bandwidth, granted routes, refusals and the refinement, for any mesh |
| `MeshService` | what the Engine's RPCs promise | bandwidth in total and free per node, the number of open reservations per path and bandwidth; one action per RPC, no search, no heap |
| `MeshRefinement` | | `MeshEngine` as a `MeshService`: the refinement mapping |
| `Quadtree` | insert, subdivide, query, remove | operators on a tree: a function from the names of its subtrees (the quadrants that lead to them) to their boxes and nodes |
| `MeshIndex` | the calls that the RPCs make to the quadtree | `MeshEngine` with the tree as one more variable, `quadtree`, which reboots, additions, removals and restarts change |
| `MeshIndexProofs` | | the tree is what `MeshEngine` takes it for, for any capacity, places and boxes |
| `MCMeshEngine`, `MCMeshIndex` | | small worlds for TLC: nodes, requests, the places and their coordinates |
| `SessionSettlement` | get_connection, end_connection, settle_session, transferFunds, cookies | `call[c]` is a request's place between two awaits, `job[c]` the Ledger's half of it; `released`, `charged`, `rows` are the books |
| `SessionLedger` | what the services promise of a session | its owner, releases, payments by wallet, rows, who is told of its end; no cookies, requests or failures |
| `SettlementRefinement` | | `SessionSettlement` as a `SessionLedger`: the refinement mapping |
| `SettlementProofs` | | who pays, what a receipt means, rows, transfers, releases and bandwidth, the refinement, for any number of everything |
| `MCSessionSettlement` | | symmetry |
| `NodeRegistry` | register, add_node, remove_node, registerNode, shutdown | `call[c]` as above, `rpc[c]` the message on its way to the Engine, which may arrive after the handler has gone |
| `RegistryProofs` | | who is routed over and paid, for any routers and requests |
| `MCNodeRegistry` | | two routers, an impostor and a broken record |
| `FrontendStore` | the two slices and the timer's listener, `connect.js`, `auth.js`, the three header buttons, the connection form, `App`'s first request, the route guards | `page[p]` is the store of a tab, `call[c]` a request in one of the three steps of a fetch; `access` and `jar` are the cookies |
| `FrontendProofs` | | what is on the screen, for any number of tabs and requests |
| `MCFrontendStore` | | two tabs, a request each for their timers |
| `ThreadPool` | `main.cpp` | a critical section of `mutex_` is one step; waiting, notifying and joining are steps of their own |
| `ThreadPoolProofs` | | order of shutdown for any number of workers |

How they compose. `MeshEngine` assumes of its caller that a batch never repeats
an id (`CallerAssumption`); `NodeRegistry` shows it of the caller
(`BatchesAreDistinct`, a theorem). `SessionSettlement` takes from `MeshEngine` that a
reservation debits and a release credits every node that still exists, and a
node with a debit is not removed; it follows one node of the path, the one that
is paid. `NodeRegistry` shows that this node's wallet does not change while the
Engine has the node (`PayeeIsStable`).

`MeshRefinement` maps the heap to `MeshService`'s register: a node's total and
available bandwidth are the fields of the cell its id leads to, as they were
before a walk that is under way, and the reservations of a path are the tokens
for it that have not been returned and whose mesh has not been replaced
(`Granted`). An RPC that changes the register
is the abstract step of its kind (`Replace`, also for a batch rejected half way,
`Join`, `Leave`, `Release`); the last step of a search that grants a path is
`Grant`, every other step of the search a stutter. `Break` is the one step the
promise does not cover: memory is misread, or a token released twice.

`SettlementRefinement` maps the requests and jobs to `SessionLedger`: the owner of
a session is the wallet its reservation was made for (`deal`), and the sessions
whose users are told of an end are those of handlers at "ended" (`Told`); the books
are the books. `Reserve` and `Release` are the abstract steps of those names, a
`Transfer` is a `Pay`, an `Insert` a `Store`, and `Settled` a `Tell`. A handler that
answers or dies at its last line is an `Answer`; cookies, failures, crashes
elsewhere and the Engine's removals change nothing. Each step books something for
one session at most.

`MeshEngine` takes the quadtree for the set `tree` of the nodes in it; `Near` says
what a query finds. `MeshIndex` runs the quadtree beside it: each RPC makes on
`quadtree` the calls of `Quadtree` that the code makes. `FiledOnce` says that the
tree holds the nodes of the set, each once; `QueryIsExact` that a query on it
finds `InRange`. Every step of `MeshIndex` is a step of `MeshEngine`
(`IndexedEngineImplements`), so all that is proved of `MeshEngine` holds of the
Engine with its tree.

`FrontendStore` is the environment of `SessionSettlement` seen from the browser:
its `Login`, `Logout`, `GetConnection` and `EndConnection` are the requests that
`FrontendStore` sends. Of the servers it keeps only whether a request succeeds
and what its answer does to the cookies, which are the cookies of
`SessionSettlement`. `EndedOnce` says when the page, the only place where it
could be done, keeps the Engine from being sent the second release that
`MeshOverRelease` and `CapacityKept` are about.

### Abstractions

- *Bytes of freed memory.* A freed cell keeps its content until an allocation
  takes its address (`Blank` is a cell never used). A search that reads one sets
  `tainted`: what it finds is one of the outcomes the build can produce.
- *Geometry.* `Near` and `Dist` are constants; the 30 m box and the Haversine
  formula are evaluated outside. Costs are scaled to integers: twice `Scale`
  times the cost of `calculateCost`, where `Scale` is a common multiple of the
  bandwidths, so no rounding takes place.
- *The priority queue* pops any entry of lowest cost (`Tops`): the order of
  equal entries is the library's.
- *The quadtree.* Coordinates are integers, and a box counts in fractions of its
  own (`unit`), so that halving it is exact at every depth, as it is in doubles
  until some fifty levels down. `Degree` is the number of coordinates to a
  degree; with `cut` the `abs` is the one of integers, which cuts a difference to
  whole degrees. A walk down the tree is stated by its result: `Reaches` and
  `Target` say where the recursion of `insert` ends, `Above` which boxes `query`
  and `remove` have passed.
- *A fetch* is sent with the cookies of the moment; its headers change the
  cookies; its body reaches the page. It may fail before each of the last two,
  and a reload forgets the page's part of it only.
- *Data of a session.* Wallet and node are kept; bandwidth is one unit; the cost
  of a session is left out, allowance and balance are part of `TransferFails`.
- *The node's numbers* are one flag in `NodeRegistry`: does the Engine accept
  them. "In use" is a nondeterministic refusal there.
- *Unique indexes* of MongoDB are taken to exist whenever a request is served.
  Mongoose builds them when it connects.
- *Engine restarts* are in `MeshEngine` and `NodeRegistry`; in
  `SessionSettlement` the Engine runs through, since a restart voids all
  counters at once (`tokens[k].current` in `MeshEngine`).

## 3. Runs

| Run | Instance | Shows |
|---|---|---|
| `MeshSafety` | line of three nodes, three addresses, two tokens; an id that comes back elsewhere; a batch with an invalid node | `IndexMatchesTree`, `NeighboursLinked`, `BooksBalance`, `ReservationSucceeds`, `GrantedPathIsARoute`; the Engine is a `MeshService` (`ImplementsService`) |
| `MeshRoutes` | a slow relay two hops from the gateway, a thin one three, which may come back beside the slow one; hop limit 2; four nodes | `GrantedPathIsCheapest`, `RefusalIsJustified`, against all simple paths; `FiledOnce` and `QueryIsExact` of the quadtree that runs beside it |
| `MeshReplay` | bandwidth released twice (`MaxSurplus` 2), hop limit 3 | `TypeOK`; `SearchEnds`, also with negative costs and cycles of parents |
| `MeshDangling` | as `MeshSafety` | *violation*: pointers to freed nodes |
| `MeshOverRelease` | as `MeshReplay` | *violation*: a token released twice |
| `MeshHops` | as `MeshReplay`, hop limit 2 | *violation*: a granted path of three hops |
| `Settlement` | two requests, two sessions, two wallets in one browser, one node for both sessions, two releases per session | `TypeOK`, `PayerIsOwner`, `BooksInOrder`, `ReceiptIsHonest`, `CapacityKept`; the services are a `SessionLedger` (`ImplementsLedger`) |
| `SettlementHistory` | the same | *violation*: paid, no history row |
| `Registry` | two requests, two ids, two wallets, four records | `TypeOK`, `NodesArePayable`, `BatchesAreDistinct`, `PayeeIsStable` |
| `RegistryLeftovers` | one router | *violation*: a document that is never reconciled |
| `ThreadPool` | three workers, three tasks | `TypeOK`, `NothingRunsAfterMain`, `NothingLeftBehind`, `TasksRun`, `ShutdownEnds` |
| `Frontend` | two tabs, one wallet, two sessions, one user's request beside one for each tab's timers | `TypeOK`, `ShownIsTimed`, `RouteIsTheTokens`, `LoadingMeansSettling`, `EndedOnce`, `TokenIsWatched`, `ShownEnds`, `WatchedIsEnded` |

Why the bounds are enough. *MeshSafety*: a node, a middle one and a gateway give
paths of length one to three; three addresses for three ids force reuse of a
freed address; two tokens let reservations overlap at a node of bandwidth two
and fill it. *MeshRoutes*: the search may err
only where two ways lead to the same node, and two relays under every load and
every direction of links give all orders of pops and updates of `visited`. At a
hop limit of 2 both exceptions that the properties make are met: a user who
needs the thin relay is refused although there is a way of three hops, and one
who may take the slow relay is granted it although the way of three hops is
cheaper; users nearer by are served within the limit. For the quadtree a subtree
there holds one node instead of four, and the nodes lie at the centres of
quadrants of the first and second level, at a common edge of all four quadrants,
and, when one has come back, two in one place: repeated subdivision, a range that
crosses the root's edges, a reboot that starts from an empty tree. Any of the
four may be removed, so that room appears anywhere above the others. *MeshReplay*: one repeated release
already makes costs negative; the hop limit of 3 is in reach of a cycle of two. *MeshHops*: two ways of different length
to a node before the gateway need a limit of 2.
*Settlement*: a race needs two requests, a mixed-up session two sessions, a
wrong payer two wallets; a retry is a second release. *Registry*: all hazards
are between two handlers, one of which may have left a message behind.
*ThreadPool*: notify_one chooses between waiting workers, while a third is
running; three tasks cover a queue that is longer than the workers that wait.
*Frontend*: a stale answer needs a request that is still under way when the next
begins; a token that replaces another needs two sessions; whether a request
carries the owner's AccessToken needs a wallet and its absence, and a second
wallet would only be another way not to carry it. Beside the user's request the
timers of each tab have one of their own (`Tick`). In the code a timer waits for
nothing; here it waits while an end that an earlier timer of the same tab has
asked for is unanswered (an end that the user has asked for may be). The
theorems have no such bound: the safety properties are proved for any number of
requests per tab, and only `ShownEnds` and `WatchedIsEnded` rest on it. With both tabs timing out
while the user logs out, three requests meet. A session is used again once
nothing in the browser refers to it (`Unknown`), so that attempts have no bound.

Bounds named in the modules: `MaxTokens`, `MaxSurplus`, `HopLimit`,
`MaxReleases`, `MaxTasks`, and the sets `Addr`, `Session`, `Call`, `Click`, `Tick`. Each
appears in a guard; none hides an error path.

Symmetry is used over heap addresses (`MeshSafety`, `MeshRoutes`) and over
wallets and sessions (`Settlement`), which no definition tells apart, and never
in a run with a liveness property. `ThreadPool` alone turns deadlock checking
off: the process is meant to end.

### Fairness

- `MeshReplay`: weak fairness of `SearchStep` only. The handler holds the lock
  and waits for nothing, so it keeps running. No request has to arrive.
- `ThreadPool`: weak fairness of each worker, of the maintenance thread, and of
  `main`'s own steps. Threads are scheduled and `sleep_for` returns. Nothing is
  assumed of spurious wakeups, and nobody has to send a signal.
- `Frontend`: weak fairness of each timer, and of what becomes of the requests the
  timers have sent (`Ending`). A delay ends, and a fetch is answered or breaks. The user's
  own requests, the wallet's approval, cookies and reloads are under no
  obligation: `ShownEnds` and `WatchedIsEnded` hold if they never move again.
- `RegistryLeftovers`: weak fairness of each handler and of the Engine's
  answers, i.e. every await is over at some time. The counterexample ends in a
  state in which no handler and no call is left.

### What the violations say

| Finding | Code | Text it departs from |
|---|---|---|
| A removed node stays in its neighbours' adjacency lists | `service_class.cpp:138` | `wifi_node.cpp:6`, `service_class.cpp:52` |
| A repeated `end_connection` releases twice | `service_class.cpp:153` | `services/engine.md:15` |
| A granted path may be longer than the hop limit | `dijkstra.cpp:144` | `services/engine.md:17` |
| A session can be paid without a history row | `orchestrator.controllers.js:106` | `architecture.md:57` |
| A document whose deletion failed is never reconciled | `pseudo_node.controllers.js:193` | the comment on line 192 |

A token released twice has a consequence at `dijkstra.cpp:136`: parents may form a
cycle, the walk then debits a node more than once until it throws, and what it
has debited stays debited although the request is refused.
`ReservationSucceeds` shows that this takes a repeated release, or a read of freed
memory.

The hop limit is compared with the entry that is popped, and the path is read
from `visited`. In `MeshHops` a node is queued with one hop, then more cheaply
with two; the cheaper entry is cut at the limit, the dearer one expanded, and
the path goes the way of the cheaper one. What the limit can cost
is bounded, and that is part of `GrantedPathIsCheapest` and `RefusalIsJustified`: a
route may be missed, or a dearer one granted, only if it is `Hidden`, i.e. as many
nodes as the limit allows hops, less one, have been reached over other nodes and
cost no more than the route. With at most twenty nodes in the mesh no route is
(`SmallMeshesHideNothing`), and a granted path, being simple, is within the limit
(`SmallMeshesKeepTheLimit`).

The passing properties are stated around these: `BooksBalance`,
`ReservationSucceeds` and the properties of routes hold until memory has been
misread or a token released twice (`tainted`); `CapacityKept` until a session
has been released twice; the properties of the registry until the collection is
dropped under a running Engine (`dropped`), which a regular shutdown of the
Orchestrator does. Without that condition `CapacityKept` and each property of
the registry fails. In `FrontendStore`, `EndedOnce` and the second half of
`RouteIsTheTokens` hold until two attempts to connect overlap, or a logout with
the next login (`mixed`); `TokenIsWatched` and `WatchedIsEnded` name the four
ways in which a browser forgets a connection it still has the token of
(`orphaned`): a reload, an answer whose body is lost, an attempt that fails on a
page that is connected, and an end that is asked for without the owner's
AccessToken, which a logout always does.

### What the properties do not exclude

The models contain these behaviours, no text of the repository denies them, and
the passing properties hold with them:

- *A session is charged twice.* `end_connection` is repeated after a failure
  (`user.controllers.js:302`), two of them overlap (line 341), or `tx.wait()`
  throws although the transfer is mined (`orchestrator.controllers.js:31`).
  `BooksInOrder` and `ImplementsLedger` give every payment a release of its own and
  the right payer, and allow as many payments as there are releases. What keeps
  the number at one is the page: `EndedOnce`, one attempt at a time.
- *A reservation is forgotten.* The reply of `GetShortestPath` is lost (line 191), a
  second `get_connection` overwrites the token (line 245), or a late `clearCookie`
  removes a newer one (line 362). The bandwidth stays reserved and nothing can
  release it. `CapacityKept` counts such a reservation among the open ones, and
  the properties of `FrontendStore` about a token speak of the one in the jar.
- *A session is left running with its token in the jar*: a logout
  (`LogoutBtn.jsx:15`), an attempt that fails on a page that is connected
  (`Connection.jsx:45`), a reload (`store.js:21`), a lost body. `TokenIsWatched` and
  `WatchedIsEnded` exempt these (`orphaned`); what they show is that there is no
  fifth way.

## 4. Proofs

All proofs are checked by `tlapm` to the last leaf, from the assumptions named
in the modules (`ConstantAssumption`, `CallerAssumption`, `RouterAssumption`,
`BlankAssumption`, `QuadtreeAssumption`, `GeometryAssumption`, `SettlementAssumption`, `RegistryAssumption`,
`PoolAssumption`, `BrowserAssumption`), which say what the constants are and
what the Orchestrator sends. TLC evaluates them on every run. Ids and heap
addresses are finite sets of any size. `RouterAssumption` (no node has the id -1,
which ends the walk, and no latency is negative) is what `distribute.js`, the only
caller in the repository, provides; neither the Orchestrator nor
`validateNodePayload` checks it.

- **`MeshEngineProofs`**: `TypeCorrect`, `TreeAgreesWithMap`,
  `NeighboursStayLinked`. The inductive invariant `MeshInv` adds to types and
  index that adjacency lists only point to cells that hold or held a node
  (`LinksPointToNodes`): without it, a search through a dangling pointer could
  read anything and the queue's type would be lost. `IndexMatchesTree` says that
  an id leads to the cell that carries it and that the tree holds these cells
  and no other; that an owner is unique follows, and with it that erasing one id
  removes one cell. Neighbours stay linked because a node that enters links to
  all it can see, and a free address is never in the tree.
- **`MeshSearchProofs`**, **`MeshBooks`**: `ReservationAlwaysSucceeds`,
  `GrantedPathIsAlwaysARoute`, `BooksAlwaysBalance`. The walk reads the path from
  `visited`, whose entries are overwritten until the gateway is popped, and debits
  nodes as it goes; so nothing the three say can be proved from the mesh alone.
  `EngineInv` has four parts beside `MeshInv`. `WaySound` says, whatever memory was
  read, that a seen node was reached from the user or from a seen node, and that
  the walk follows these parents. `Forest` says, until freed memory is read, that an
  entry's parent is a neighbour and that its cost is at least the cost of this way
  (an entry's parent may have become cheaper since), and that no set of nodes has
  all its parents among themselves (`Grounded`). The last is the induction
  that the prover lacks, stated about sets: a walk that met a node twice would be
  such a set. A step of the search keeps it because a node whose parent changes
  gets dearer than its parent or stays as dear, and costs here are not negative;
  with costs below zero, as after a second release, it is false, and the walk can
  go round in a circle. `Books` says that the bandwidth a node has, as it was
  before the walk in progress, and the units that tokens stand for are its total.
  A unit is a pair of a token's place and a number (`Units`), so that adding and
  removing a token changes a cardinality and no sum has to be taken over the
  history. The bandwidth a walk finds is the bandwidth the search saw: a walk is
  simple, so that no node is debited twice.
- **`MeshBooks`**: `EngineImplementsService`. Under `EngineInv` each step of the
  Engine is simulated: a removal is a `Leave`, which needs that a node nobody holds
  has all of its bandwidth and one that somebody holds has not (`Named`,
  `Balance`); a release is a `Release` of the token's path, which needs that the path
  is one of `MeshService`'s (`TokensSound`) and that its nodes are still there; the
  last step of a walk is a `Grant`, and the debits before it are not visible
  because `Free` takes them back; a walk that throws does not occur.
- **`MeshBooks`**: `GrantedPathIsAlwaysCheapest`, `RefusalIsAlwaysJustified`,
  `SmallMeshesHideNothing`, `SmallMeshesKeepTheLimit`, for meshes of any size whose
  memory is in order. `ChoiceInv` adds `Frontier`: every node that has been seen is in the queue at its
  cost, or has been expanded at it, or may have been dropped at the hop limit
  (`NoneForgotten`); it stands for the closed set that the code does not keep. From a
  source along any route there is then a first node that has not been expanded, and
  either an entry that costs no more than the route or a node that was cut
  (`FrontierBeforeRoutes`). An empty queue therefore leaves only hidden routes, and a
  gateway at the top costs no more than any other (`GateIsCheapest`). What a cut
  means is in `HopsCounted`: an entry has at most one hop more than there are nodes
  that were reached over others at no higher cost, because every hop after the
  first made its end such a node, which it had not been at the cost of the hop
  before. An entry is never compared by its hops, so this is all that can be said of
  them. Over the granted path the costs add up to no more than the gateway's entry.
  On a mesh of at most `HopLimit` nodes the nodes that hide a route would be all but
  its gateway; as parents form a forest, one of these nodes would have the gateway
  as its parent, which is never expanded.
- **`MeshIndexProofs`**: `IndexInvariantHolds`, `IndexedEngineImplements`,
  `AlwaysFiledOnce`, `QueryIsAlwaysExact`. Neither property is inductive: a query
  skips a subtree by its box, `remove` turns away at a box that does not contain
  the node, so both need to know where a node may be. `TreeInv` says it: a
  subtree's box is the quarter of its parent's, and all boxes from the root down to
  a node's subtree contain the node's place (`Below`), whatever removals have left
  behind. Three facts about boxes carry it: the quarters of a box cover it, edges
  included (`QuartersCover`), so `insert` always finds a child; a walk that `insert`
  makes ends, at a subtree with room or one it is about to make, since a tree is
  finite (`TargetFound`); and a range and a box with a place in common are never
  further apart than their halves, also when the difference is cut to degrees,
  because cutting only lowers it (`CommonPlaceOverlaps`). `GeometryAssumption` is
  what `validateNodePayload` and `fromMeters` provide: accepted places are in the
  default box, and `Near` is what `contains` makes of the ranges.
- **`SettlementProofs`**: `SettlementTypes`, `OnlyTheOwnerPays`,
  `ReceiptsAreHonest`. None of them is inductive: a transfer is made by a job
  long after the wallet was compared. `RequestsMatchDeals` carries the owner of
  the session along the request and the job, although access and jar change
  meanwhile; `ProgressIsBooked` says what each place in a handler or job
  implies about the books. Since the books only grow and a session keeps its
  owner, both are stable under every other step, crashes included.
- **`SettlementProofs`**: `BooksStayInOrder`, `CapacityIsKept`. Both count, so both
  rest on the library's facts about cardinalities and on `Session` and `Call`
  being finite. `BooksInv` adds to each side of the inequalities what is under
  way: requests that have released a session and not found its node (`Finding`),
  jobs about to pay (`Paying`) or to store (`Storing`). Each step moves one of
  them to the next place and the books with it, and a crash only loses some.
  `CapacityKept` is inductive once a session that is not reserved is known to be
  unreleased; a removal is harmless because the Engine refuses it unless the
  counter is full, and then the count of holders is zero.
- **`SettlementProofs`**: `ServicesImplementLedger`. Under `SettlementInv` and
  `BooksInv` each step of a handler or a job is a step of `SessionLedger` on its own
  session, or none. A transfer is a `Pay` because the job is one of `Paying`, which
  `BooksInv` counts among the releases that are not paid yet: there is a release
  left for it, and the wallet it pays with is the owner's. A row is a `Store` for
  the same reason one place further on, and a handler that is about to report an
  end finds a row behind it (`ProgressIsBooked`).
- **`RegistryProofs`**: `RegistryTypes`, `RoutersCanBePaid`,
  `BatchesNameNodesOnce`, `PayeesAreFixed`. None is inductive, and no lock keeps
  the handlers apart. `HeldApart` says what does: an id that a request has created
  and not yet delivered, or taken from the Engine and not yet deleted, has its
  document, is not in the mesh, and is in no other request's hands. The first
  keeps others from creating it, the second from removing it. `Fitting` ties a
  handler to its Engine call, so that an answer is about the request that gets it
  and a call left behind by a dead handler keeps what it carries.
- **`ThreadPoolProofs`**: `PoolTypes`, `NoThreadOutlivesMain`,
  `NoTaskLeftBehind`. `JoinsInOrder` ties `main`'s place to the threads it has
  joined; `WorkersLeaveLast` says that a worker leaves only after `stop_` and,
  on the regular path, leaves an empty queue, which stays empty because the
  maintenance thread has been joined before `stop_` is set.
- **`FrontendProofs`**: `TypeCorrect`, `ShownConnectionsAreTimed`, `LoadingEnds`,
  `RouteIsTheTokensAlways`, `SessionsEndOnce`, `TokenIsWatchedAlways`.
  The inductive invariant `StoreInv` adds `RequestsOK`: a request under way has
  its page, one that was let in has its wallet, and a successful answer its
  token. Without it the page could be handed an answer that names no session, or
  an answer could settle a store that does not exist. `ShownIsTimed` is kept
  because `activeStatus` becomes true by `setActiveStatus` alone, which starts
  the timer again, and every step that stops a timer clears it.
  `LoadingMeansSettling` is kept because an answer settles the page that sent
  the request, and a reload forgets the page's requests with its store.
  `RouteIsTheTokens` and `EndedOnce` are two sides of `AttemptInv`: until attempts
  overlap (`mixed`) there is one timer or one request to connect (`OneAttempt`),
  and it knows the token in the jar and that nobody has ended it
  (`NotYetEnded`), up to a logout that has already taken the AccessToken the end
  would need. `TokenIsWatched` is inductive with `StoreInv`: a timer stops only with
  the token used, replaced or given up, and an answer that was delivered turns
  into a timer.

Only model-checked:

- `SearchEnds`, `TasksRun`, `ShutdownEnds`, `ShownEnds` and `WatchedIsEnded`: liveness
  under fairness is out of the prover's reach.
- The violations, which are facts about one behaviour.

## 5. Not modelled

- `MeshToken`, balances and allowance: they decide only whether a transfer
  reverts, which `TransferFails` covers.
- The login challenge in the Express session: `Login` is its successful end.
- `get_session_history` and `get_history`: they read and change nothing; so
  `userHistory` and the pages that show it are left out too.
- The cost of a session (`settle_session`): what is paid is decided by numbers
  no other part looks at.
- `setLedgerService`: an administrator's action outside normal operation.
- What the pages render. Their guards, buttons and requests are guards and
  actions of `FrontendStore`.
- The rounding of doubles: distances and costs in the search, and the centres of
  boxes some fifty levels down the quadtree.
- Deployment and distribution scripts, run once from a shell; generated code and
  artifacts.

## 6. Plan

Done, in this order: `MeshEngine`, `SessionSettlement`, `ThreadPool`,
`NodeRegistry`, `FrontendStore`, `MeshService` with its refinement, `Quadtree` and
`MeshIndex`, `SessionLedger` with its refinement, and the proofs above. Every
safety property the passing runs check is a theorem.

Next theorem: the part of `SearchEnds` that is safety. With costs that are not
negative, each entry pushed lowers a cost or adds a node, and a walk ends within
as many steps as there are nodes.

Next modules: `SessionSettlement` with the node's wallet and the registry's
steps, to say exactly when the router that is paid is the one that served; the
login challenge.

Behaviours of the code that no property covers: a node of id -1 ends the walk over
parents (`dijkstra.cpp:130`); a node may be removed and its id given away
between the release and the payment (`user.controllers.js:316`); `add_node`
leaves a document when the Engine refuses the node
(`pseudo_node.controllers.js:144`); the collection is dropped under a running
Engine (`db/index.js:21`); the history of one wallet may reach the page of
another (`LoginBtn.jsx:20`); the precision of boxes (`quadtree.cpp:14`); and the
charges, reservations and tokens listed under *What the properties do not
exclude*.
