----------------------------- MODULE MeshEngine -----------------------------
(***************************************************************************)
(* The C++ Engine: the mesh graph it keeps in memory and the RPCs that     *)
(* change it.  Every handler of EngineServiceClass holds one exclusive     *)
(* lock from its first read to its last write, so an RPC is one action.    *)
(* GetShortestPath, the only RPC with a loop of unbounded length, is cut   *)
(* into the iterations of its two loops; phase # "idle" while it runs, and *)
(* no other RPC starts then.                                               *)
(*                                                                         *)
(* Nodes are heap cells: id2PtrMap owns them (unique_ptr), the quadtree    *)
(* and the adjacency lists hold raw pointers to them.  A cell that is      *)
(* freed keeps its bytes until an allocation takes its address again.      *)
(*                                                                         *)
(* A ConnectionToken is the JWT in which the Orchestrator hands the        *)
(* browser what GetShortestPath reserved; RemoveUserMethod is called with  *)
(* what a token says.  The Orchestrator clears the cookie only when the    *)
(* whole end_connection request succeeds, so a token may come back.        *)
(***************************************************************************)
EXTENDS Integers, FiniteSets, SequencesExt

CONSTANTS
    Id,           \* node ids that may be named (int64)
    Loc,          \* places
    OnEarth,      \* the places with valid coordinates
    Near,         \* Near[l]: the places in the 30 m box around l
    Dist,         \* Dist[l][m]: Haversine distance, in metres
    Payload,      \* WifiNode messages
    Batch,        \* NodeBatch messages
    Joining,      \* the nodes that AddNode messages bring
    Request,      \* User messages
    Addr,         \* heap addresses an InternalWifiNode can be allocated at
    NoAddr,       \* nullptr: the id is not in the map
    Blank,        \* contents of a cell that holds no node
    NoRequest,    \* no search is running
    HopLimit,     \* the 20 of dijkstra.cpp
    Scale,        \* common multiple of the bandwidths: makes costs integers
    MaxTokens,    \* bound: ConnectionTokens in browsers' hands
    MaxSurplus    \* bound: how far repeated releases may inflate a node

\* The id that getShortestPath writes where there is no parent.
NoParent == -1

ASSUME ConstantAssumption ==
    /\ Id \subseteq Int /\ IsFiniteSet(Id) /\ IsFiniteSet(Addr)
    /\ OnEarth \subseteq Loc
    /\ Near \in [Loc -> SUBSET Loc]
    /\ \A l \in Loc : l \in Near[l]
    /\ Dist \in [Loc -> [Loc -> Nat]]
    /\ Payload \subseteq [id : Id, loc : Loc, total : Int, available : Int,
                          gateway : BOOLEAN, latency : Int]
    /\ Batch \subseteq Seq(Payload) /\ Joining \subseteq Payload
    /\ Request \subseteq [loc : Loc, bandwidth : Int, max_latency : Int]
    /\ NoAddr \notin Addr
    /\ HopLimit \in Nat \ {0}
    /\ Scale \in Nat \ {0}
    /\ MaxTokens \in Nat
    /\ MaxSurplus \in Nat

\* What the Orchestrator sends: a batch has distinct ids (NodeRegistry's
\* BatchesAreDistinct), and availableBandwidth is maxBandwidth.  An empty batch
\* is refused before anything changes, and is left out.
ASSUME CallerAssumption ==
    /\ \A b \in Batch : /\ b # <<>>
                        /\ \A j, k \in DOMAIN b : b[j].id = b[k].id => j = k
    /\ \A p \in Payload : p.available = p.total

\* What distribute.js registers, the only caller of register and add_node in
\* the repository: ids counted from 1, latencies of 2 to 50 ms.  Neither the
\* Orchestrator nor validateNodePayload makes sure of it.
ASSUME RouterAssumption ==
    /\ NoParent \notin Id
    /\ \A p \in Payload : p.latency >= 0

\* InternalWifiNode.
Cell == [id : Id, loc : Loc, total : Nat \ {0}, available : Nat,
         gateway : BOOLEAN, latency : Int, adjacency : SUBSET Addr]
ASSUME BlankAssumption == Blank \notin Cell /\ NoRequest \notin Request

VARIABLES
    heap,       \* heap[a]: the node at address a, or what is left of one
    id2PtrMap,  \* owner of the nodes
    tree,       \* the pointers in the quadtree
    built,      \* quadtree # nullptr
    phase,      \* where GetShortestPath is: "idle", "search" or "reserve"
    request,    \* its argument
    open,       \* nodeContainer, the priority queue
    visited,    \* best cost and parent per id
    route,      \* path, in forward order
    cursor,     \* the id the reservation walk debits next
    tokens,     \* ConnectionTokens outside the Engine
    linked,     \* history: the last InitialReboot answered SUCCESS
    tainted     \* history: a stale or repeated release, or a read of freed
                \* memory, has happened since the last reboot

search == <<phase, request, open, visited, route, cursor>>
mesh == <<heap, id2PtrMap, tree, built>>
vars == <<mesh, search, tokens, linked, tainted>>

-----------------------------------------------------------------------------
(* Reading the mesh. *)

Live == {id2PtrMap[i] : i \in Id} \ {NoAddr}
Registered(i) == i \in Id /\ id2PtrMap[i] # NoAddr
NodeOf(i) == heap[id2PtrMap[i]]

\* quadtree->query over the box Boundary::fromMeters(l, 30).
InRange(l) == {a \in tree : heap[a].loc \in Near[l]}

ValidPayload(p) ==
    /\ p.id # 0
    /\ p.total > 0 /\ 0 <= p.available /\ p.available <= p.total
    /\ p.loc \in OnEarth

NewCell(p, adjacency) ==
    [id |-> p.id, loc |-> p.loc, total |-> p.total, available |-> p.available,
     gateway |-> p.gateway, latency |-> p.latency, adjacency |-> adjacency]

\* updateNode, where it does not throw.
UpdateNode(c, used) == [c EXCEPT !.available = @ + used]

\* What is left of a node when its destructor has run.
Freed(c) == [c EXCEPT !.adjacency = {}]

-----------------------------------------------------------------------------
(* The search's arithmetic: distance + 2.5 * latency + 50 * load, times     *)
(* 2 * Scale so that it stays in the integers.                              *)

\* Scale times the share of a node's bandwidth that is in use.
Load(c) == (Scale \div c.total) * (c.total - c.available)

FirstCost(l, c) ==
    2 * Scale * Dist[l][c.loc] + 5 * Scale * c.latency + 100 * Load(c)

LinkCost(c, d) ==
    2 * Scale * Dist[c.loc][d.loc] + 5 * Scale * (c.latency + d.latency)
        + 50 * (Load(c) + Load(d))

\* Mutant: the bandwidth is not looked at.
UsableByLatency(c, r) == c.latency <= r.max_latency

\* The filter applied before a node is queued.
Usable(c, r) == c.available >= r.bandwidth /\ c.latency <= r.max_latency

Unvisited == [seen |-> FALSE, cost |-> 0, parent |-> 0]

-----------------------------------------------------------------------------
Init ==
    /\ heap = [a \in Addr |-> Blank]
    /\ id2PtrMap = [i \in Id |-> NoAddr]
    /\ tree = {} /\ built = FALSE
    /\ phase = "idle" /\ request = NoRequest
    /\ open = {} /\ visited = [i \in Id |-> Unvisited]
    /\ route = <<>> /\ cursor = NoParent
    /\ tokens = <<>>
    /\ linked = TRUE /\ tainted = FALSE

\* Every token that is out was issued for a mesh that is gone.
Outdate(t) == [t EXCEPT !.current = FALSE]
Outdated == [k \in DOMAIN tokens |-> Outdate(tokens[k])]

-----------------------------------------------------------------------------
(* RPCs on the mesh. *)

\* The ways to allocate the first n nodes of a batch in a heap that is free.
Placements == [n \in UNION {0 .. Len(b) : b \in Batch} |->
                  Injection(1 .. n, Addr)]

\* createQuadtree inserts entry by entry; the first invalid one aborts it.
Accepts(b, n) ==
    /\ \A k \in 1 .. n : ValidPayload(b[k])
    /\ n < Len(b) => ~ValidPayload(b[n + 1])

\* InitialReboot: the old mesh is dropped before the batch is read, and what
\* was inserted before an invalid entry stays.  Only a complete mesh gets its
\* adjacency lists.
InitialReboot(b) ==
    /\ phase = "idle"
    /\ \E n \in 0 .. Len(b) :
         /\ Accepts(b, n)
         /\ \E place \in Placements[n] :
              /\ heap' = [a \in Addr |->
                   IF \E k \in 1 .. n : place[k] = a
                   THEN LET k == CHOOSE k \in 1 .. n : place[k] = a
                        IN NewCell(b[k],
                             {place[j] : j \in {m \in 1 .. n :
                                  n = Len(b) /\ b[m].loc \in Near[b[k].loc]}})
                   ELSE Blank]
              /\ id2PtrMap' = [i \in Id |->
                   IF \E k \in 1 .. n : b[k].id = i
                   THEN place[CHOOSE k \in 1 .. n : b[k].id = i]
                   ELSE NoAddr]
              /\ tree' = {place[k] : k \in 1 .. n}
         /\ linked' = (n = Len(b))
    /\ built' = TRUE
    /\ tokens' = Outdated
    /\ tainted' = FALSE
    /\ UNCHANGED search

\* Mutant: createNode never queries, the list holds the node alone.
AddNodeUnlinked(p) ==
    /\ phase = "idle"
    /\ built /\ ValidPayload(p) /\ ~Registered(p.id)
    /\ \E a \in Addr \ Live :
         /\ heap' = [heap EXCEPT ![a] = NewCell(p, {a})]
         /\ id2PtrMap' = [id2PtrMap EXCEPT ![p.id] = a]
         /\ tree' = tree \cup {a}
    /\ UNCHANGED <<built, search, tokens, linked, tainted>>

\* createNode: the new node gets the nodes around it, itself included; their
\* own lists are not touched.
AddNode(p) ==
    /\ phase = "idle"
    /\ built /\ ValidPayload(p) /\ ~Registered(p.id)
    /\ \E a \in Addr \ Live :
         /\ heap' = [heap EXCEPT ![a] = NewCell(p, InRange(p.loc) \cup {a})]
         /\ id2PtrMap' = [id2PtrMap EXCEPT ![p.id] = a]
         /\ tree' = tree \cup {a}
    /\ UNCHANGED <<built, search, tokens, linked, tainted>>

\* Mutant: a node in use may be removed.
RemoveNodeInUse(i) ==
    /\ phase = "idle"
    /\ i > 0 /\ Registered(i)
    /\ heap' = [heap EXCEPT ![id2PtrMap[i]] = Freed(NodeOf(i))]
    /\ tree' = tree \ {id2PtrMap[i]}
    /\ id2PtrMap' = [id2PtrMap EXCEPT ![i] = NoAddr]
    /\ UNCHANGED <<built, search, tokens, linked, tainted>>

\* Mutant: the quadtree keeps the pointer.
RemoveNodeFromMap(i) ==
    /\ phase = "idle"
    /\ i > 0 /\ Registered(i)
    /\ NodeOf(i).available >= NodeOf(i).total
    /\ heap' = [heap EXCEPT ![id2PtrMap[i]] = Freed(NodeOf(i))]
    /\ id2PtrMap' = [id2PtrMap EXCEPT ![i] = NoAddr]
    /\ UNCHANGED <<tree, built, search, tokens, linked, tainted>>

\* removeNodeById: a node that nobody uses leaves the quadtree and the map,
\* which frees it.  Pointers to it in other nodes' lists stay.
RemoveNode(i) ==
    /\ phase = "idle"
    /\ i > 0 /\ Registered(i)
    /\ NodeOf(i).available >= NodeOf(i).total
    /\ heap' = [heap EXCEPT ![id2PtrMap[i]] = Freed(NodeOf(i))]
    /\ tree' = tree \ {id2PtrMap[i]}
    /\ id2PtrMap' = [id2PtrMap EXCEPT ![i] = NoAddr]
    /\ UNCHANGED <<built, search, tokens, linked, tainted>>

\* What removeUser makes of the heap: every node of the path that is still
\* registered gets the bandwidth back.
Credited(t) ==
    [a \in Addr |->
        IF \E i \in ToSet(t.path) : Registered(i) /\ id2PtrMap[i] = a
        THEN UpdateNode(heap[a], t.bandwidth)
        ELSE heap[a]]

Returned(t) == [t EXCEPT !.returned = TRUE]

\* RemoveUserMethod for the k-th token.  The cookie is cleared when the rest
\* of end_connection succeeds as well; otherwise the browser keeps it.
RemoveUser(k, cleared) ==
    LET t == tokens[k] IN
    /\ phase = "idle"
    /\ \A i \in ToSet(t.path) : Registered(i) =>
           NodeOf(i).available + t.bandwidth <= NodeOf(i).total + MaxSurplus
    /\ heap' = Credited(t)
    /\ tokens' = IF cleared THEN RemoveAt(tokens, k)
                            ELSE [tokens EXCEPT ![k] = Returned(t)]
    /\ tainted' = (tainted \/ t.returned \/ ~t.current)
    /\ UNCHANGED <<id2PtrMap, tree, built, search, linked>>

-----------------------------------------------------------------------------
(* GetShortestPath. *)

\* The handler returns: its locals are gone.
Return ==
    /\ phase' = "idle" /\ request' = NoRequest
    /\ open' = {} /\ visited' = [i \in Id |-> Unvisited]
    /\ route' = <<>> /\ cursor' = NoParent

\* The nodes within the user's reach that can carry the request.
Sources(r) == {a \in InRange(r.loc) : Usable(heap[a], r)}

StartSearch(r) ==
    /\ phase = "idle" /\ Len(tokens) < MaxTokens
    /\ built /\ r.bandwidth > 0 /\ r.max_latency >= 0 /\ r.loc \in OnEarth
    /\ phase' = "search" /\ request' = r
    /\ open' = {[id |-> heap[a].id, hop |-> 1,
                 cost |-> FirstCost(r.loc, heap[a])] : a \in Sources(r)}
    /\ visited' = [i \in Id |->
         IF Registered(i) /\ id2PtrMap[i] \in Sources(r)
         THEN [seen |-> TRUE, cost |-> FirstCost(r.loc, NodeOf(i)),
               parent |-> NoParent]
         ELSE Unvisited]
    /\ UNCHANGED <<mesh, route, cursor, tokens, linked, tainted>>

\* Mutants: the comparison of operator< the wrong way round; top() without
\* pop().
CostliestTops == {e \in open : \A f \in open : e.cost >= f.cost}
PoppedKept(e) == open

\* The entries the priority queue may pop, and the queue without one.
Tops == {e \in open : \A f \in open : e.cost <= f.cost}
Popped(e) == open \ {e}

SkipMissing ==
    /\ phase = "search"
    /\ \E e \in Tops : ~Registered(e.id) /\ open' = Popped(e)
    /\ UNCHANGED <<mesh, phase, request, visited, route, cursor,
                   tokens, linked, tainted>>

FoundGateway ==
    /\ phase = "search"
    /\ \E e \in Tops : /\ Registered(e.id) /\ NodeOf(e.id).gateway
                       /\ open' = Popped(e)
                       /\ cursor' = e.id
    /\ phase' = "reserve"
    /\ UNCHANGED <<mesh, request, visited, route, tokens, linked, tainted>>

HopLimitReached ==
    /\ phase = "search"
    /\ \E e \in Tops : /\ Registered(e.id) /\ ~NodeOf(e.id).gateway
                       /\ e.hop >= HopLimit
                       /\ open' = Popped(e)
    /\ UNCHANGED <<mesh, phase, request, visited, route, cursor,
                   tokens, linked, tainted>>

\* What expanding e through the pointer a would cost in total.
EndCost(e, a) == e.cost + LinkCost(NodeOf(e.id), heap[a])

\* Mutant: a node with exactly the bandwidth asked for is passed over.
ImprovingStrictly(e, read) ==
    {a \in read :
        /\ Usable(heap[a], request) /\ heap[a].available # request.bandwidth
        /\ ~(/\ visited[heap[a].id].seen
             /\ visited[heap[a].id].cost <= EndCost(e, a))}

\* The pointers among read that lead to a usable node more cheaply than known.
Improving(e, read) ==
    {a \in read :
        /\ Usable(heap[a], request)
        /\ ~(/\ visited[heap[a].id].seen
             /\ visited[heap[a].id].cost <= EndCost(e, a))}

\* The body of the main loop for an inner node.  A pointer to freed memory may
\* show the node that was there, or nothing that passes the filter.
Relax ==
    /\ phase = "search"
    /\ \E e \in Tops :
         LET list == NodeOf(e.id).adjacency IN
         /\ Registered(e.id) /\ ~NodeOf(e.id).gateway
         /\ e.hop < HopLimit
         /\ \E stale \in SUBSET (list \ Live) :
              LET better == Improving(e, (list \cap Live) \cup stale)
                  best == {a \in better : \A b \in better :
                             heap[b].id = heap[a].id =>
                                 EndCost(e, a) <= EndCost(e, b)}
                  to(i) == CHOOSE a \in best : heap[a].id = i
              IN /\ open' = Popped(e) \cup
                      {[id |-> heap[a].id, hop |-> e.hop + 1,
                        cost |-> EndCost(e, a)] : a \in better}
                 /\ visited' = [i \in Id |->
                      IF \E a \in best : heap[a].id = i
                      THEN [seen |-> TRUE, cost |-> EndCost(e, to(i)),
                            parent |-> e.id]
                      ELSE visited[i]]
         /\ tainted' = (tainted \/ ~(list \subseteq Live))
    /\ UNCHANGED <<mesh, phase, request, route, cursor, tokens, linked>>

\* The queue is empty: "User is far away from a mesh".
NoRoute ==
    /\ phase = "search" /\ open = {}
    /\ Return
    /\ UNCHANGED <<mesh, tokens, linked, tainted>>

\* Mutant: updateNode without its check.
CanDebitUnchecked(i) == Registered(i)

\* updateNode does not throw when the node is there and has the bandwidth.
CanDebit(i) == Registered(i) /\ NodeOf(i).available >= request.bandwidth
Debited(i) ==
    [heap EXCEPT ![id2PtrMap[i]] = UpdateNode(NodeOf(i), -request.bandwidth)]

\* Mutant: the path is never reversed.
ReserveNodeBackwards ==
    /\ phase = "reserve" /\ cursor # NoParent /\ CanDebit(cursor)
    /\ heap' = Debited(cursor)
    /\ route' = route \o <<cursor>>
    /\ cursor' = visited[cursor].parent
    /\ UNCHANGED <<id2PtrMap, tree, built, phase, request, open, visited,
                   tokens, linked, tainted>>

\* One step of the walk from the gateway back to the user.
ReserveNode ==
    /\ phase = "reserve" /\ cursor # NoParent /\ CanDebit(cursor)
    /\ heap' = Debited(cursor)
    /\ route' = <<cursor>> \o route
    /\ cursor' = visited[cursor].parent
    /\ UNCHANGED <<id2PtrMap, tree, built, phase, request, open, visited,
                   tokens, linked, tainted>>

\* The walk throws; what it debited so far stays debited.
ReserveFails ==
    /\ phase = "reserve" /\ cursor # NoParent /\ ~CanDebit(cursor)
    /\ Return
    /\ UNCHANGED <<mesh, tokens, linked, tainted>>

\* The walk has reached the user: the reply becomes a ConnectionToken.
GrantRoute ==
    /\ phase = "reserve" /\ cursor = NoParent
    /\ tokens' = Append(tokens, [bandwidth |-> request.bandwidth, path |-> route,
                                 current |-> TRUE, returned |-> FALSE])
    /\ Return
    /\ UNCHANGED <<mesh, linked, tainted>>

-----------------------------------------------------------------------------
\* The Engine process dies or is restarted; its memory is gone.
Restart ==
    /\ built
    /\ heap' = [a \in Addr |-> Blank]
    /\ id2PtrMap' = [i \in Id |-> NoAddr]
    /\ tree' = {} /\ built' = FALSE
    /\ Return
    /\ tokens' = Outdated
    /\ linked' = TRUE /\ tainted' = FALSE

SearchStep ==
    \/ SkipMissing \/ FoundGateway \/ HopLimitReached \/ Relax \/ NoRoute
    \/ ReserveNode \/ ReserveFails \/ GrantRoute

Next ==
    \/ \E b \in Batch : InitialReboot(b)
    \/ \E p \in Joining : AddNode(p)
    \/ \E i \in Id : RemoveNode(i)
    \/ \E k \in DOMAIN tokens, cleared \in BOOLEAN : RemoveUser(k, cleared)
    \/ \E r \in Request : StartSearch(r)
    \/ SearchStep
    \/ Restart

Spec == Init /\ [][Next]_vars

\* The thread that runs GetShortestPath holds the lock and blocks on nothing.
FairSpec == Spec /\ WF_vars(SearchStep)

-----------------------------------------------------------------------------
(* Correctness. *)

Token == [bandwidth : Nat \ {0}, path : Seq(Id), current : BOOLEAN,
          returned : BOOLEAN]

MeshTypeOK ==
    /\ heap \in [Addr -> Cell \cup {Blank}]
    /\ id2PtrMap \in [Id -> Addr \cup {NoAddr}]
    /\ tree \subseteq Addr
    /\ built \in BOOLEAN

SearchTypeOK ==
    /\ phase \in {"idle", "search", "reserve"}
    /\ request \in Request \cup {NoRequest}
    /\ phase # "idle" => request # NoRequest /\ request.bandwidth > 0
    /\ open \subseteq [id : Id, hop : 1 .. HopLimit, cost : Int]
    /\ visited \in [Id -> [seen : BOOLEAN, cost : Int, parent : Int]]
    /\ route \in Seq(Id)
    /\ cursor \in Int

TokenTypeOK ==
    /\ tokens \in Seq(Token)
    /\ linked \in BOOLEAN /\ tainted \in BOOLEAN

\* Every variable keeps its type.  In particular available_bandwidth never goes
\* below zero (updateNode) and nothing is queued beyond HopLimit hops.
TypeOK == MeshTypeOK /\ SearchTypeOK /\ TokenTypeOK

\* The quadtree points to the nodes the map owns, to all of them and to no
\* freed one, and the map files every node under its own id: what the raw
\* pointers handed to Quadtree::insert rely on through every add, removal,
\* rejected batch and restart.
IndexMatchesTree ==
    /\ tree = Live
    /\ \A i \in Id : Registered(i) => NodeOf(i) # Blank /\ NodeOf(i).id = i

\* Two nodes that are in each other's 30 m box are linked in one direction at
\* least, whatever was added, removed or put at a reused address since the
\* last complete InitialReboot: no pair of neighbours is lost altogether.
NeighboursLinked ==
    linked => \A a, b \in tree :
        (/\ heap[a].loc \in Near[heap[b].loc]
         /\ heap[b].loc \in Near[heap[a].loc])
        => a \in heap[b].adjacency \/ b \in heap[a].adjacency

\* The Engine still keeps what the token stands for.
Kept(t) == t.current /\ ~t.returned

\* The units of node i's bandwidth that the tokens ts stand for.
Units(ts, i) ==
    UNION {{k} \X (1 .. ts[k].bandwidth) :
              k \in {m \in DOMAIN ts : Kept(ts[m]) /\ i \in ToSet(ts[m].path)}}

\* The bandwidth of node i that users hold: in tokens not yet released, and
\* by the walk in progress.
Held(i) == Cardinality(Units(tokens, i))
           + IF i \in ToSet(route) THEN request.bandwidth ELSE 0

\* Bandwidth is conserved: as long as each token is released once, for the
\* mesh it was issued on, what is available and what is held add up to a
\* node's total, across searches, removals and additions in between.
BooksBalance ==
    ~tainted => \A i \in Id : Registered(i) =>
        NodeOf(i).available + Held(i) = NodeOf(i).total

\* Once the search has reached a gateway, the walk that debits the route finds
\* every node on it with the bandwidth it was filtered for: the request never
\* fails half way, so nothing is debited without a token.
ReservationSucceeds ==
    (phase = "reserve" /\ ~tainted /\ cursor # NoParent) => CanDebit(cursor)

\* A granted path visits no node twice, starts in the user's reach and ends in
\* a gateway; unless freed memory was read, each hop is a link of the node
\* before it.
GrantedPathIsARoute ==
    (phase = "reserve" /\ cursor = NoParent) =>
        /\ route # <<>> /\ IsInjective(route)
        /\ \A i \in ToSet(route) : Registered(i)
        /\ id2PtrMap[route[1]] \in InRange(request.loc)
        /\ NodeOf(Last(route)).gateway
        /\ ~tainted => \A k \in 1 .. Len(route) - 1 :
               id2PtrMap[route[k + 1]] \in NodeOf(route[k]).adjacency

(* Comparison with all routes there are. *)

\* Node i as it was before the walk in progress debited it.
Before(i) == IF i \in ToSet(route)
             THEN UpdateNode(NodeOf(i), request.bandwidth)
             ELSE NodeOf(i)

IsRoute(q) ==
    /\ id2PtrMap[q[1]] \in InRange(request.loc)
    /\ \A k \in DOMAIN q : Usable(Before(q[k]), request)
    /\ \A k \in 1 .. Len(q) - 1 :
           id2PtrMap[q[k + 1]] \in NodeOf(q[k]).adjacency
    /\ NodeOf(q[Len(q)]).gateway

Routes ==
    LET known == {i \in Id : Registered(i)}
    IN {q \in UNION {Injection(1 .. n, known) : n \in 1 .. Cardinality(known)} :
           IsRoute(q)}

\* The sum of a sequence of integers.
Sum(s) == LET upTo[k \in 0 .. Len(s)] == IF k = 0 THEN 0 ELSE upTo[k - 1] + s[k]
          IN upTo[Len(s)]

\* What the search adds up along q.
RouteCost(q) ==
    Sum([k \in 1 .. Len(q) |->
            IF k = 1 THEN FirstCost(request.loc, Before(q[1]))
                     ELSE LinkCost(Before(q[k - 1]), Before(q[k]))])

\* HopLimit - 1 nodes beside its gateway have been reached over other nodes and
\* at no higher cost than q's: the way along q may have been cut off.
Hidden(q) ==
    Cardinality({i \in Id \ {q[Len(q)]} :
                    /\ visited[i].seen /\ visited[i].parent # NoParent
                    /\ visited[i].cost <= RouteCost(q)}) >= HopLimit - 1

\* The granted path costs no more than any other route over the adjacency lists
\* that HopLimit - 1 nearer nodes do not hide, although the code keeps no
\* closed set, reuses the visited entries while it runs, and prunes a dearer
\* way with fewer hops for a cheaper one with more.
GrantedPathIsCheapest ==
    (phase = "reserve" /\ cursor = NoParent /\ ~tainted) =>
        \A q \in Routes : RouteCost(route) <= RouteCost(q) \/ Hidden(q)

\* A user is refused only when the adjacency lists hold no route with enough
\* bandwidth and low enough latency, but for those that are hidden.
RefusalIsJustified ==
    (phase = "search" /\ open = {} /\ ~tainted) => \A q \in Routes : Hidden(q)

\* Every search ends and gives the lock back, also when repeated releases have
\* made link costs negative and the parent entries form a cycle.
SearchEnds == (phase # "idle") ~> (phase = "idle")

(* What the repository says and the code does not keep. *)

\* wifi_node.cpp and service_class.cpp: the lists of a node's neighbours are
\* updated when it leaves, and no pointer outlives its node.
NoDanglingLinks == \A a \in tree : heap[a].adjacency \subseteq tree

\* engine.md: RemoveUserMethod releases the reservation that GetShortestPath
\* made, so that a node never has more available than it has.
ReleaseWithinTotal ==
    \A i \in Id : Registered(i) => NodeOf(i).available <= NodeOf(i).total

\* engine.md: path expansion is limited to 20 hops.  So no granted path is
\* longer, whatever entries of a node were queued, improved and popped before.
RouteWithinHopLimit ==
    (phase = "reserve" /\ cursor = NoParent /\ ~tainted) => Len(route) <= HopLimit

=============================================================================
