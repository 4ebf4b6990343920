-------------------------- MODULE MeshSearchProofs --------------------------
(***************************************************************************)
(* Proofs about GetShortestPath, from the first queued node to the walk    *)
(* that debits the route: what the visited entries mean while the search   *)
(* runs, although an entry is overwritten as soon as a cheaper way is met, *)
(* and what the queue still guarantees to find.                            *)
(***************************************************************************)
EXTENDS MeshEngineProofs, MeshRefinement, FiniteSetTheorems

-----------------------------------------------------------------------------
(* Numbers, minima and sums. *)

\* What holds of 1, and of k + 1 when of k, holds up to n.
LEMMA Steps ==
    ASSUME NEW n \in Nat, NEW S, 1 \in S,
           \A k \in 1 .. n : k \in S /\ k < n => k + 1 \in S
    PROVE  1 .. n \subseteq S
<1> DEFINE T == (1 .. n) \ S
<1>1. SUFFICES ASSUME T # {} PROVE FALSE
  OBVIOUS
<1>2. T \subseteq Nat
  OBVIOUS
<1> HIDE DEF T
<1>3. PICK x \in T : \A y \in T : ~(<<y, x>> \in OpToRel(<, Nat))
  BY <1>1, <1>2, NatLessThanWellFounded, WFMin
<1>4. x \in 1 .. n /\ x \notin S /\ x # 1
  BY <1>3 DEF T
<1>5. x - 1 \in 1 .. n /\ x - 1 < x /\ x - 1 < n /\ (x - 1) + 1 = x
  BY <1>4
<1>6. x - 1 \notin T
  BY <1>2, <1>3, <1>5 DEF OpToRel
<1> QED BY <1>4, <1>5, <1>6 DEF T

\* Finitely many integers have a least one.
LEMMA Cheapest ==
    ASSUME NEW S, IsFiniteSet(S), S # {}, NEW f \in [S -> Int]
    PROVE  \E x \in S : \A y \in S : f[x] <= f[y]
<1> DEFINE below(a) == {b \in S : f[b] <= f[a]}
           T == {below(a) : a \in S}
<1>1. T # {} /\ T \subseteq SUBSET S
  <2>1. PICK a \in S : TRUE
    OBVIOUS
  <2>2. below(a) \in T
    OBVIOUS
  <2>3. T \subseteq SUBSET S
    OBVIOUS
  <2> QED BY <2>2, <2>3
<1>2. T \subseteq FiniteSubsetsOf(S)
  BY <1>1, FS_FiniteSubsetsOfFinite
<1> HIDE DEF T
<1>3. PICK m \in T : \A y \in T : ~(<<y, m>> \in StrictSubsetOrdering(S))
  BY <1>1, <1>2, FS_StrictSubsetOrderingWellFounded, WFMin
<1>4. PICK x \in S : m = below(x)
  BY <1>3 DEF T
<1>5. ASSUME NEW y \in S, ~(f[x] <= f[y]) PROVE FALSE
  <2>1. f[x] \in Int /\ f[y] \in Int /\ f[y] < f[x]
    BY <1>5
  <2>2. \A b \in S : f[b] \in Int
    OBVIOUS
  <2>3. below(y) \subseteq below(x)
    BY <2>1, <2>2
  <2>4. x \in below(x) /\ x \notin below(y)
    BY <2>1
  <2>5. below(y) \in T /\ below(y) \in SUBSET S /\ below(x) \in SUBSET S
    BY DEF T
  <2> QED BY <1>3, <1>4, <2>3, <2>4, <2>5 DEF StrictSubsetOrdering
<1> QED BY <1>5

\* The product of two loads or lengths is not negative.
LEMMA Products ==
    ASSUME NEW a \in Nat, NEW b \in Nat
    PROVE  a * b \in Nat
OBVIOUS

\* Nor is a quotient of them.
LEMMA Quotients ==
    ASSUME NEW a \in Nat, NEW b \in Nat \ {0}
    PROVE  a \div b \in Nat
<1> DEFINE q == a \div b
<1>1. q \in Int /\ a = b * q + (a % b) /\ a % b < b /\ b >= 1
  OBVIOUS
<1>2. ASSUME q < 0 PROVE FALSE
  <2> HIDE DEF q
  <2>1. -1 - q \in Nat /\ b \in Nat
    BY <1>1, <1>2
  <2>2. b * (-1 - q) \in Nat
    BY <2>1, Products
  <2>3. b * (-1 - q) = -b - b * q
    BY <1>1
  <2> QED BY <1>1, <2>2, <2>3
<1> QED BY <1>1, <1>2

\* What Sum computes: the last of its partial sums.
LEMMA PartialSums ==
    ASSUME NEW s \in Seq(Int)
    PROVE  \E t \in [0 .. Len(s) -> Int] :
              /\ t[0] = 0
              /\ \A k \in 1 .. Len(s) : t[k] = t[k - 1] + s[k]
              /\ Sum(s) = t[Len(s)]
<1> DEFINE n == Len(s)
           Adds(t, m) == t = [k \in 0 .. m |-> IF k = 0 THEN 0 ELSE t[k - 1] + s[k]]
           upTo == CHOOSE t : Adds(t, n)
           Summed == {m \in Nat : \E t \in [0 .. m -> Int] : Adds(t, m)}
<1>1. n \in Nat /\ \A k \in 1 .. n : s[k] \in Int
  OBVIOUS
<1>2. 0 \in Summed
  <2>1. [k \in 0 .. 0 |-> 0] \in [0 .. 0 -> Int] /\ Adds([k \in 0 .. 0 |-> 0], 0)
    OBVIOUS
  <2> QED BY <2>1
<1> HIDE DEF n
<1>3. ASSUME NEW m \in Nat, m < n, m \in Summed PROVE m + 1 \in Summed
  <2>1. PICK t \in [0 .. m -> Int] : Adds(t, m)
    BY <1>3
  <2> DEFINE u == [k \in 0 .. m + 1 |-> IF k = m + 1 THEN t[m] + s[m + 1] ELSE t[k]]
  <2>2. m + 1 \in 1 .. n /\ s[m + 1] \in Int /\ t[m] \in Int
    BY <1>1, <1>3
  <2>3. u \in [0 .. m + 1 -> Int]
    BY <2>2
  <2>4. ASSUME NEW k \in 0 .. m + 1
        PROVE  u[k] = IF k = 0 THEN 0 ELSE u[k - 1] + s[k]
    <3>1. CASE k = m + 1
      BY <3>1, <2>2
    <3>2. CASE k # m + 1
      <4>1. k \in 0 .. m /\ u[k] = t[k] /\ (k # 0 => k - 1 \in 0 .. m + 1 /\ k - 1 # m + 1)
        BY <3>2
      <4>2. t[k] = IF k = 0 THEN 0 ELSE t[k - 1] + s[k]
        BY <2>1, <4>1
      <4>3. k # 0 => u[k - 1] = t[k - 1]
        BY <4>1
      <4> QED BY <4>1, <4>2, <4>3
    <3> QED BY <3>1, <3>2
  <2>5. Adds(u, m + 1)
    <3> HIDE DEF u
    <3>1. u = [k \in 0 .. m + 1 |-> u[k]]
      BY <2>3
    <3> QED BY <3>1, <2>4
  <2>6. m + 1 \in Nat
    OBVIOUS
  <2> QED BY <2>3, <2>5, <2>6
<1> HIDE DEF Summed
<1>4. n \in Summed
  <2> DEFINE S == {k \in Nat : k - 1 \in Summed}
  <2>1. 1 \in S
    BY <1>2
  <2>2. \A k \in 1 .. n + 1 : k \in S /\ k < n + 1 => k + 1 \in S
    <3>1. SUFFICES ASSUME NEW k \in 1 .. n + 1, k - 1 \in Summed, k < n + 1
                   PROVE  k \in Summed
      BY <1>1
    <3>2. k - 1 \in Nat /\ k - 1 < n /\ (k - 1) + 1 = k
      BY <1>1, <3>1
    <3> QED BY <1>3, <3>1, <3>2
  <2>3. n + 1 \in Nat /\ n + 1 \in 1 .. n + 1 /\ (n + 1) - 1 = n
    BY <1>1
  <2> HIDE DEF S
  <2>4. 1 .. n + 1 \subseteq S
    BY <2>1, <2>2, <2>3, Steps
  <2>5. n + 1 \in S
    BY <2>3, <2>4
  <2> QED BY <2>3, <2>5 DEF S
<1>5. PICK t \in [0 .. n -> Int] : Adds(t, n)
  BY <1>4 DEF Summed
<1>6. Adds(upTo, n)
  BY <1>5
<1>7. Sum(s) = upTo[n]
  BY DEF Sum, n
<1> HIDE DEF upTo
<1>8. upTo[0] = 0 /\ \A k \in 1 .. n : upTo[k] = upTo[k - 1] + s[k]
  BY <1>1, <1>6
<1>9. upTo \in [0 .. n -> Int]
  <2> DEFINE S == {k \in Nat : upTo[k - 1] \in Int}
  <2>1. 1 \in S
    BY <1>8
  <2>2. \A k \in 1 .. n + 1 : k \in S /\ k < n + 1 => k + 1 \in S
    <3>1. SUFFICES ASSUME NEW k \in 1 .. n + 1, upTo[k - 1] \in Int, k < n + 1
                   PROVE  upTo[k] \in Int
      BY <1>1
    <3>2. k \in 1 .. n
      BY <1>1, <3>1
    <3>3. s[k] \in Int /\ upTo[k] = upTo[k - 1] + s[k]
      BY <1>1, <1>8, <3>2
    <3> QED BY <3>1, <3>3
  <2>3. n + 1 \in Nat
    BY <1>1
  <2> HIDE DEF S
  <2>4. 1 .. n + 1 \subseteq S
    BY <2>1, <2>2, <2>3, Steps
  <2>5. \A k \in 0 .. n : upTo[k] \in Int
    <3>1. TAKE k \in 0 .. n
    <3>2. k + 1 \in 1 .. n + 1 /\ (k + 1) - 1 = k
      BY <1>1
    <3> QED BY <2>4, <3>2 DEF S
  <2>6. upTo = [k \in 0 .. n |-> upTo[k]]
    BY <1>6
  <2> QED BY <2>5, <2>6
<1> QED BY <1>7, <1>8, <1>9 DEF n

-----------------------------------------------------------------------------
(* Costs. *)

\* A node as the Orchestrator registers it, with no more available than it has.
Sane(c) == c.available <= c.total /\ c.latency >= 0

\* What calculateCost adds for a hop between two such nodes is not negative.
LEMMA HopsCost ==
    ASSUME NEW c \in Cell, NEW d \in Cell, Sane(c), Sane(d)
    PROVE  LinkCost(c, d) >= 0
<1>1. \A x \in Cell : Sane(x) => Load(x) \in Nat
  <2>1. SUFFICES ASSUME NEW x \in Cell, Sane(x) PROVE Load(x) \in Nat
    OBVIOUS
  <2>2. x.total \in Nat \ {0} /\ x.available \in Nat
    BY DEF Cell
  <2>3. x.total - x.available \in Nat
    BY <2>1, <2>2 DEF Sane
  <2>4. Scale \div x.total \in Nat
    BY <2>2, ConstantAssumption, Quotients
  <2> QED BY <2>3, <2>4, Products DEF Load
<1>2. c.loc \in Loc /\ d.loc \in Loc /\ c.latency \in Int /\ d.latency \in Int
  BY DEF Cell
<1>3. Dist[c.loc][d.loc] \in Nat /\ c.latency + d.latency \in Nat /\ Scale \in Nat
  BY <1>2, ConstantAssumption DEF Sane
<1>4. 2 * Scale \in Nat /\ 5 * Scale \in Nat
  BY <1>3
<1>5. /\ 2 * Scale * Dist[c.loc][d.loc] \in Nat
      /\ 5 * Scale * (c.latency + d.latency) \in Nat
  BY <1>3, <1>4, Products
<1>6. Load(c) \in Nat /\ Load(d) \in Nat
  BY <1>1
<1> QED BY <1>5, <1>6 DEF LinkCost

-----------------------------------------------------------------------------
(* One expansion. *)

\* What the pointers of a registered node lead to.
LEMMA NeighboursAreCells ==
    ASSUME MeshInv, NEW i, Registered(i)
    PROVE  /\ i \in Id /\ NodeOf(i) \in Cell /\ NodeOf(i).id = i
           /\ \A a \in NodeOf(i).adjacency :
                 a \in Addr /\ heap[a] \in Cell /\ heap[a].id \in Id
<1>1. i \in Id /\ NodeOf(i) \in Cell /\ NodeOf(i).id = i
  BY LiveCells DEF Registered, MeshInv, IndexMatchesTree
<1>2. id2PtrMap[i] \in Addr /\ NodeOf(i) # Blank
  BY <1>1, BlankAssumption DEF MeshInv, TypeOK, MeshTypeOK, Registered
<1>3. ASSUME NEW a \in NodeOf(i).adjacency
      PROVE  a \in Addr /\ heap[a] \in Cell /\ heap[a].id \in Id
  <2>1. a \in Addr
    BY <1>1 DEF Cell
  <2>2. heap[a] # Blank
    BY <1>2 DEF NodeOf, MeshInv, LinksPointToNodes
  <2>3. heap[a] \in Cell
    BY <2>1, <2>2 DEF MeshInv, TypeOK, MeshTypeOK
  <2> QED BY <2>1, <2>3 DEF Cell
<1> QED BY <1>1, <1>3

\* A pointer to a node that is there is the one the map has for it.
LEMMA LiveAddress ==
    ASSUME MeshInv, NEW a \in Live
    PROVE  /\ heap[a].id \in Id /\ Registered(heap[a].id)
           /\ id2PtrMap[heap[a].id] = a /\ NodeOf(heap[a].id) = heap[a]
<1>1. PICK i \in Id : id2PtrMap[i] = a /\ Registered(i)
  BY DEF Live, Registered
<1>2. NodeOf(i).id = i
  BY <1>1 DEF MeshInv, IndexMatchesTree
<1> QED BY <1>1, <1>2 DEF NodeOf

\* Costs and hops of the entries of the queue, and costs of the ways on.
LEMMA EntriesTyped ==
    ASSUME MeshInv, NEW e \in open
    PROVE  /\ e.id \in Id /\ e.hop \in 1 .. HopLimit /\ e.cost \in Int
           /\ Registered(e.id) =>
                \A a \in NodeOf(e.id).adjacency :
                   /\ EndCost(e, a) \in Int
                   /\ LinkCost(NodeOf(e.id), heap[a]) \in Int
<1>1. e \in [id : Id, hop : 1 .. HopLimit, cost : Int]
  BY DEF MeshInv, TypeOK, SearchTypeOK
<1>2. e.id \in Id /\ e.hop \in 1 .. HopLimit /\ e.cost \in Int
  BY <1>1
<1>3. ASSUME Registered(e.id), NEW a \in NodeOf(e.id).adjacency
      PROVE  EndCost(e, a) \in Int /\ LinkCost(NodeOf(e.id), heap[a]) \in Int
  <2>1. NodeOf(e.id) \in Cell /\ heap[a] \in Cell
    BY <1>3, NeighboursAreCells
  <2>2. NodeOf(e.id).loc \in Loc
    BY <2>1 DEF Cell
  <2>3. LinkCost(NodeOf(e.id), heap[a]) \in Int
    BY <2>1, <2>2, CostsAreInts
  <2> QED BY <1>2, <2>3 DEF EndCost
<1> QED BY <1>2, <1>3

\* Relax, entry by entry: a node is given the cheapest of the ways to it that
\* improve on what was known, and keeps what it had when there is none.
Expands(e, read) ==
    /\ Registered(e.id) /\ ~NodeOf(e.id).gateway /\ e.hop < HopLimit
    /\ NodeOf(e.id).adjacency \cap Live \subseteq read
    /\ tainted' = (tainted \/ ~(NodeOf(e.id).adjacency \subseteq Live))
    /\ open' = Popped(e) \cup
          {[id |-> heap[a].id, hop |-> e.hop + 1,
            cost |-> EndCost(e, a)] : a \in Improving(e, read)}
    /\ \A i \in Id :
          \/ /\ visited'[i] = visited[i]
             /\ \A a \in Improving(e, read) : heap[a].id # i
          \/ \E a \in Improving(e, read) :
                /\ heap[a].id = i
                /\ visited'[i].seen /\ visited'[i].parent = e.id
                /\ visited'[i].cost = EndCost(e, a)
                /\ \A b \in Improving(e, read) :
                      heap[b].id = i => EndCost(e, a) <= EndCost(e, b)

LEMMA RelaxExpands ==
    ASSUME MeshInv, Relax
    PROVE  \E e \in Tops : \E read \in SUBSET NodeOf(e.id).adjacency : Expands(e, read)
<1>1. PICK e \in Tops :
        LET list == NodeOf(e.id).adjacency IN
        /\ Registered(e.id) /\ ~NodeOf(e.id).gateway
        /\ e.hop < HopLimit
        /\ \E stale \in SUBSET (list \ Live) :
             LET better == Improving(e, (list \cap Live) \cup stale)
                 best == {a \in better : \A b \in better :
                            heap[b].id = heap[a].id =>
                                EndCost(e, a) <= EndCost(e, b)}
                 to(i) == CHOOSE a \in best : heap[a].id = i
             IN /\ open' = Popped(e) \cup
                     {[id |-> heap[a].id, hop |-> e.hop + 1,
                       cost |-> EndCost(e, a)] : a \in better}
                /\ visited' = [i \in Id |->
                     IF \E a \in best : heap[a].id = i
                     THEN [seen |-> TRUE, cost |-> EndCost(e, to(i)),
                           parent |-> e.id]
                     ELSE visited[i]]
        /\ tainted' = (tainted \/ ~(list \subseteq Live))
  BY DEF Relax
<1> DEFINE list == NodeOf(e.id).adjacency
<1>2. PICK stale \in SUBSET (list \ Live) :
        LET better == Improving(e, (list \cap Live) \cup stale)
            best == {a \in better : \A b \in better :
                       heap[b].id = heap[a].id =>
                           EndCost(e, a) <= EndCost(e, b)}
            to(i) == CHOOSE a \in best : heap[a].id = i
        IN /\ open' = Popped(e) \cup
                {[id |-> heap[a].id, hop |-> e.hop + 1,
                  cost |-> EndCost(e, a)] : a \in better}
           /\ visited' = [i \in Id |->
                IF \E a \in best : heap[a].id = i
                THEN [seen |-> TRUE, cost |-> EndCost(e, to(i)),
                      parent |-> e.id]
                ELSE visited[i]]
  BY <1>1
<1> DEFINE read == (list \cap Live) \cup stale
           better == Improving(e, read)
           best == {a \in better : \A b \in better :
                      heap[b].id = heap[a].id => EndCost(e, a) <= EndCost(e, b)}
           to(i) == CHOOSE a \in best : heap[a].id = i
<1>3. /\ open' = Popped(e) \cup
           {[id |-> heap[a].id, hop |-> e.hop + 1,
             cost |-> EndCost(e, a)] : a \in better}
      /\ visited' = [i \in Id |->
           IF \E a \in best : heap[a].id = i
           THEN [seen |-> TRUE, cost |-> EndCost(e, to(i)), parent |-> e.id]
           ELSE visited[i]]
  BY <1>2
<1>4. read \in SUBSET list /\ list \cap Live \subseteq read /\ better \subseteq list
  BY DEF Improving
<1>5. IsFiniteSet(better) /\ \A a \in better : EndCost(e, a) \in Int
  <2>1. list \in SUBSET Addr /\ \A a \in list : EndCost(e, a) \in Int
    BY <1>1, NeighboursAreCells, EntriesTyped DEF Tops
  <2>2. better \in SUBSET Addr
    BY <1>4, <2>1
  <2> HIDE DEF list, better
  <2> QED BY <1>4, <2>1, <2>2, ConstantAssumption, FS_Subset
<1> HIDE DEF better, read
<1>6. ASSUME NEW i \in Id
      PROVE  \/ visited'[i] = visited[i] /\ \A a \in better : heap[a].id # i
             \/ \E a \in better :
                   /\ heap[a].id = i
                   /\ visited'[i].seen /\ visited'[i].parent = e.id
                   /\ visited'[i].cost = EndCost(e, a)
                   /\ \A b \in better :
                         heap[b].id = i => EndCost(e, a) <= EndCost(e, b)
  <2>1. CASE \A a \in better : heap[a].id # i
    BY <1>3, <2>1
  <2>2. CASE \E a \in better : heap[a].id = i
    <3> DEFINE ways == {a \in better : heap[a].id = i}
               costs == [a \in ways |-> EndCost(e, a)]
    <3>1. ways \in SUBSET better /\ ways # {}
      BY <2>2
    <3>2. IsFiniteSet(ways)
      BY <1>5, <3>1, FS_Subset
    <3>3. costs \in [ways -> Int]
      BY <1>5
    <3> HIDE DEF costs, ways
    <3>4. PICK a \in ways : \A b \in ways : costs[a] <= costs[b]
      BY <3>1, <3>2, <3>3, Cheapest
    <3>5. a \in best /\ heap[a].id = i
      BY <3>4 DEF costs, ways
    <3>6. to(i) \in best /\ heap[to(i)].id = i
      BY <3>5
    <3>7. /\ visited'[i].seen /\ visited'[i].parent = e.id
          /\ visited'[i].cost = EndCost(e, to(i))
      <4>1. visited'[i] = [seen |-> TRUE, cost |-> EndCost(e, to(i)),
                           parent |-> e.id]
        BY <1>3, <3>5
      <4> HIDE DEF to
      <4> QED BY <4>1
    <3> HIDE DEF to
    <3>8. to(i) \in better /\ \A b \in better :
             heap[b].id = i => EndCost(e, to(i)) <= EndCost(e, b)
      BY <3>6
    <3> QED BY <3>6, <3>7, <3>8
  <2> QED BY <2>1, <2>2
<1>7. Expands(e, read)
  BY <1>1, <1>3, <1>4, <1>6 DEF Expands, better
<1> QED BY <1>4, <1>7

-----------------------------------------------------------------------------
(* One debit. *)

\* A debit or a credit changes what is available and nothing else.
LEMMA UpdatedFields ==
    ASSUME NEW c \in Cell, NEW used \in Int
    PROVE  /\ UpdateNode(c, used).available = c.available + used
           /\ UpdateNode(c, used).id = c.id
           /\ UpdateNode(c, used).loc = c.loc
           /\ UpdateNode(c, used).total = c.total
           /\ UpdateNode(c, used).gateway = c.gateway
           /\ UpdateNode(c, used).latency = c.latency
           /\ UpdateNode(c, used).adjacency = c.adjacency
           /\ UpdateNode(UpdateNode(c, -used), used) = c
<1>1. \A u \in Int :
        /\ UpdateNode(c, u).available = c.available + u
        /\ UpdateNode(c, u).id = c.id
        /\ UpdateNode(c, u).loc = c.loc
        /\ UpdateNode(c, u).total = c.total
        /\ UpdateNode(c, u).gateway = c.gateway
        /\ UpdateNode(c, u).latency = c.latency
        /\ UpdateNode(c, u).adjacency = c.adjacency
  BY DEF Cell, UpdateNode
<1>2. UpdateNode(UpdateNode(c, -used), used) = c
  <2>1. UpdateNode(c, -used).available + used = c.available
    <3>1. c.available \in Int /\ -used \in Int
      BY DEF Cell
    <3> QED BY <1>1, <3>1
  <2>2. UpdateNode(UpdateNode(c, -used), used)
          = [UpdateNode(c, -used) EXCEPT !.available = c.available]
    BY <2>1 DEF UpdateNode
  <2>3. [UpdateNode(c, -used) EXCEPT !.available = c.available] = c
    BY DEF UpdateNode, Cell
  <2> QED BY <2>2, <2>3
<1> QED BY <1>1, <1>2

\* A node put in front of a path.
LEMMA Pushed ==
    ASSUME NEW S, NEW x \in S, NEW q \in Seq(S)
    PROVE  LET p == <<x>> \o q IN
           /\ p \in Seq(S) /\ p # <<>> /\ Len(p) = Len(q) + 1
           /\ p[1] = x /\ \A k \in 1 .. Len(q) : p[k + 1] = q[k]
           /\ \A k \in 2 .. Len(p) : k - 1 \in 1 .. Len(q) /\ p[k] = q[k - 1]
           /\ Last(p) = IF q = <<>> THEN x ELSE Last(q)
           /\ ToSet(p) = {x} \cup ToSet(q)
<1> DEFINE p == <<x>> \o q
<1>1. /\ p \in Seq(S) /\ p # <<>> /\ Len(p) = Len(q) + 1 /\ Len(q) \in Nat
      /\ p[1] = x /\ \A k \in 1 .. Len(q) : p[k + 1] = q[k]
      /\ DOMAIN p = 1 .. Len(p) /\ DOMAIN q = 1 .. Len(q)
  OBVIOUS
<1> HIDE DEF p
<1>2. \A k \in 2 .. Len(p) : k - 1 \in 1 .. Len(q) /\ p[k] = q[k - 1]
  <2>1. TAKE k \in 2 .. Len(p)
  <2>2. k - 1 \in 1 .. Len(q) /\ (k - 1) + 1 = k
    BY <1>1
  <2> QED BY <1>1, <2>2
<1>3. Last(p) = IF q = <<>> THEN x ELSE Last(q)
  <2>1. CASE q = <<>>
    BY <1>1, <2>1 DEF Last
  <2>2. CASE q # <<>>
    <3>1. Len(q) \in 1 .. Len(q)
      BY <1>1, <2>2
    <3> QED BY <1>1, <2>2, <3>1 DEF Last
  <2> QED BY <2>1, <2>2
<1>4. ToSet(p) = {x} \cup ToSet(q)
  <2>1. \A y \in ToSet(p) : y = x \/ y \in ToSet(q)
    <3>1. TAKE y \in ToSet(p)
    <3>2. PICK k \in 1 .. Len(p) : y = p[k]
      BY <1>1 DEF ToSet
    <3>3. CASE k = 1
      BY <1>1, <3>2, <3>3
    <3>4. CASE k # 1
      <4>1. k \in 2 .. Len(p)
        BY <1>1, <3>4
      <4> QED BY <1>1, <1>2, <3>2, <4>1 DEF ToSet
    <3> QED BY <3>3, <3>4
  <2>2. x \in ToSet(p)
    <3>1. 1 \in 1 .. Len(p)
      BY <1>1
    <3> QED BY <1>1, <3>1 DEF ToSet
  <2>3. \A y \in ToSet(q) : y \in ToSet(p)
    <3>1. \A k \in 1 .. Len(q) : k + 1 \in 1 .. Len(p)
      BY <1>1
    <3> QED BY <1>1, <3>1 DEF ToSet
  <2> QED BY <2>1, <2>2, <2>3
<1> QED BY <1>1, <1>2, <1>3, <1>4 DEF p

\* What ReserveNode makes of the nodes: only the one it debits changes.
LEMMA Debits ==
    ASSUME MeshInv, ReserveNode
    PROVE  /\ request.bandwidth \in Nat \ {0}
           /\ cursor \in Id /\ Registered(cursor)
           /\ NodeOf(cursor).available >= request.bandwidth
           /\ \A i : Registered(i)' <=> Registered(i)
           /\ \A i : Registered(i) =>
                 NodeOf(i)' = IF i = cursor
                              THEN UpdateNode(NodeOf(i), -request.bandwidth)
                              ELSE NodeOf(i)
           /\ \A i : Registered(i) =>
                 /\ NodeOf(i) \in Cell /\ NodeOf(i)' \in Cell
                 /\ NodeOf(i)'.loc = NodeOf(i).loc
                 /\ NodeOf(i)'.total = NodeOf(i).total
                 /\ NodeOf(i)'.gateway = NodeOf(i).gateway
                 /\ NodeOf(i)'.adjacency = NodeOf(i).adjacency
           /\ \A l \in Loc : InRange(l)' = InRange(l)
           /\ route' \in Seq(Id)
<1>1. Registered(cursor) /\ NodeOf(cursor).available >= request.bandwidth
  BY DEF ReserveNode, CanDebit
<1>2. request.bandwidth \in Nat \ {0}
  BY ConstantAssumption DEF ReserveNode, MeshInv, TypeOK, SearchTypeOK
<1> DEFINE b == -request.bandwidth
           a == id2PtrMap[cursor]
<1>3. b \in Int
  BY <1>2
<1>4. heap \in [Addr -> Cell \cup {Blank}] /\ a \in Addr /\ cursor \in Id
  BY <1>1 DEF MeshInv, TypeOK, MeshTypeOK, Registered
<1>5. heap' = [heap EXCEPT ![a] = UpdateNode(heap[a], b)] /\ id2PtrMap' = id2PtrMap
  BY DEF ReserveNode, Debited, NodeOf
<1>6. \A i : Registered(i) =>
         /\ i \in Id /\ id2PtrMap[i] \in Addr /\ heap[id2PtrMap[i]] \in Cell
         /\ id2PtrMap[i] = a => i = cursor
  <2>1. SUFFICES ASSUME NEW i, Registered(i)
                 PROVE  /\ i \in Id /\ id2PtrMap[i] \in Addr
                        /\ heap[id2PtrMap[i]] \in Cell
                        /\ id2PtrMap[i] = a => i = cursor
    OBVIOUS
  <2>2. i \in Id /\ id2PtrMap[i] \in Addr
    BY <2>1 DEF Registered, MeshInv, TypeOK, MeshTypeOK
  <2>3. heap[id2PtrMap[i]] \in Cell
    BY <2>1, NeighboursAreCells DEF NodeOf
  <2> QED BY <1>4, <2>1, <2>2, <2>3, OwnedOnce DEF MeshInv
<1> HIDE DEF a, b
<1>7. \A i : Registered(i)' <=> Registered(i)
  BY <1>5 DEF Registered
<1>8. \A i : Registered(i) =>
         heap'[id2PtrMap'[i]] = IF i = cursor THEN UpdateNode(NodeOf(i), b)
                                ELSE NodeOf(i)
  BY <1>4, <1>5, <1>6 DEF NodeOf, a
<1>9. \A x \in Addr : heap[x] \in Cell =>
         /\ heap'[x].loc = heap[x].loc
         /\ heap'[x].total = heap[x].total
         /\ heap'[x].gateway = heap[x].gateway
         /\ heap'[x].adjacency = heap[x].adjacency
  BY <1>3, <1>4, <1>5, UpdatedFields
<1>10. UpdateNode(heap[a], b) \in Cell
  <2>1. heap[a] \in Cell
    BY <1>1, <1>6 DEF a
  <2>2. heap[a].available \in Nat
    BY <2>1 DEF Cell
  <2>3. heap[a].available + b >= 0
    BY <1>1, <1>2, <2>2 DEF NodeOf, a, b
  <2> QED BY <1>3, <2>1, <2>3, UpdatedCells
<1>11. \A i : Registered(i) =>
          /\ NodeOf(i) \in Cell /\ heap'[id2PtrMap'[i]] \in Cell
          /\ heap'[id2PtrMap'[i]].loc = NodeOf(i).loc
          /\ heap'[id2PtrMap'[i]].total = NodeOf(i).total
          /\ heap'[id2PtrMap'[i]].gateway = NodeOf(i).gateway
          /\ heap'[id2PtrMap'[i]].adjacency = NodeOf(i).adjacency
  BY <1>4, <1>5, <1>6, <1>9, <1>10 DEF NodeOf
<1>12. \A l \in Loc : InRange(l)' = InRange(l)
  <2>1. tree' = tree /\ \A x \in tree : x \in Addr /\ heap[x] \in Cell
    BY LiveCells DEF ReserveNode, MeshInv, TypeOK, MeshTypeOK
  <2> QED BY <1>9, <2>1 DEF InRange
<1>13. route' \in Seq(Id)
  BY <1>4, Pushed DEF ReserveNode, MeshInv, TypeOK, SearchTypeOK
<1> QED BY <1>1, <1>2, <1>4, <1>7, <1>8, <1>11, <1>12, <1>13 DEF NodeOf, b

-----------------------------------------------------------------------------
(* The ways the visited entries record. *)

Seen(i) == visited[i].seen
Parent(i) == visited[i].parent

\* Whatever was read, a node that has been seen was reached from the user or
\* from a node that has been seen and is there.
Reached(i) ==
    \/ Parent(i) = NoParent /\ Registered(i) /\ id2PtrMap[i] \in InRange(request.loc)
    \/ Parent(i) \in Id /\ Seen(Parent(i)) /\ Registered(Parent(i))

SearchSound ==
    phase # "idle" =>
        /\ \A e \in open : Seen(e.id)
        /\ \A i \in Id : Seen(i) => Reached(i)

\* The walk follows the parents from the gateway it started at.
Walked(q, c) ==
    /\ c # NoParent => c \in Id /\ Seen(c) /\ Registered(c)
    /\ q = <<>> => c # NoParent /\ NodeOf(c).gateway
    /\ q # <<>> => Parent(q[1]) = c /\ NodeOf(Last(q)).gateway
    /\ \A k \in 1 .. Len(q) : Registered(q[k]) /\ Seen(q[k])
    /\ \A k \in 2 .. Len(q) : Parent(q[k]) = q[k - 1]

WalkSound ==
    /\ phase # "reserve" => route = <<>>
    /\ phase = "reserve" => Walked(route, cursor)

WaySound == SearchSound /\ WalkSound

\* The steps that leave no search running.
EndsIdle == phase' = "idle" /\ route' = <<>>

LEMMA IdleSteps ==
    ASSUME WaySound,
           \/ \E b \in Batch : InitialReboot(b)
           \/ \E p \in Joining : AddNode(p)
           \/ \E i \in Id : RemoveNode(i)
           \/ \E k \in DOMAIN tokens, cleared \in BOOLEAN : RemoveUser(k, cleared)
           \/ NoRoute \/ ReserveFails \/ GrantRoute \/ Restart
    PROVE  EndsIdle
<1>1. CASE NoRoute \/ ReserveFails \/ GrantRoute \/ Restart
  BY <1>1 DEF NoRoute, ReserveFails, GrantRoute, Restart, Return, EndsIdle
<1>2. phase = "idle" => route = <<>>
  BY DEF WaySound, WalkSound
<1>3. CASE phase = "idle" /\ UNCHANGED search
  BY <1>2, <1>3 DEF search, EndsIdle
<1>4. CASE \E b \in Batch : InitialReboot(b)
  BY <1>3, <1>4 DEF InitialReboot
<1>5. CASE \E p \in Joining : AddNode(p)
  BY <1>3, <1>5 DEF AddNode
<1>6. CASE \E i \in Id : RemoveNode(i)
  BY <1>3, <1>6 DEF RemoveNode
<1>7. CASE \E k \in DOMAIN tokens, cleared \in BOOLEAN : RemoveUser(k, cleared)
  BY <1>3, <1>7 DEF RemoveUser
<1> QED BY <1>1, <1>4, <1>5, <1>6, <1>7

LEMMA IdleIsSound ==
    ASSUME EndsIdle
    PROVE  WaySound'
BY DEF EndsIdle, WaySound, SearchSound, WalkSound

LEMMA StartSearchSound ==
    ASSUME MeshInv, WaySound, NEW r \in Request, StartSearch(r)
    PROVE  WaySound'
<1>1. /\ phase' = "search" /\ route' = <<>>
      /\ UNCHANGED mesh /\ request' = r
      /\ open' = {[id |-> heap[a].id, hop |-> 1,
                   cost |-> FirstCost(r.loc, heap[a])] : a \in Sources(r)}
      /\ visited' = [i \in Id |->
           IF Registered(i) /\ id2PtrMap[i] \in Sources(r)
           THEN [seen |-> TRUE, cost |-> FirstCost(r.loc, NodeOf(i)),
                 parent |-> NoParent]
           ELSE Unvisited]
  BY DEF StartSearch, WaySound, WalkSound
<1>2. \A i \in Id : visited'[i].seen =>
         /\ visited'[i].parent = NoParent /\ Registered(i)
         /\ id2PtrMap[i] \in InRange(r.loc)
  BY <1>1 DEF Unvisited, Sources
<1>3. \A e \in open' : visited'[e.id].seen
  <2>1. TAKE e \in open'
  <2>2. PICK a \in Sources(r) : e.id = heap[a].id
    BY <1>1
  <2>3. a \in Live
    BY <2>2 DEF Sources, InRange, MeshInv, IndexMatchesTree
  <2>4. e.id \in Id /\ Registered(e.id) /\ id2PtrMap[e.id] = a
    BY <2>2, <2>3, LiveAddress
  <2> QED BY <1>1, <2>2, <2>4
<1>4. SearchSound'
  BY <1>1, <1>2, <1>3 DEF SearchSound, Reached, Seen, Parent, Registered, InRange, mesh
<1>5. WalkSound'
  BY <1>1 DEF WalkSound
<1> QED BY <1>4, <1>5 DEF WaySound

LEMMA PopSound ==
    ASSUME MeshInv, WaySound, SkipMissing \/ FoundGateway \/ HopLimitReached
    PROVE  WaySound'
<1>1. /\ UNCHANGED <<mesh, request, visited, route>>
      /\ \E e \in Tops : open' = Popped(e)
      /\ phase = "search"
  BY DEF SkipMissing, FoundGateway, HopLimitReached
<1>2. open' \subseteq open
  BY <1>1 DEF Popped
<1>3. SearchSound'
  BY <1>1, <1>2
     DEF WaySound, SearchSound, Reached, Seen, Parent, Registered, InRange, mesh
<1>4. WalkSound'
  <2>1. CASE SkipMissing \/ HopLimitReached
    BY <1>1, <2>1 DEF WaySound, WalkSound, SkipMissing, HopLimitReached
  <2>2. CASE FoundGateway
    <3>1. PICK e \in Tops : /\ Registered(e.id) /\ NodeOf(e.id).gateway
                            /\ cursor' = e.id
      BY <2>2 DEF FoundGateway
    <3>2. e.id \in Id /\ Seen(e.id) /\ e.id # NoParent
      BY <1>1, <3>1, EntriesTyped, RouterAssumption
         DEF Tops, WaySound, SearchSound
    <3>3. route' = <<>> /\ phase' = "reserve"
      BY <1>1, <2>2 DEF FoundGateway, WaySound, WalkSound
    <3>4. Walked(<<>>, e.id)
      BY <3>1, <3>2 DEF Walked
    <3>5. Walked(<<>>, e.id)'
      BY <1>1, <3>4 DEF Walked, Seen, Parent, Registered, NodeOf, mesh
    <3> QED BY <3>1, <3>3, <3>5 DEF WalkSound, Walked
  <2> QED BY <2>1, <2>2
<1> QED BY <1>3, <1>4 DEF WaySound

LEMMA RelaxSound ==
    ASSUME MeshInv, WaySound, Relax
    PROVE  WaySound'
<1>1. PICK e \in Tops : \E read \in SUBSET NodeOf(e.id).adjacency : Expands(e, read)
  BY RelaxExpands
<1>2. PICK read \in SUBSET NodeOf(e.id).adjacency : Expands(e, read)
  BY <1>1
<1>3. /\ phase = "search" /\ UNCHANGED <<mesh, phase, request, route, cursor>>
      /\ e \in open /\ e.id \in Id /\ Seen(e.id) /\ Registered(e.id)
      /\ \A a \in read : heap[a].id \in Id
  BY <1>2, EntriesTyped, NeighboursAreCells
     DEF Relax, Tops, Expands, WaySound, SearchSound
<1>4. \A i \in Id :
        \/ visited'[i] = visited[i]
        \/ visited'[i].seen /\ visited'[i].parent = e.id
  BY <1>2 DEF Expands
<1>5. \A i \in Id : visited[i].seen => visited'[i].seen
  BY <1>4
<1>6. \A a \in Improving(e, read) : visited'[heap[a].id].seen /\ a \in read
  <2>1. TAKE a \in Improving(e, read)
  <2>2. a \in read /\ heap[a].id \in Id
    BY <1>3 DEF Improving
  <2> QED BY <1>2, <2>2 DEF Expands
<1>7. \A f \in open' : visited'[f.id].seen
  <2>1. TAKE f \in open'
  <2>2. CASE f \in Popped(e)
    BY <1>3, <1>5, <2>2, EntriesTyped DEF Popped, WaySound, SearchSound, Seen
  <2>3. CASE f \notin Popped(e)
    <3>1. PICK a \in Improving(e, read) : f.id = heap[a].id
      BY <1>2, <2>3 DEF Expands
    <3> QED BY <1>6, <3>1
  <2> QED BY <2>2, <2>3
<1>8. SearchSound'
  <2>1. ASSUME NEW i \in Id, visited'[i].seen
        PROVE  \/ /\ visited'[i].parent = NoParent /\ Registered(i)
                  /\ id2PtrMap[i] \in InRange(request.loc)
               \/ /\ visited'[i].parent \in Id /\ Registered(visited'[i].parent)
                  /\ visited'[visited'[i].parent].seen
    <3>1. CASE visited'[i] = visited[i]
      <4>1. Reached(i)
        BY <1>3, <2>1, <3>1 DEF WaySound, SearchSound, Seen
      <4> QED BY <1>5, <3>1, <4>1 DEF Reached, Seen, Parent
    <3>2. CASE visited'[i].parent = e.id
      BY <1>3, <1>5, <3>2 DEF Seen
    <3> QED BY <1>4, <2>1, <3>1, <3>2
  <2> QED BY <1>3, <1>7, <2>1
          DEF SearchSound, Reached, Seen, Parent, Registered, InRange, mesh
<1>9. WalkSound'
  BY <1>3 DEF WaySound, WalkSound
<1> QED BY <1>8, <1>9 DEF WaySound

LEMMA ReserveNodeSound ==
    ASSUME MeshInv, WaySound, ReserveNode
    PROVE  WaySound'
<1>1. /\ phase = "reserve" /\ cursor # NoParent /\ phase' = phase
      /\ UNCHANGED <<id2PtrMap, request, open, visited>>
      /\ route' = <<cursor>> \o route /\ cursor' = Parent(cursor)
      /\ route \in Seq(Id) /\ request.loc \in Loc
  <2>1. request \in Request
    BY DEF ReserveNode, MeshInv, TypeOK, SearchTypeOK
  <2> QED BY <2>1, ConstantAssumption
          DEF ReserveNode, Parent, MeshInv, TypeOK, SearchTypeOK
<1>2. /\ cursor \in Id /\ Registered(cursor)
      /\ \A i : Registered(i)' <=> Registered(i)
      /\ \A i : Registered(i) => NodeOf(i)'.gateway = NodeOf(i).gateway
      /\ InRange(request.loc)' = InRange(request.loc)
  BY <1>1, Debits
<1>3. Walked(route, cursor)
  BY <1>1 DEF WaySound, WalkSound
<1>4. SearchSound'
  <2>1. ASSUME NEW i \in Id, Reached(i) PROVE Reached(i)'
    BY <1>1, <1>2, <2>1 DEF Reached, Seen, Parent
  <2> QED BY <1>1, <2>1 DEF WaySound, SearchSound, Seen
<1>5. Walked(route, cursor)'
  <2>1. /\ route' # <<>> /\ Len(route') = Len(route) + 1 /\ route'[1] = cursor
        /\ \A k \in 1 .. Len(route) : route'[k + 1] = route[k]
        /\ \A k \in 2 .. Len(route') :
              k - 1 \in 1 .. Len(route) /\ route'[k] = route[k - 1]
        /\ Last(route') = IF route = <<>> THEN cursor ELSE Last(route)
    BY <1>1, <1>2, Pushed
  <2>2. Len(route) \in Nat /\ (route = <<>> <=> Len(route) = 0)
    BY <1>1
  <2>3. cursor' # NoParent => cursor' \in Id /\ Seen(cursor') /\ Registered(cursor')
    BY <1>1, <1>2, <1>3, RouterAssumption
       DEF Walked, WaySound, SearchSound, Reached
  <2>4. Parent(route'[1]) = cursor'
    BY <1>1, <2>1
  <2>5. NodeOf(Last(route))'.gateway
    <3>1. CASE route = <<>>
      BY <1>2, <1>3, <2>1, <3>1 DEF Walked, NodeOf
    <3>2. CASE route # <<>>
      <4>1. Len(route) \in 1 .. Len(route)
        BY <2>2, <3>2
      <4>2. Registered(Last(route)) /\ NodeOf(Last(route)).gateway
        BY <1>3, <3>2, <4>1 DEF Walked, Last
      <4> QED BY <1>2, <2>1, <3>2, <4>2 DEF NodeOf
    <3> QED BY <3>1, <3>2
  <2>6. ASSUME NEW k \in 1 .. Len(route')
        PROVE  Registered(route'[k]) /\ Seen(route'[k])
    <3>1. CASE k = 1
      BY <1>1, <1>2, <1>3, <2>1, <3>1 DEF Walked
    <3>2. CASE k # 1
      <4>1. k \in 2 .. Len(route')
        BY <2>1, <2>2, <3>2
      <4> QED BY <1>3, <2>1, <4>1 DEF Walked
    <3> QED BY <3>1, <3>2
  <2>7. ASSUME NEW k \in 2 .. Len(route')
        PROVE  Parent(route'[k]) = route'[k - 1]
    <3>1. CASE k = 2
      <4>1. route # <<>> /\ route'[k] = route[1] /\ route'[k - 1] = cursor
        BY <2>1, <2>2, <3>1
      <4> QED BY <1>3, <4>1 DEF Walked
    <3>2. CASE k # 2
      <4>1. k - 1 \in 2 .. Len(route) /\ k - 1 \in 2 .. Len(route')
        BY <2>1, <2>2, <3>2
      <4>2. route'[k] = route[k - 1] /\ route'[k - 1] = route[(k - 1) - 1]
        BY <2>1, <4>1
      <4> QED BY <1>3, <4>1, <4>2 DEF Walked
    <3> QED BY <3>1, <3>2
  <2> QED BY <1>1, <1>2, <2>1, <2>3, <2>4, <2>5, <2>6, <2>7 DEF Walked, Seen, Parent
<1>6. WalkSound'
  BY <1>1, <1>5 DEF WalkSound
<1> QED BY <1>4, <1>6 DEF WaySound

LEMMA InitWaySound == Init => WaySound
BY DEF Init, WaySound, SearchSound, WalkSound

LEMMA NextKeepsWay == MeshInv /\ WaySound /\ [Next]_vars => WaySound'
<1> SUFFICES ASSUME MeshInv, WaySound, [Next]_vars PROVE WaySound'
  OBVIOUS
<1>1. CASE \/ \E b \in Batch : InitialReboot(b)
           \/ \E p \in Joining : AddNode(p)
           \/ \E i \in Id : RemoveNode(i)
           \/ \E k \in DOMAIN tokens, cleared \in BOOLEAN : RemoveUser(k, cleared)
           \/ NoRoute \/ ReserveFails \/ GrantRoute \/ Restart
  BY <1>1, IdleSteps, IdleIsSound
<1>2. CASE \E r \in Request : StartSearch(r)
  BY <1>2, StartSearchSound
<1>3. CASE SkipMissing \/ FoundGateway \/ HopLimitReached
  BY <1>3, PopSound
<1>4. CASE Relax
  BY <1>4, RelaxSound
<1>5. CASE ReserveNode
  BY <1>5, ReserveNodeSound
<1>6. CASE UNCHANGED vars
  BY <1>6 DEF vars, search, mesh, WaySound, SearchSound, WalkSound, Walked,
              Reached, Seen, Parent, Registered, NodeOf, InRange
<1> QED BY <1>1, <1>2, <1>3, <1>4, <1>5, <1>6 DEF Next, SearchStep

\* A route that has reached the user visits no node twice: its parents are
\* followed in step from two places, and only one of them leads to the user.
LEMMA WalkIsInjective ==
    ASSUME MeshInv, WaySound, phase = "reserve", cursor = NoParent
    PROVE  IsInjective(route)
<1>1. /\ Walked(route, NoParent) /\ route \in Seq(Id)
      /\ Len(route) \in Nat /\ DOMAIN route = 1 .. Len(route)
  BY DEF WaySound, WalkSound, MeshInv, TypeOK, SearchTypeOK
<1>2. ASSUME NEW a \in 1 .. Len(route), NEW b \in 1 .. Len(route),
             a < b, route[a] = route[b]
      PROVE  FALSE
  <2> DEFINE S == {m \in Nat : route[a - m + 1] = route[b - m + 1]}
  <2>1. 1 \in S
    <3>1. a - 1 + 1 = a /\ b - 1 + 1 = b
      BY <1>2
    <3> QED BY <1>2, <3>1
  <2>2. \A m \in 1 .. a : m \in S /\ m < a => m + 1 \in S
    <3>1. SUFFICES ASSUME NEW m \in 1 .. a, m \in S, m < a PROVE m + 1 \in S
      OBVIOUS
    <3>2. /\ a - m + 1 \in 2 .. Len(route) /\ b - m + 1 \in 2 .. Len(route)
          /\ (a - m + 1) - 1 = a - (m + 1) + 1 /\ (b - m + 1) - 1 = b - (m + 1) + 1
          /\ m + 1 \in Nat
      BY <1>1, <1>2, <3>1
    <3>3. /\ Parent(route[a - m + 1]) = route[a - (m + 1) + 1]
          /\ Parent(route[b - m + 1]) = route[b - (m + 1) + 1]
      BY <1>1, <3>2 DEF Walked
    <3> QED BY <3>1, <3>2, <3>3
  <2> HIDE DEF S
  <2>3. a \in S
    <3>1. 1 .. a \subseteq S
      BY <1>1, <2>1, <2>2, Steps
    <3> QED BY <3>1
  <2>4. route[1] = route[b - a + 1]
    <3>1. a - a + 1 = 1
      BY <1>1
    <3> QED BY <2>3, <3>1 DEF S
  <2>5. /\ b - a + 1 \in 2 .. Len(route) /\ (b - a + 1) - 1 \in 1 .. Len(route)
        /\ route # <<>>
    BY <1>1, <1>2
  <2>6. Parent(route[1]) = NoParent /\ Parent(route[b - a + 1]) \in Id
    BY <1>1, <2>5 DEF Walked
  <2> QED BY <2>4, <2>6, RouterAssumption
<1>3. \A a, b \in 1 .. Len(route) : a < b \/ b < a \/ a = b
  BY <1>1
<1> QED BY <1>1, <1>2, <1>3 DEF IsInjective

-----------------------------------------------------------------------------
(* The parents form a forest as long as no freed memory is read. *)

\* What the entry of a node says, in the mesh as it was before the walk.
FromUser(i) == FirstCost(request.loc, Before(i)) <= visited[i].cost
FromNode(i, p) ==
    /\ id2PtrMap[i] \in NodeOf(p).adjacency /\ ~NodeOf(p).gateway
    /\ visited[p].cost + LinkCost(Before(p), Before(i)) <= visited[i].cost

Rooted(i) ==
    /\ Registered(i) /\ Usable(Before(i), request)
    /\ Parent(i) = NoParent => FromUser(i)
    /\ Parent(i) # NoParent => FromNode(i, Parent(i))

\* No set of nodes has all its parents among themselves.
Grounded ==
    \A S \in SUBSET {i \in Id : Seen(i)} : S # {} => \E i \in S : Parent(i) \notin S

Forest ==
    ~tainted /\ phase # "idle" =>
        /\ \A i \in Id : Seen(i) => Rooted(i)
        /\ \A e \in open : visited[e.id].cost <= e.cost
        /\ Grounded

\* The nodes are in order when a search runs.
LiveSane == \A i : Registered(i) => Sane(NodeOf(i))
MeshSane == ~tainted /\ phase = "search" => LiveSane

LEMMA LinkTyped ==
    ASSUME MeshInv, NEW i, Registered(i), NEW j, Registered(j)
    PROVE  /\ LinkCost(NodeOf(i), NodeOf(j)) \in Int
           /\ Sane(NodeOf(i)) /\ Sane(NodeOf(j)) =>
                 LinkCost(NodeOf(i), NodeOf(j)) >= 0
<1>1. NodeOf(i) \in Cell /\ NodeOf(j) \in Cell
  BY NeighboursAreCells
<1>2. NodeOf(i).loc \in Loc
  BY <1>1 DEF Cell
<1> QED BY <1>1, <1>2, CostsAreInts, HopsCost

\* Relax when all the pointers read are good, in terms of nodes.
Way(i, j) == /\ Registered(j) /\ id2PtrMap[j] \in NodeOf(i).adjacency
             /\ Usable(NodeOf(j), request)
Through(e, j) == e.cost + LinkCost(NodeOf(e.id), NodeOf(j))

Lowered(e, j) ==
    /\ Way(e.id, j) /\ j # e.id
    /\ visited'[j].seen /\ visited'[j].parent = e.id
    /\ visited'[j].cost = Through(e, j) /\ e.cost <= Through(e, j)
    /\ Seen(j) => Through(e, j) < visited[j].cost
    /\ \E f \in open' : f.id = j /\ f.cost = Through(e, j)

Lowers(e) ==
    /\ Registered(e.id) /\ ~NodeOf(e.id).gateway /\ e.hop < HopLimit
    /\ \A j \in Id : visited'[j] = visited[j] \/ Lowered(e, j)
    /\ \A j \in Id : Way(e.id, j) =>
          visited'[j].seen /\ visited'[j].cost <= Through(e, j)
    /\ Popped(e) \subseteq open'
    /\ \A f \in open' : f \in Popped(e) \/
          /\ f.id \in Id /\ Lowered(e, f.id)
          /\ f.hop = e.hop + 1 /\ visited'[f.id].cost <= f.cost

LEMMA RelaxLowers ==
    ASSUME MeshInv, WaySound, Forest, MeshSane, Relax, ~tainted'
    PROVE  ~tainted /\ \E e \in Tops : Lowers(e)
<1>1. PICK e \in Tops : \E read \in SUBSET NodeOf(e.id).adjacency : Expands(e, read)
  BY RelaxExpands
<1>2. PICK read \in SUBSET NodeOf(e.id).adjacency : Expands(e, read)
  BY <1>1
<1> DEFINE list == NodeOf(e.id).adjacency
<1>3. /\ ~tainted /\ list \subseteq Live /\ read = list
      /\ Registered(e.id) /\ ~NodeOf(e.id).gateway /\ e.hop < HopLimit
  BY <1>2 DEF Expands
<1>4. /\ e \in open /\ e.id \in Id /\ e.cost \in Int /\ Seen(e.id)
      /\ visited[e.id].cost <= e.cost /\ LiveSane
  BY <1>3, EntriesTyped DEF Relax, Tops, WaySound, SearchSound, Forest, MeshSane
<1>5. ASSUME NEW a \in Improving(e, read)
      PROVE  LET j == heap[a].id IN
             /\ j \in Id /\ Way(e.id, j) /\ j # e.id
             /\ EndCost(e, a) = Through(e, j) /\ Through(e, j) \in Int
             /\ e.cost <= Through(e, j)
             /\ Seen(j) => Through(e, j) < visited[j].cost
  <2> DEFINE j == heap[a].id
  <2>1. /\ a \in list /\ a \in Live /\ Usable(heap[a], request)
        /\ ~(visited[j].seen /\ visited[j].cost <= EndCost(e, a))
    BY <1>3, <1>5 DEF Improving
  <2>2. j \in Id /\ Registered(j) /\ id2PtrMap[j] = a /\ NodeOf(j) = heap[a]
    BY <2>1, LiveAddress
  <2>3. EndCost(e, a) = Through(e, j)
    BY <2>2 DEF EndCost, Through
  <2>4. LinkCost(NodeOf(e.id), NodeOf(j)) \in Int /\ LinkCost(NodeOf(e.id), NodeOf(j)) >= 0
    BY <1>3, <1>4, <2>2, LinkTyped DEF LiveSane
  <2>5. Through(e, j) \in Int /\ e.cost <= Through(e, j)
    BY <1>4, <2>4 DEF Through
  <2>6. Seen(j) => Through(e, j) < visited[j].cost
    <3>1. visited[j].cost \in Int
      BY <2>2 DEF MeshInv, TypeOK, SearchTypeOK
    <3> QED BY <2>1, <2>3, <2>5, <3>1 DEF Seen
  <2>7. j # e.id
    <3>1. visited[e.id].cost \in Int
      BY <1>4 DEF MeshInv, TypeOK, SearchTypeOK
    <3> QED BY <1>4, <2>5, <2>6, <3>1
  <2> QED BY <2>1, <2>2, <2>3, <2>5, <2>6, <2>7 DEF Way
<1>6. \A a \in Improving(e, read) :
         \E f \in open' : f.id = heap[a].id /\ f.cost = EndCost(e, a)
  <2>1. TAKE a \in Improving(e, read)
  <2> DEFINE f == [id |-> heap[a].id, hop |-> e.hop + 1, cost |-> EndCost(e, a)]
  <2>2. f \in open'
    BY <1>2 DEF Expands
  <2> QED BY <2>2
<1>7. ASSUME NEW j \in Id
      PROVE  \/ visited'[j] = visited[j] /\ \A a \in Improving(e, read) : heap[a].id # j
             \/ Lowered(e, j)
  <2>1. CASE \A a \in Improving(e, read) : heap[a].id # j
    BY <1>2, <2>1 DEF Expands
  <2>2. CASE \E a \in Improving(e, read) : heap[a].id = j
    <3>1. PICK a \in Improving(e, read) :
             /\ heap[a].id = j
             /\ visited'[j].seen /\ visited'[j].parent = e.id
             /\ visited'[j].cost = EndCost(e, a)
      BY <1>2, <2>2 DEF Expands
    <3> QED BY <1>5, <1>6, <3>1 DEF Lowered
  <2> QED BY <2>1, <2>2
<1>8. ASSUME NEW a \in Improving(e, read)
      PROVE  Lowered(e, heap[a].id) /\ visited'[heap[a].id].cost <= EndCost(e, a)
  <2>1. heap[a].id \in Id
    BY <1>5
  <2>2. Lowered(e, heap[a].id)
    BY <1>7, <2>1
  <2>3. EndCost(e, a) \in Int /\ visited'[heap[a].id].cost = EndCost(e, a)
    BY <1>5, <2>2 DEF Lowered
  <2> QED BY <2>2, <2>3
<1>9. ASSUME NEW j \in Id, Way(e.id, j)
      PROVE  visited'[j].seen /\ visited'[j].cost <= Through(e, j)
  <2>1. /\ id2PtrMap[j] \in read /\ Usable(heap[id2PtrMap[j]], request)
        /\ heap[id2PtrMap[j]].id = j
    BY <1>3, <1>9, NeighboursAreCells DEF Way, NodeOf
  <2>2. EndCost(e, id2PtrMap[j]) = Through(e, j)
    BY DEF EndCost, Through, NodeOf
  <2>3. CASE id2PtrMap[j] \in Improving(e, read)
    BY <1>8, <2>1, <2>2, <2>3 DEF Lowered
  <2>4. CASE id2PtrMap[j] \notin Improving(e, read)
    <3>1. Seen(j) /\ visited[j].cost <= Through(e, j)
      BY <2>1, <2>2, <2>4 DEF Improving, Seen
    <3>2. Through(e, j) \in Int /\ visited[j].cost \in Int
      BY <1>3, <1>4, <1>9, LinkTyped
         DEF Through, Way, MeshInv, TypeOK, SearchTypeOK
    <3>3. CASE visited'[j] = visited[j]
      BY <3>1, <3>3 DEF Seen
    <3>4. CASE Lowered(e, j)
      BY <3>2, <3>4 DEF Lowered
    <3> QED BY <1>7, <3>3, <3>4
  <2> QED BY <2>3, <2>4
<1>10. ASSUME NEW f \in open', f \notin Popped(e)
       PROVE  /\ f.id \in Id /\ Lowered(e, f.id)
              /\ f.hop = e.hop + 1 /\ visited'[f.id].cost <= f.cost
  <2>1. PICK a \in Improving(e, read) :
          f = [id |-> heap[a].id, hop |-> e.hop + 1, cost |-> EndCost(e, a)]
    BY <1>2, <1>10 DEF Expands
  <2>2. f.id = heap[a].id /\ f.hop = e.hop + 1 /\ f.cost = EndCost(e, a)
    BY <2>1
  <2> QED BY <1>5, <1>8, <2>2
<1>11. Popped(e) \subseteq open'
  BY <1>2 DEF Expands
<1>12. Lowers(e)
  BY <1>3, <1>7, <1>9, <1>10, <1>11 DEF Lowers
<1> QED BY <1>3, <1>12

\* While the queue is worked off, no debit has been made yet.
LEMMA NoDebitYet ==
    ASSUME WaySound, phase = "search", NEW i
    PROVE  Before(i) = NodeOf(i)
<1>1. route = <<>>
  BY DEF WaySound, WalkSound
<1>2. ToSet(<<>>) = {}
  BY DEF ToSet
<1> QED BY <1>1, <1>2 DEF Before

LEMMA StartSearchForest ==
    ASSUME MeshInv, WaySound, NEW r \in Request, StartSearch(r)
    PROVE  Forest'
<1>1. /\ phase' = "search" /\ route' = <<>>
      /\ UNCHANGED mesh /\ request' = r
      /\ open' = {[id |-> heap[a].id, hop |-> 1,
                   cost |-> FirstCost(r.loc, heap[a])] : a \in Sources(r)}
      /\ visited' = [i \in Id |->
           IF Registered(i) /\ id2PtrMap[i] \in Sources(r)
           THEN [seen |-> TRUE, cost |-> FirstCost(r.loc, NodeOf(i)),
                 parent |-> NoParent]
           ELSE Unvisited]
  BY DEF StartSearch, WaySound, WalkSound
<1>2. ASSUME NEW i \in Id, visited'[i].seen
      PROVE  /\ Registered(i) /\ Usable(NodeOf(i), r)
             /\ visited'[i].parent = NoParent
             /\ visited'[i].cost = FirstCost(r.loc, NodeOf(i))
  BY <1>1, <1>2 DEF Unvisited, Sources, NodeOf
<1>3. ASSUME NEW i \in Id, visited'[i].seen PROVE Rooted(i)'
  <2>1. Before(i)' = NodeOf(i)
    <3>1. ToSet(<<>>) = {}
      BY DEF ToSet
    <3> QED BY <1>1, <3>1 DEF Before, NodeOf, mesh
  <2>2. FirstCost(r.loc, NodeOf(i)) \in Int
    <3>1. visited'[i].cost \in Int
      BY StartSearchKeepsInv DEF MeshInv, TypeOK, SearchTypeOK
    <3> QED BY <1>2, <1>3, <3>1
  <2>3. FromUser(i)'
    BY <1>1, <1>2, <1>3, <2>1, <2>2 DEF FromUser
  <2>4. Registered(i)' /\ Usable(Before(i), request)' /\ Parent(i)' = NoParent
    BY <1>1, <1>2, <1>3, <2>1 DEF Registered, Parent, mesh
  <2> QED BY <2>3, <2>4 DEF Rooted
<1>4. ASSUME NEW e \in open' PROVE visited'[e.id].cost <= e.cost
  <2>1. PICK a \in Sources(r) : e = [id |-> heap[a].id, hop |-> 1,
                                     cost |-> FirstCost(r.loc, heap[a])]
    BY <1>1
  <2>2. e.id = heap[a].id /\ e.cost = FirstCost(r.loc, heap[a])
    BY <2>1
  <2>3. a \in Live
    BY <2>1 DEF Sources, InRange, MeshInv, IndexMatchesTree
  <2>4. e.id \in Id /\ Registered(e.id) /\ id2PtrMap[e.id] = a /\ NodeOf(e.id) = heap[a]
    BY <2>2, <2>3, LiveAddress
  <2>5. visited'[e.id].cost = e.cost
    BY <1>1, <2>1, <2>2, <2>4
  <2>6. visited'[e.id].cost \in Int
    BY <2>4, StartSearchKeepsInv DEF MeshInv, TypeOK, SearchTypeOK
  <2> QED BY <2>5, <2>6
<1>5. Grounded'
  <2>1. ASSUME NEW S \in SUBSET {i \in Id : visited'[i].seen}, S # {}
        PROVE  \E i \in S : visited'[i].parent \notin S
    BY <1>2, <2>1, RouterAssumption
  <2> QED BY <2>1 DEF Grounded, Seen, Parent
<1> QED BY <1>3, <1>4, <1>5 DEF Forest, Seen

LEMMA PopForest ==
    ASSUME MeshInv, WaySound, Forest, SkipMissing \/ FoundGateway \/ HopLimitReached
    PROVE  Forest'
<1>1. /\ UNCHANGED <<mesh, request, visited, route, tainted>>
      /\ \E e \in Tops : open' = Popped(e)
      /\ phase = "search"
  BY DEF SkipMissing, FoundGateway, HopLimitReached
<1>2. open' \subseteq open
  BY <1>1 DEF Popped
<1>3. Grounded => Grounded'
  BY <1>1 DEF Grounded, Seen, Parent
<1>4. \A i \in Id : Rooted(i) => Rooted(i)'
  BY <1>1 DEF Rooted, FromUser, FromNode, Before, NodeOf, Registered, Parent, mesh
<1> QED BY <1>1, <1>2, <1>3, <1>4 DEF Forest, Seen

LEMMA RelaxGrounded ==
    ASSUME MeshInv, WaySound, Forest, MeshSane, ~tainted, phase = "search",
           NEW e \in Tops, Lowers(e)
    PROVE  Grounded'
<1>1. /\ e \in open /\ e.id \in Id /\ e.cost \in Int /\ Seen(e.id)
      /\ visited[e.id].cost <= e.cost /\ LiveSane /\ Grounded
      /\ \A i \in Id : Seen(i) => Rooted(i) /\ Reached(i)
  BY EntriesTyped DEF Tops, WaySound, SearchSound, Forest, MeshSane
<1>2. SUFFICES ASSUME NEW S \in SUBSET {i \in Id : visited'[i].seen}, S # {},
                      \A i \in S : visited'[i].parent \in S
               PROVE  FALSE
  BY DEF Grounded, Seen, Parent
<1>3. \A i \in Id : visited'[i] = visited[i] \/ Lowered(e, i)
  BY DEF Lowers
<1>4. CASE \A i \in S : visited'[i] = visited[i]
  BY <1>1, <1>2, <1>4 DEF Grounded, Seen, Parent
<1>5. CASE \E i \in S : Lowered(e, i)
  <2>1. e.id \in S
    BY <1>2, <1>5 DEF Lowered
  <2> DEFINE T == {i \in S : visited'[i] = visited[i] /\ visited[i].cost <= e.cost}
  <2>2. e.id \in T
    BY <1>1, <1>3, <2>1 DEF Lowered
  <2>3. T \in SUBSET {i \in Id : Seen(i)}
    BY <1>2 DEF Seen
  <2> HIDE DEF T
  <2>4. PICK i \in T : Parent(i) \notin T
    BY <1>1, <2>2, <2>3 DEF Grounded
  <2> DEFINE p == Parent(i)
  <2>5. /\ i \in S /\ i \in Id /\ visited[i].cost <= e.cost
        /\ p \in S /\ p \in Id /\ Seen(i)
    BY <1>2, <2>3, <2>4 DEF T, Seen, Parent
  <2> HIDE DEF p
  <2>6. /\ Registered(i) /\ Registered(p) /\ Seen(p)
        /\ visited[p].cost + LinkCost(NodeOf(p), NodeOf(i)) <= visited[i].cost
    BY <1>1, <2>5, RouterAssumption, NoDebitYet DEF Rooted, Reached, FromNode, p
  <2>7. /\ visited[p].cost \in Int /\ visited[i].cost \in Int
        /\ LinkCost(NodeOf(p), NodeOf(i)) \in Int /\ LinkCost(NodeOf(p), NodeOf(i)) >= 0
    BY <1>1, <2>5, <2>6, LinkTyped DEF LiveSane, MeshInv, TypeOK, SearchTypeOK
  <2>8. visited[p].cost <= e.cost
    BY <1>1, <2>5, <2>6, <2>7
  <2>9. CASE visited'[p] = visited[p]
    BY <2>4, <2>5, <2>8, <2>9 DEF T, p
  <2>10. CASE Lowered(e, p)
    <3>1. Through(e, p) \in Int
      BY <1>1, <2>10, LinkTyped DEF Lowered, Lowers, Way, Through
    <3> QED BY <1>1, <2>6, <2>7, <2>8, <2>10, <3>1 DEF Lowered
  <2> QED BY <1>3, <2>5, <2>9, <2>10
<1> QED BY <1>2, <1>3, <1>4, <1>5

LEMMA RelaxForest ==
    ASSUME MeshInv, WaySound, Forest, MeshSane, Relax
    PROVE  Forest'
<1>1. SUFFICES ASSUME ~tainted' PROVE Forest'
  BY DEF Forest
<1>2. ~tainted /\ \E e \in Tops : Lowers(e)
  BY <1>1, RelaxLowers
<1>3. PICK e \in Tops : Lowers(e)
  BY <1>2
<1>4. /\ phase = "search" /\ UNCHANGED <<mesh, phase, request, route, cursor>>
      /\ e \in open /\ e.id \in Id /\ e.cost \in Int /\ Seen(e.id)
      /\ visited[e.id].cost <= e.cost
      /\ \A i \in Id : Seen(i) => Rooted(i) /\ Reached(i)
      /\ \A f \in open : f.id \in Id /\ f.cost \in Int /\ Seen(f.id)
                         /\ visited[f.id].cost <= f.cost
  BY <1>2, EntriesTyped DEF Relax, Tops, WaySound, SearchSound, Forest
<1>5. \A i \in Id : visited[i].cost \in Int /\ visited'[i].cost \in Int
  BY RelaxKeepsInv DEF MeshInv, TypeOK, SearchTypeOK
<1>6. \A i \in Id : visited'[i] = visited[i] \/ Lowered(e, i)
  BY <1>3 DEF Lowers
<1>7. \A i \in Id : Seen(i) => visited'[i].cost <= visited[i].cost
  BY <1>5, <1>6 DEF Lowered
<1>8. visited'[e.id] = visited[e.id]
  BY <1>4, <1>6 DEF Lowered
<1>9. \A i : Before(i) = NodeOf(i) /\ Before(i)' = NodeOf(i)
  BY <1>4, NoDebitYet DEF Before, NodeOf, mesh
<1>10. ASSUME NEW i \in Id, visited'[i].seen PROVE Rooted(i)'
  <2>1. CASE visited'[i] = visited[i]
    <3>1. Seen(i) /\ Rooted(i) /\ Reached(i)
      BY <1>4, <1>10, <2>1 DEF Seen
    <3>2. Registered(i)' /\ Usable(Before(i), request)' /\ Parent(i)' = Parent(i)
      BY <1>4, <1>9, <2>1, <3>1 DEF Rooted, Registered, Parent, mesh
    <3>3. CASE Parent(i) = NoParent
      <4>1. FromUser(i)'
        BY <1>4, <1>9, <2>1, <3>1, <3>3 DEF Rooted, FromUser
      <4> QED BY <3>2, <3>3, <4>1 DEF Rooted
    <3>4. CASE Parent(i) # NoParent
      <4>0. Parent(i) \in Id /\ Seen(Parent(i)) /\ Registered(Parent(i))
            /\ FromNode(i, Parent(i))
        BY <3>1, <3>4 DEF Reached, Rooted
      <4>1. PICK p \in Id : p = Parent(i) /\ Seen(p) /\ Registered(p) /\ FromNode(i, p)
        BY <4>0
      <4>2. /\ LinkCost(NodeOf(p), NodeOf(i)) \in Int
            /\ id2PtrMap[i] \in NodeOf(p).adjacency /\ ~NodeOf(p).gateway
            /\ visited[p].cost + LinkCost(NodeOf(p), NodeOf(i)) <= visited[i].cost
        BY <1>9, <3>1, <4>1, LinkTyped DEF Rooted, FromNode
      <4>3. visited'[p].cost + LinkCost(NodeOf(p), NodeOf(i)) <= visited'[i].cost
        BY <1>5, <1>7, <2>1, <4>1, <4>2
      <4>4. FromNode(i, p)'
        BY <1>4, <1>9, <4>2, <4>3 DEF FromNode, NodeOf, mesh
      <4>5. FromNode(i, Parent(i))'
        BY <3>2, <4>1, <4>4 DEF FromNode
      <4> QED BY <3>2, <3>4, <4>5 DEF Rooted
    <3> QED BY <3>3, <3>4
  <2>2. CASE Lowered(e, i)
    <3>1. /\ Way(e.id, i) /\ visited'[i].parent = e.id
          /\ visited'[i].cost = e.cost + LinkCost(NodeOf(e.id), NodeOf(i))
      BY <2>2 DEF Lowered, Through
    <3>2. /\ Registered(i) /\ Registered(e.id) /\ Usable(NodeOf(i), request)
          /\ ~NodeOf(e.id).gateway
      BY <1>3, <3>1 DEF Way, Lowers
    <3>3. LinkCost(NodeOf(e.id), NodeOf(i)) \in Int
      BY <3>2, LinkTyped
    <3>4. visited'[e.id].cost + LinkCost(NodeOf(e.id), NodeOf(i)) <= visited'[i].cost
      BY <1>4, <1>5, <1>8, <3>1, <3>3
    <3>5. FromNode(i, e.id)'
      BY <1>4, <1>9, <3>1, <3>2, <3>4 DEF FromNode, NodeOf, mesh, Way
    <3>6. /\ Registered(i)' /\ Usable(Before(i), request)'
          /\ Parent(i)' = e.id /\ e.id # NoParent
      BY <1>4, <1>9, <3>1, <3>2, RouterAssumption DEF Registered, Parent, mesh
    <3>7. FromNode(i, Parent(i))'
      BY <3>5, <3>6 DEF FromNode
    <3> QED BY <3>6, <3>7 DEF Rooted
  <2> QED BY <1>6, <2>1, <2>2
<1>11. ASSUME NEW f \in open' PROVE visited'[f.id].cost <= f.cost
  <2>1. CASE f \in Popped(e)
    <3>1. f \in open
      BY <2>1 DEF Popped
    <3> QED BY <1>4, <1>5, <1>7, <3>1
  <2>2. CASE f \notin Popped(e)
    BY <1>3, <2>2 DEF Lowers
  <2> QED BY <2>1, <2>2
<1>12. Grounded'
  BY <1>2, <1>3, <1>4, RelaxGrounded
<1> QED BY <1>10, <1>11, <1>12 DEF Forest, Seen

\* The node to be debited next is not on the route yet.
LEMMA CursorIsNew ==
    ASSUME MeshInv, WaySound, Forest, ~tainted, phase = "reserve", cursor # NoParent
    PROVE  cursor \notin ToSet(route)
<1>1. /\ Walked(route, cursor) /\ Grounded /\ route \in Seq(Id)
      /\ Len(route) \in Nat /\ DOMAIN route = 1 .. Len(route)
  BY DEF WaySound, WalkSound, Forest, MeshInv, TypeOK, SearchTypeOK
<1>2. SUFFICES ASSUME cursor \in ToSet(route) PROVE FALSE
  OBVIOUS
<1>3. PICK j \in 1 .. Len(route) : route[j] = cursor
  BY <1>1, <1>2 DEF ToSet
<1> DEFINE S == {route[m] : m \in 1 .. j}
<1>4. S \in SUBSET {i \in Id : Seen(i)}
  BY <1>1, <1>3 DEF Walked
<1>5. cursor \in S
  BY <1>1, <1>3
<1>6. PICK i \in S : Parent(i) \notin S
  BY <1>1, <1>4, <1>5 DEF Grounded
<1>7. PICK m \in 1 .. j : i = route[m]
  BY <1>6
<1>8. CASE m = 1
  BY <1>1, <1>3, <1>5, <1>6, <1>7, <1>8 DEF Walked
<1>9. CASE m # 1
  <2>1. m \in 2 .. Len(route) /\ m - 1 \in 1 .. j
    BY <1>1, <1>3, <1>7, <1>9
  <2>2. Parent(i) = route[m - 1]
    BY <1>1, <1>7, <2>1 DEF Walked
  <2> QED BY <1>6, <2>1, <2>2
<1> QED BY <1>8, <1>9

\* The walk does not change what its nodes were before it.
LEMMA BeforeKept ==
    ASSUME MeshInv, WaySound, Forest, ~tainted, ReserveNode
    PROVE  \A i : Registered(i) => Before(i)' = Before(i)
<1>1. cursor \notin ToSet(route)
  BY CursorIsNew DEF ReserveNode
<1>2. /\ cursor \in Id /\ request' = request /\ request.bandwidth \in Nat
      /\ \A i : Registered(i) =>
            /\ NodeOf(i) \in Cell
            /\ NodeOf(i)' = IF i = cursor
                            THEN UpdateNode(NodeOf(i), -request.bandwidth)
                            ELSE NodeOf(i)
  BY Debits DEF ReserveNode
<1>3. ToSet(route') = {cursor} \cup ToSet(route)
  BY <1>2, Pushed DEF ReserveNode, MeshInv, TypeOK, SearchTypeOK
<1>4. SUFFICES ASSUME NEW i, Registered(i) PROVE Before(i)' = Before(i)
  OBVIOUS
<1>5. CASE i = cursor
  <2>1. /\ Before(i) = NodeOf(i)
        /\ Before(i)' = UpdateNode(NodeOf(i)', request.bandwidth)
    BY <1>1, <1>2, <1>3, <1>5 DEF Before
  <2>2. request.bandwidth \in Int /\ NodeOf(i) \in Cell
    BY <1>2, <1>4
  <2>3. UpdateNode(UpdateNode(NodeOf(i), -request.bandwidth), request.bandwidth)
          = NodeOf(i)
    BY <2>2, UpdatedFields
  <2> QED BY <1>2, <1>4, <1>5, <2>1, <2>3
<1>6. CASE i # cursor
  BY <1>2, <1>3, <1>4, <1>6 DEF Before
<1> QED BY <1>5, <1>6

LEMMA ReserveNodeForest ==
    ASSUME MeshInv, WaySound, Forest, ReserveNode
    PROVE  Forest'
<1>1. SUFFICES ASSUME ~tainted PROVE Forest'
  BY DEF Forest, ReserveNode
<1>2. /\ phase = "reserve" /\ UNCHANGED <<id2PtrMap, phase, request, open, visited>>
      /\ \A i \in Id : Seen(i) => Rooted(i) /\ Reached(i)
      /\ Grounded /\ \A e \in open : visited[e.id].cost <= e.cost
  BY <1>1 DEF ReserveNode, Forest, WaySound, SearchSound
<1>3. \A i : Registered(i) =>
        /\ Registered(i)' /\ Before(i)' = Before(i)
        /\ NodeOf(i)'.adjacency = NodeOf(i).adjacency
        /\ NodeOf(i)'.gateway = NodeOf(i).gateway
  BY <1>1, BeforeKept, Debits
<1>4. ASSUME NEW i \in Id, Seen(i) PROVE Rooted(i)'
  <2>1. /\ Registered(i) /\ Rooted(i) /\ Reached(i) /\ Registered(i)'
        /\ Before(i)' = Before(i) /\ Parent(i)' = Parent(i)
    BY <1>2, <1>3, <1>4 DEF Rooted, Parent
  <2>2. Usable(Before(i), request)'
    BY <1>2, <2>1 DEF Rooted
  <2>3. CASE Parent(i) = NoParent
    <3>1. FromUser(i)'
      BY <1>2, <2>1, <2>3 DEF Rooted, FromUser
    <3> QED BY <2>1, <2>2, <2>3, <3>1 DEF Rooted
  <2>4. CASE Parent(i) # NoParent
    <3>1. Parent(i) \in Id /\ Registered(Parent(i)) /\ FromNode(i, Parent(i))
      BY <2>1, <2>4 DEF Reached, Rooted
    <3>2. PICK p \in Id : p = Parent(i) /\ Registered(p) /\ FromNode(i, p)
      BY <3>1
    <3>3. FromNode(i, p)'
      BY <1>2, <1>3, <2>1, <3>2 DEF FromNode, NodeOf
    <3>4. FromNode(i, Parent(i))'
      BY <2>1, <3>2, <3>3 DEF FromNode
    <3> QED BY <2>1, <2>2, <2>4, <3>4 DEF Rooted
  <2> QED BY <2>3, <2>4
<1>5. Grounded'
  BY <1>2 DEF Grounded, Seen, Parent
<1> QED BY <1>2, <1>4, <1>5 DEF Forest, Seen

LEMMA InitForest == Init => Forest
BY DEF Init, Forest

LEMMA NextKeepsForest ==
    MeshInv /\ WaySound /\ Forest /\ MeshSane /\ [Next]_vars => Forest'
<1> SUFFICES ASSUME MeshInv, WaySound, Forest, MeshSane, [Next]_vars PROVE Forest'
  OBVIOUS
<1>1. CASE \/ \E b \in Batch : InitialReboot(b)
           \/ \E p \in Joining : AddNode(p)
           \/ \E i \in Id : RemoveNode(i)
           \/ \E k \in DOMAIN tokens, cleared \in BOOLEAN : RemoveUser(k, cleared)
           \/ NoRoute \/ ReserveFails \/ GrantRoute \/ Restart
  BY <1>1, IdleSteps DEF EndsIdle, Forest
<1>2. CASE \E r \in Request : StartSearch(r)
  BY <1>2, StartSearchForest
<1>3. CASE SkipMissing \/ FoundGateway \/ HopLimitReached
  BY <1>3, PopForest
<1>4. CASE Relax
  BY <1>4, RelaxForest
<1>5. CASE ReserveNode
  BY <1>5, ReserveNodeForest
<1>6. CASE UNCHANGED vars
  BY <1>6 DEF vars, search, mesh, Forest, Rooted, FromUser, FromNode, Before,
              Grounded, Seen, Parent, Registered, NodeOf
<1> QED BY <1>1, <1>2, <1>3, <1>4, <1>5, <1>6 DEF Next, SearchStep

-----------------------------------------------------------------------------
(* What the forest says of the reservation. *)

LEMMA ForestReserves ==
    ASSUME MeshInv, WaySound, Forest
    PROVE  ReservationSucceeds
<1>1. SUFFICES ASSUME phase = "reserve", ~tainted, cursor # NoParent
               PROVE  CanDebit(cursor)
  BY DEF ReservationSucceeds
<1>2. cursor \notin ToSet(route)
  BY <1>1, CursorIsNew
<1>3. cursor \in Id /\ Seen(cursor) /\ Registered(cursor)
  BY <1>1 DEF WaySound, WalkSound, Walked
<1>4. Usable(NodeOf(cursor), request)
  BY <1>1, <1>2, <1>3 DEF Forest, Rooted, Before
<1> QED BY <1>3, <1>4 DEF CanDebit, Usable

LEMMA ForestGrants ==
    ASSUME MeshInv, WaySound, Forest
    PROVE  GrantedPathIsARoute
<1>1. SUFFICES ASSUME phase = "reserve", cursor = NoParent
               PROVE  /\ route # <<>> /\ IsInjective(route)
                      /\ \A i \in ToSet(route) : Registered(i)
                      /\ id2PtrMap[route[1]] \in InRange(request.loc)
                      /\ NodeOf(Last(route)).gateway
                      /\ ~tainted => \A k \in 1 .. Len(route) - 1 :
                             id2PtrMap[route[k + 1]] \in NodeOf(route[k]).adjacency
  BY DEF GrantedPathIsARoute
<1>2. /\ Walked(route, NoParent) /\ route \in Seq(Id)
      /\ Len(route) \in Nat /\ DOMAIN route = 1 .. Len(route)
  BY <1>1 DEF WaySound, WalkSound, MeshInv, TypeOK, SearchTypeOK
<1>3. route # <<>> /\ NodeOf(Last(route)).gateway /\ IsInjective(route)
  BY <1>1, <1>2, WalkIsInjective DEF Walked
<1>4. \A i \in ToSet(route) : Registered(i)
  BY <1>2 DEF Walked, ToSet
<1>5. id2PtrMap[route[1]] \in InRange(request.loc)
  <2>1. 1 \in 1 .. Len(route) /\ route[1] \in Id /\ Parent(route[1]) = NoParent
    BY <1>2, <1>3 DEF Walked
  <2>2. Seen(route[1])
    BY <1>2, <2>1 DEF Walked
  <2>3. Reached(route[1])
    BY <1>1, <2>1, <2>2 DEF WaySound, SearchSound
  <2> QED BY <2>1, <2>3, RouterAssumption DEF Reached
<1>6. ASSUME ~tainted, NEW k \in 1 .. Len(route) - 1
      PROVE  id2PtrMap[route[k + 1]] \in NodeOf(route[k]).adjacency
  <2>1. k + 1 \in 2 .. Len(route) /\ k + 1 \in 1 .. Len(route) /\ (k + 1) - 1 = k
        /\ k \in 1 .. Len(route)
    BY <1>2
  <2>2. route[k + 1] \in Id /\ route[k] \in Id /\ Seen(route[k + 1])
        /\ Parent(route[k + 1]) = route[k]
    BY <1>2, <2>1 DEF Walked
  <2>3. Rooted(route[k + 1])
    BY <1>1, <1>6, <2>2 DEF Forest
  <2> QED BY <2>2, <2>3, RouterAssumption DEF Rooted, FromNode
<1> QED BY <1>3, <1>4, <1>5, <1>6

-----------------------------------------------------------------------------
(* What the queue still guarantees to find, and what the hop limit hides. *)

\* The nodes that have been reached over others, at cost c or less.
Within(c) == {j \in Id : Seen(j) /\ visited[j].parent # NoParent
                                 /\ visited[j].cost <= c}

\* A hop after the first is only counted for a node that is no further away.
HopsCounted == \A e \in open : e.hop <= Cardinality(Within(e.cost)) + 1

SourcesSeen ==
    \A i \in Id : Registered(i) /\ id2PtrMap[i] \in Sources(request) =>
        Seen(i) /\ visited[i].cost <= FirstCost(request.loc, NodeOf(i))

Queued(i) == \E e \in open : e.id = i /\ e.cost = visited[i].cost
Expanded(i) ==
    /\ ~NodeOf(i).gateway
    /\ \A j \in Id : Way(i, j) =>
          Seen(j) /\ visited[j].cost <= visited[i].cost + LinkCost(NodeOf(i), NodeOf(j))

\* A node whose entry may have been dropped at the hop limit.
Cut(i) == ~NodeOf(i).gateway /\ Cardinality(Within(visited[i].cost)) >= HopLimit - 1

\* There is no closed set: a node that has been expanded is queued again when
\* a cheaper way to it is met.
NoneForgotten == \A i \in Id : Seen(i) => Queued(i) \/ Expanded(i) \/ Cut(i)

Searching == phase = "search" /\ ~tainted
Frontier == Searching => HopsCounted /\ SourcesSeen /\ NoneForgotten

LEMMA WithinIsFinite ==
    ASSUME NEW S \in SUBSET Id
    PROVE  IsFiniteSet(S) /\ Cardinality(S) \in Nat /\ Cardinality(S) <= Cardinality(Id)
           /\ (Cardinality(S) = Cardinality(Id) => S = Id)
           /\ Cardinality(Id) \in Nat
<1>1. IsFiniteSet(Id)
  BY ConstantAssumption
<1>2. IsFiniteSet(S) /\ Cardinality(S) <= Cardinality(Id)
      /\ (Cardinality(S) = Cardinality(Id) => S = Id)
  BY <1>1, FS_Subset
<1>3. Cardinality(S) \in Nat /\ Cardinality(Id) \in Nat
  BY <1>1, <1>2, FS_CardinalityType
<1> QED BY <1>2, <1>3

\* A larger set, and one that is larger by an element at least.
LEMMA LargerSet ==
    ASSUME NEW S \in SUBSET Id, NEW T \in SUBSET Id, S \subseteq T
    PROVE  /\ Cardinality(S) <= Cardinality(T)
           /\ \A x \in T : x \notin S => Cardinality(S) + 1 <= Cardinality(T)
<1>1. IsFiniteSet(S) /\ IsFiniteSet(T)
      /\ Cardinality(S) \in Nat /\ Cardinality(T) \in Nat
  BY WithinIsFinite
<1>2. Cardinality(S) <= Cardinality(T) /\ (Cardinality(S) = Cardinality(T) => S = T)
  BY <1>1, FS_Subset
<1> QED BY <1>1, <1>2

LEMMA MoreWithin ==
    ASSUME MeshInv, NEW c \in Int, NEW d \in Int, c <= d
    PROVE  /\ Cardinality(Within(c)) <= Cardinality(Within(d))
           /\ Cardinality(Within(c)) \in Nat /\ Cardinality(Within(d)) \in Nat
<1>1. Within(c) \in SUBSET Id /\ Within(d) \in SUBSET Id /\ Within(c) \subseteq Within(d)
  BY DEF Within, MeshInv, TypeOK, SearchTypeOK
<1> QED BY <1>1, LargerSet, WithinIsFinite

LEMMA StartSearchFrontier ==
    ASSUME MeshInv, WaySound, NEW r \in Request, StartSearch(r)
    PROVE  Frontier'
<1>1. /\ UNCHANGED mesh /\ request' = r
      /\ open' = {[id |-> heap[a].id, hop |-> 1,
                   cost |-> FirstCost(r.loc, heap[a])] : a \in Sources(r)}
      /\ \A i \in Id : visited'[i] =
           IF Registered(i) /\ id2PtrMap[i] \in Sources(r)
           THEN [seen |-> TRUE, cost |-> FirstCost(r.loc, NodeOf(i)),
                 parent |-> NoParent]
           ELSE Unvisited
  BY DEF StartSearch
<1>2. \A i \in Id : visited'[i].cost \in Int
  BY StartSearchKeepsInv DEF MeshInv, TypeOK, SearchTypeOK
<1>3. ASSUME NEW i \in Id
      PROVE  visited'[i].seen <=> Registered(i) /\ id2PtrMap[i] \in Sources(r)
  <2>1. CASE Registered(i) /\ id2PtrMap[i] \in Sources(r)
    <3>1. visited'[i] = [seen |-> TRUE, cost |-> FirstCost(r.loc, NodeOf(i)),
                         parent |-> NoParent]
      BY <1>1, <2>1
    <3> QED BY <2>1, <3>1
  <2>2. CASE ~(Registered(i) /\ id2PtrMap[i] \in Sources(r))
    <3>1. visited'[i] = Unvisited
      BY <1>1, <2>2
    <3> QED BY <2>2, <3>1 DEF Unvisited
  <2> QED BY <2>1, <2>2
<1>4. ASSUME NEW i \in Id, visited'[i].seen
      PROVE  visited'[i].cost = FirstCost(r.loc, NodeOf(i))
  <2>1. visited'[i] = [seen |-> TRUE, cost |-> FirstCost(r.loc, NodeOf(i)),
                       parent |-> NoParent]
    BY <1>1, <1>3, <1>4
  <2> QED BY <2>1
<1>5. HopsCounted'
  <2>1. ASSUME NEW e \in open' PROVE e.hop = 1
    BY <1>1
  <2>2. ASSUME NEW e \in open'
        PROVE  Cardinality({j \in Id : /\ visited'[j].seen
                                       /\ visited'[j].parent # NoParent
                                       /\ visited'[j].cost <= e.cost}) \in Nat
    BY WithinIsFinite
  <2>3. ASSUME NEW e \in open'
        PROVE  e.hop <= Cardinality({j \in Id : /\ visited'[j].seen
                                                /\ visited'[j].parent # NoParent
                                                /\ visited'[j].cost <= e.cost}) + 1
    BY <2>1, <2>2
  <2> QED BY <2>3 DEF HopsCounted, Within, Seen
<1>6. SourcesSeen'
  <2>1. Sources(r)' = Sources(r)
    BY <1>1 DEF Sources, InRange, mesh
  <2>2. \A i \in Id : Registered(i) /\ id2PtrMap[i] \in Sources(r) =>
           visited'[i].seen /\ visited'[i].cost <= FirstCost(r.loc, NodeOf(i))
    BY <1>2, <1>3, <1>4
  <2>3. Sources(request)' = Sources(r)
    BY <1>1, <2>1 DEF Sources, InRange, mesh
  <2> QED BY <1>1, <2>2, <2>3 DEF SourcesSeen, Seen, Registered, NodeOf, mesh
<1>7. NoneForgotten'
  <2>1. ASSUME NEW i \in Id, visited'[i].seen
        PROVE  \E e \in open' : e.id = i /\ e.cost = visited'[i].cost
    <3>1. Registered(i) /\ id2PtrMap[i] \in Sources(r)
      BY <1>3, <2>1
    <3>2. heap[id2PtrMap[i]].id = i
      BY <3>1, NeighboursAreCells DEF NodeOf
    <3> DEFINE e == [id |-> heap[id2PtrMap[i]].id, hop |-> 1,
                     cost |-> FirstCost(r.loc, heap[id2PtrMap[i]])]
    <3>3. e \in open'
      BY <1>1, <3>1
    <3>4. e.id = i /\ e.cost = visited'[i].cost
      BY <1>4, <2>1, <3>2 DEF NodeOf
    <3> QED BY <3>3, <3>4
  <2> QED BY <2>1 DEF NoneForgotten, Queued, Seen
<1> QED BY <1>5, <1>6, <1>7 DEF Frontier

\* An entry that is dropped at the hop limit has so many nodes before it.
LEMMA PopFrontier ==
    ASSUME MeshInv, WaySound, Forest, MeshSane, Frontier,
           SkipMissing \/ HopLimitReached
    PROVE  Frontier'
<1>1. PICK e \in Tops : open' = Popped(e) /\
         \/ ~Registered(e.id)
         \/ Registered(e.id) /\ ~NodeOf(e.id).gateway /\ e.hop >= HopLimit
  BY DEF SkipMissing, HopLimitReached
<1>2. UNCHANGED <<mesh, phase, request, visited, tainted>> /\ phase = "search"
  BY DEF SkipMissing, HopLimitReached
<1>3. SUFFICES ASSUME Searching
               PROVE  HopsCounted' /\ SourcesSeen' /\ NoneForgotten'
  BY <1>2 DEF Frontier, Searching
<1>4. HopsCounted /\ SourcesSeen /\ NoneForgotten /\ LiveSane
  BY <1>3 DEF Frontier, Searching, MeshSane
<1>5. /\ e \in open /\ e.id \in Id /\ e.cost \in Int /\ e.hop \in Nat
      /\ Seen(e.id) /\ Registered(e.id) /\ visited[e.id].cost <= e.cost
  <2>1. e \in open
    BY DEF Tops
  <2>2. e.id \in Id /\ e.hop \in 1 .. HopLimit /\ e.cost \in Int
    BY <2>1, EntriesTyped
  <2>3. Seen(e.id)
    BY <1>2, <2>1 DEF WaySound, SearchSound
  <2>4. Registered(e.id) /\ visited[e.id].cost <= e.cost
    BY <1>2, <1>3, <2>1, <2>2, <2>3 DEF Searching, Forest, Rooted
  <2> QED BY <2>1, <2>2, <2>3, <2>4
<1>6. ~NodeOf(e.id).gateway /\ e.hop >= HopLimit
  BY <1>1, <1>5
<1>7. Cardinality(Within(e.cost)) >= HopLimit - 1
  <2>1. e.hop <= Cardinality(Within(e.cost)) + 1
    BY <1>4, <1>5 DEF HopsCounted
  <2>2. Cardinality(Within(e.cost)) \in Nat
    BY WithinIsFinite DEF Within
  <2> QED BY <1>5, <1>6, <2>1, <2>2, ConstantAssumption
<1>8. open' \subseteq open
  BY <1>1 DEF Popped
<1>9. HopsCounted'
  BY <1>2, <1>4, <1>8 DEF HopsCounted, Within, Seen
<1>10. SourcesSeen'
  BY <1>2, <1>4
     DEF SourcesSeen, Seen, Registered, NodeOf, Sources, InRange, mesh
<1>11. ASSUME NEW i \in Id PROVE Expanded(i) => Expanded(i)'
  BY <1>2 DEF Expanded, Way, Seen, Registered, NodeOf, mesh
<1>12. ASSUME NEW i \in Id PROVE Cut(i) => Cut(i)'
  BY <1>2 DEF Cut, Within, Seen, NodeOf, mesh
<1>13. ASSUME NEW i \in Id, Seen(i) PROVE Queued(i)' \/ Expanded(i)' \/ Cut(i)'
  <2>1. CASE \E f \in open : f.id = i /\ f.cost = visited[i].cost /\ f # e
    BY <1>1, <1>2, <2>1 DEF Queued, Popped
  <2>2. CASE Expanded(i) \/ Cut(i)
    BY <1>11, <1>12, <2>2
  <2>3. CASE e.id = i /\ e.cost = visited[i].cost
    <3>1. Cut(i)
      BY <1>6, <1>7, <2>3 DEF Cut
    <3> QED BY <1>12, <3>1
  <2> QED BY <1>4, <1>13, <2>1, <2>2, <2>3 DEF NoneForgotten, Queued
<1>14. NoneForgotten'
  BY <1>2, <1>13 DEF NoneForgotten, Seen
<1> QED BY <1>9, <1>10, <1>14

LEMMA RelaxFrontier ==
    ASSUME MeshInv, WaySound, Forest, MeshSane, Frontier, Relax
    PROVE  Frontier'
<1>1. SUFFICES ASSUME ~tainted' PROVE Frontier'
  BY DEF Frontier, Searching
<1>2. ~tainted /\ \E e \in Tops : Lowers(e)
  BY <1>1, RelaxLowers
<1>3. PICK e \in Tops : Lowers(e)
  BY <1>2
<1>4. phase = "search" /\ UNCHANGED <<mesh, phase, request>>
  BY DEF Relax
<1>5. HopsCounted /\ SourcesSeen /\ NoneForgotten /\ LiveSane
  BY <1>1, <1>2, <1>4 DEF Frontier, Searching, MeshSane
<1>6. \A f \in open : f.id \in Id /\ f.hop \in Nat /\ f.cost \in Int
                      /\ Seen(f.id) /\ visited[f.id].cost <= f.cost
  <2>1. TAKE f \in open
  <2>2. f.id \in Id /\ f.hop \in 1 .. HopLimit /\ f.cost \in Int
    BY EntriesTyped
  <2> QED BY <1>2, <1>4, <2>2 DEF WaySound, SearchSound, Forest
<1>7. e \in open
  BY DEF Tops
<1>8. \A i \in Id : visited[i].cost \in Int /\ visited'[i].cost \in Int
  BY RelaxKeepsInv DEF MeshInv, TypeOK, SearchTypeOK
<1>9. \A i \in Id : visited'[i] = visited[i] \/ Lowered(e, i)
  BY <1>3 DEF Lowers
<1>10. \A i \in Id : Seen(i) =>
          /\ visited'[i].seen /\ visited'[i].cost <= visited[i].cost
          /\ visited[i].parent # NoParent => visited'[i].parent # NoParent
  BY <1>6, <1>7, <1>8, <1>9, RouterAssumption DEF Lowered, Seen
<1>11. ASSUME NEW i \in Id, NEW j \in Id, Way(i, j), Registered(i)
       PROVE  LinkCost(NodeOf(i), NodeOf(j)) \in Int /\ LinkCost(NodeOf(i), NodeOf(j)) >= 0
  BY <1>5, <1>11, LinkTyped DEF Way, LiveSane
<1>12. \A i \in Id : Seen(i) => Registered(i)
  BY <1>2, <1>4 DEF Forest, Rooted
<1>13. HopsCounted'
  <2> DEFINE T(c) == {j \in Id : /\ visited'[j].seen /\ visited'[j].parent # NoParent
                                 /\ visited'[j].cost <= c}
  <2>1. ASSUME NEW f \in open' PROVE f.hop <= Cardinality(T(f.cost)) + 1
    <3>1. T(f.cost) \in SUBSET Id
      OBVIOUS
    <3>2. CASE f \in Popped(e)
      <4>1. f \in open /\ f.cost \in Int /\ f.hop \in Nat
        BY <1>6, <3>2 DEF Popped
      <4>2. Within(f.cost) \in SUBSET Id /\ Within(f.cost) \subseteq T(f.cost)
        BY <1>8, <1>10, <4>1 DEF Within
      <4>3. Cardinality(Within(f.cost)) <= Cardinality(T(f.cost))
        BY <3>1, <4>2, LargerSet
      <4>4. /\ Cardinality(Within(f.cost)) \in Nat /\ Cardinality(T(f.cost)) \in Nat
        BY <3>1, <4>2, WithinIsFinite
      <4>5. f.hop <= Cardinality(Within(f.cost)) + 1
        BY <1>5, <4>1 DEF HopsCounted
      <4> HIDE DEF T
      <4> QED BY <4>1, <4>3, <4>4, <4>5
    <3>3. CASE f \notin Popped(e)
      <4>1. /\ f.id \in Id /\ Lowered(e, f.id)
            /\ f.hop = e.hop + 1 /\ visited'[f.id].cost <= f.cost
        BY <1>3, <3>3 DEF Lowers
      <4>2. /\ visited'[f.id].seen /\ visited'[f.id].cost = Through(e, f.id)
            /\ visited'[f.id].parent = e.id /\ e.cost <= Through(e, f.id)
            /\ Seen(f.id) => Through(e, f.id) < visited[f.id].cost
        BY <4>1 DEF Lowered
      <4>3. e.cost \in Int /\ e.hop \in Nat /\ Through(e, f.id) \in Int
        BY <1>6, <1>7, <1>8, <4>1, <4>2
      <4>4. f.cost \in Int
        BY <3>3, RelaxKeepsInv DEF MeshInv, TypeOK, SearchTypeOK
      <4>5. f.id \in T(f.cost) /\ f.id \notin Within(e.cost)
        BY <1>6, <1>7, <1>8, <4>1, <4>2, <4>3, RouterAssumption DEF Within
      <4>6. Within(e.cost) \in SUBSET Id /\ Within(e.cost) \subseteq T(f.cost)
        BY <1>8, <1>10, <4>1, <4>2, <4>3, <4>4 DEF Within
      <4>7. Cardinality(Within(e.cost)) + 1 <= Cardinality(T(f.cost))
        BY <3>1, <4>5, <4>6, LargerSet
      <4>8. Cardinality(Within(e.cost)) \in Nat /\ Cardinality(T(f.cost)) \in Nat
        BY <3>1, <4>6, WithinIsFinite
      <4>9. e.hop <= Cardinality(Within(e.cost)) + 1
        BY <1>5, <1>7 DEF HopsCounted
      <4> HIDE DEF T
      <4> QED BY <4>1, <4>3, <4>7, <4>8, <4>9
    <3> QED BY <3>2, <3>3
  <2> QED BY <2>1 DEF HopsCounted, Within, Seen
<1>14. SourcesSeen'
  <2>1. Sources(request)' = Sources(request)
    BY <1>4 DEF Sources, InRange, mesh
  <2>2. ASSUME NEW i \in Id, Registered(i), id2PtrMap[i] \in Sources(request)
        PROVE  visited'[i].seen
               /\ visited'[i].cost <= FirstCost(request.loc, NodeOf(i))
    <3>1. Seen(i) /\ visited[i].cost <= FirstCost(request.loc, NodeOf(i))
      BY <1>5, <2>2 DEF SourcesSeen
    <3>2. FirstCost(request.loc, NodeOf(i)) \in Int
      <4>1. NodeOf(i) \in Cell /\ request \in Request
        BY <1>4, <2>2, NeighboursAreCells DEF MeshInv, TypeOK, SearchTypeOK
      <4>2. request.loc \in Loc
        BY <4>1, ConstantAssumption
      <4> QED BY <4>1, <4>2, CostsAreInts
    <3> QED BY <1>8, <1>10, <3>1, <3>2
  <2> QED BY <1>4, <2>1, <2>2 DEF SourcesSeen, Seen, Registered, NodeOf, mesh
<1>15. ASSUME NEW i \in Id, visited'[i].seen
       PROVE  Queued(i)' \/ Expanded(i)' \/ Cut(i)'
  <2>1. CASE Lowered(e, i)
    <3>1. \E f \in open' : f.id = i /\ f.cost = visited'[i].cost
      BY <2>1 DEF Lowered
    <3> QED BY <3>1 DEF Queued
  <2>2. CASE visited'[i] = visited[i] /\ i = e.id /\ visited[i].cost = e.cost
    <3>1. ASSUME NEW j \in Id, Way(i, j)
          PROVE  visited'[j].seen /\ visited'[j].cost
                        <= visited'[i].cost + LinkCost(NodeOf(i), NodeOf(j))
      BY <1>3, <2>2, <3>1 DEF Lowers, Through
    <3>2. ~NodeOf(i).gateway
      BY <1>3, <2>2 DEF Lowers
    <3> QED BY <1>4, <3>1, <3>2 DEF Expanded, Way, Seen, Registered, NodeOf, mesh
  <2>3. CASE visited'[i] = visited[i] /\ ~(i = e.id /\ visited[i].cost = e.cost)
    <3>1. Seen(i) /\ Registered(i)
      BY <1>12, <1>15, <2>3 DEF Seen
    <3>2. CASE Queued(i)
      <4>1. PICK f \in open : f.id = i /\ f.cost = visited[i].cost
        BY <3>2 DEF Queued
      <4>2. f \in open'
        BY <1>3, <2>3, <4>1 DEF Lowers, Popped
      <4> QED BY <2>3, <4>1, <4>2 DEF Queued
    <3>3. CASE Expanded(i)
      <4>1. ASSUME NEW j \in Id, Way(i, j)
            PROVE  visited'[j].seen /\ visited'[j].cost
                          <= visited'[i].cost + LinkCost(NodeOf(i), NodeOf(j))
        <5>1. Seen(j) /\ visited[j].cost
                              <= visited[i].cost + LinkCost(NodeOf(i), NodeOf(j))
          BY <3>3, <4>1 DEF Expanded
        <5>2. LinkCost(NodeOf(i), NodeOf(j)) \in Int
          BY <1>11, <3>1, <4>1
        <5> QED BY <1>8, <1>10, <2>3, <5>1, <5>2
      <4>2. ~NodeOf(i).gateway
        BY <3>3 DEF Expanded
      <4> QED BY <1>4, <4>1, <4>2 DEF Expanded, Way, Seen, Registered, NodeOf, mesh
    <3>4. CASE Cut(i)
      <4> DEFINE T == {j \in Id : /\ visited'[j].seen /\ visited'[j].parent # NoParent
                                  /\ visited'[j].cost <= visited[i].cost}
      <4>1. Within(visited[i].cost) \in SUBSET Id /\ T \in SUBSET Id
            /\ Within(visited[i].cost) \subseteq T
        BY <1>8, <1>10 DEF Within
      <4>2. Cardinality(Within(visited[i].cost)) <= Cardinality(T)
            /\ Cardinality(Within(visited[i].cost)) \in Nat /\ Cardinality(T) \in Nat
        <5> HIDE DEF T
        <5> QED BY <4>1, LargerSet, WithinIsFinite
      <4>3. ~NodeOf(i).gateway /\ Cardinality(Within(visited[i].cost)) >= HopLimit - 1
        BY <3>4 DEF Cut
      <4>4. Cardinality(T) >= HopLimit - 1
        <5> HIDE DEF T
        <5> QED BY <4>2, <4>3, ConstantAssumption
      <4> QED BY <1>4, <2>3, <4>3, <4>4 DEF Cut, Within, Seen, NodeOf, mesh
    <3> QED BY <1>5, <3>1, <3>2, <3>3, <3>4 DEF NoneForgotten
  <2> QED BY <1>9, <2>1, <2>2, <2>3
<1>16. NoneForgotten'
  BY <1>15 DEF NoneForgotten, Seen
<1> QED BY <1>13, <1>14, <1>16 DEF Frontier

LEMMA NextKeepsFrontier ==
    ASSUME MeshInv, WaySound, Forest, MeshSane, Frontier, [Next]_vars
    PROVE  Frontier'
<1>1. CASE \/ \E b \in Batch : InitialReboot(b)
           \/ \E p \in Joining : AddNode(p)
           \/ \E i \in Id : RemoveNode(i)
           \/ \E k \in DOMAIN tokens, cleared \in BOOLEAN : RemoveUser(k, cleared)
           \/ NoRoute \/ ReserveFails \/ GrantRoute \/ Restart
  BY <1>1, IdleSteps DEF EndsIdle, Frontier, Searching
<1>2. CASE \E r \in Request : StartSearch(r)
  BY <1>2, StartSearchFrontier
<1>3. CASE SkipMissing \/ HopLimitReached
  BY <1>3, PopFrontier
<1>4. CASE Relax
  BY <1>4, RelaxFrontier
<1>5. CASE FoundGateway \/ ReserveNode
  BY <1>5 DEF FoundGateway, ReserveNode, Frontier, Searching
<1>6. CASE UNCHANGED vars
  <2>1. UNCHANGED <<mesh, phase, request, open, visited, tainted>>
    BY <1>6 DEF vars, search
  <2> QED BY <2>1
      DEF Frontier, Searching, HopsCounted, Within, SourcesSeen, NoneForgotten,
          Queued, Expanded, Cut, Way, Seen, Registered, NodeOf, Sources, InRange, mesh
<1> QED BY <1>1, <1>2, <1>3, <1>4, <1>5, <1>6 DEF Next, SearchStep

-----------------------------------------------------------------------------
(* What the frontier says of every route there is. *)

LEMMA BeforeIsCell ==
    ASSUME MeshInv, phase # "idle", NEW i, Registered(i)
    PROVE  Before(i) \in Cell
<1>1. NodeOf(i) \in Cell /\ NodeOf(i).available \in Nat
  BY NeighboursAreCells DEF Cell
<1>2. request \in Request /\ request.bandwidth > 0
  BY DEF MeshInv, TypeOK, SearchTypeOK
<1>3. request.bandwidth \in Nat
  BY <1>2, ConstantAssumption
<1>4. NodeOf(i).available + request.bandwidth >= 0
  BY <1>1, <1>3
<1>5. UpdateNode(NodeOf(i), request.bandwidth) \in Cell
  BY <1>1, <1>3, <1>4, UpdatedCells
<1> QED BY <1>1, <1>5 DEF Before

LEMMA RoutesAreSequences ==
    ASSUME NEW q \in Routes
    PROVE  /\ q \in Seq(Id) /\ Len(q) \in Nat /\ Len(q) >= 1 /\ IsRoute(q)
           /\ \A k \in 1 .. Len(q) : q[k] \in Id /\ Registered(q[k])
<1> DEFINE known == {i \in Id : Registered(i)}
<1>1. /\ IsRoute(q)
      /\ \E n \in 1 .. Cardinality(known) : q \in Injection(1 .. n, known)
  BY DEF Routes
<1>2. PICK n \in 1 .. Cardinality(known) : q \in Injection(1 .. n, known)
  BY <1>1
<1>3. Cardinality(known) \in Nat
  BY WithinIsFinite
<1>4. n \in Nat /\ n >= 1
  BY <1>3
<1>5. q \in [1 .. n -> known]
  BY <1>2 DEF Injection
<1>6. Len(q) = n /\ q \in Seq(Id)
  BY <1>4, <1>5
<1> QED BY <1>1, <1>4, <1>5, <1>6

\* The cost of a route, hop by hop.
LEMMA RouteSums ==
    ASSUME MeshInv, phase # "idle", NEW q \in Seq(Id), Len(q) >= 1,
           \A k \in 1 .. Len(q) : Registered(q[k])
    PROVE  \E t \in [1 .. Len(q) -> Int] :
              /\ t[1] = FirstCost(request.loc, Before(q[1]))
              /\ \A k \in 1 .. Len(q) : k < Len(q) =>
                    /\ LinkCost(Before(q[k]), Before(q[k + 1])) \in Int
                    /\ t[k + 1] = t[k] + LinkCost(Before(q[k]), Before(q[k + 1]))
              /\ RouteCost(q) = t[Len(q)]
<1> DEFINE n == Len(q)
           hop(k) == IF k = 1 THEN FirstCost(request.loc, Before(q[1]))
                              ELSE LinkCost(Before(q[k - 1]), Before(q[k]))
           s == [k \in 1 .. n |-> hop(k)]
<1>1. n \in Nat /\ n >= 1 /\ 1 \in 1 .. n /\ \A k \in 1 .. n : Before(q[k]) \in Cell
  BY BeforeIsCell
<1>2. request.loc \in Loc
  <2>1. request \in Request
    BY DEF MeshInv, TypeOK, SearchTypeOK
  <2> QED BY <2>1, ConstantAssumption
<1>3. \A c \in Cell : c.loc \in Loc
  BY DEF Cell
<1>4. /\ FirstCost(request.loc, Before(q[1])) \in Int
      /\ \A k \in 2 .. n : k - 1 \in 1 .. n /\ k \in 1 .. n
                           /\ LinkCost(Before(q[k - 1]), Before(q[k])) \in Int
  <2>1. \A k \in 2 .. n : k - 1 \in 1 .. n /\ k \in 1 .. n
    BY <1>1
  <2>2. FirstCost(request.loc, Before(q[1])) \in Int
    BY <1>1, <1>2, CostsAreInts
  <2> HIDE DEF n
  <2> QED BY <1>1, <1>2, <2>1, <2>2, CostsAreInts
<1>5. \A k \in 1 .. n : hop(k) \in Int
  <2>1. TAKE k \in 1 .. n
  <2>2. k = 1 \/ k \in 2 .. n
    BY <1>1
  <2> HIDE DEF n
  <2> QED BY <1>4, <2>2
<1>6. s \in Seq(Int) /\ Len(s) = n /\ RouteCost(q) = Sum(s)
  <2>1. RouteCost(q) = Sum(s)
    BY DEF RouteCost
  <2>2. s \in [1 .. n -> Int]
    BY <1>5
  <2> HIDE DEF s, n
  <2> QED BY <1>1, <2>1, <2>2
<1>7. /\ s[1] = FirstCost(request.loc, Before(q[1]))
      /\ \A k \in 2 .. n : s[k] = LinkCost(Before(q[k - 1]), Before(q[k]))
  <2>1. \A k \in 2 .. n : k \in 1 .. n /\ k # 1
    BY <1>1
  <2> HIDE DEF n
  <2> QED BY <1>1, <2>1
<1> HIDE DEF s
<1>8. PICK u \in [0 .. n -> Int] :
         /\ u[0] = 0
         /\ \A k \in 1 .. n : u[k] = u[k - 1] + s[k]
         /\ Sum(s) = u[n]
  BY <1>6, PartialSums
<1> DEFINE t == [k \in 1 .. n |-> u[k]]
<1>9. t \in [1 .. n -> Int] /\ t[1] = FirstCost(request.loc, Before(q[1]))
      /\ RouteCost(q) = t[n]
  <2>1. u[1] = u[0] + s[1]
    BY <1>1, <1>8
  <2>2. u[1] = FirstCost(request.loc, Before(q[1]))
    BY <1>4, <1>7, <1>8, <2>1
  <2> HIDE DEF n
  <2> QED BY <1>1, <1>6, <1>8, <2>2
<1>10. ASSUME NEW k \in 1 .. n, k < n
       PROVE  /\ LinkCost(Before(q[k]), Before(q[k + 1])) \in Int
              /\ t[k + 1] = t[k] + LinkCost(Before(q[k]), Before(q[k + 1]))
  <2>1. k + 1 \in 2 .. n /\ k + 1 \in 1 .. n /\ (k + 1) - 1 = k
    BY <1>1, <1>10
  <2> HIDE DEF n
  <2> QED BY <1>4, <1>7, <1>8, <2>1
<1> HIDE DEF t
<1> QED BY <1>9, <1>10

\* Along every route, the search either knows a way to the node at hand that
\* costs no more, or still has an entry to work off that costs no more, or so
\* many nodes are nearer that the hop limit may have cut it off.
LEMMA FrontierBeforeRoutes ==
    ASSUME MeshInv, WaySound, Forest, MeshSane, Frontier, Searching, NEW q \in Routes
    PROVE  (\E f \in open : f.cost <= RouteCost(q)) \/ Hidden(q)
<1>1. /\ phase = "search" /\ ~tainted /\ LiveSane
      /\ SourcesSeen /\ NoneForgotten
  BY DEF Searching, Frontier, MeshSane
<1>2. /\ q \in Seq(Id) /\ Len(q) \in Nat /\ Len(q) >= 1 /\ IsRoute(q)
      /\ \A k \in 1 .. Len(q) : q[k] \in Id /\ Registered(q[k])
  BY RoutesAreSequences
<1>3. \A i : Before(i) = NodeOf(i)
  BY <1>1, NoDebitYet
<1> DEFINE n == Len(q)
<1>4. \E t \in [1 .. Len(q) -> Int] :
              /\ t[1] = FirstCost(request.loc, Before(q[1]))
              /\ \A k \in 1 .. Len(q) : k < Len(q) =>
                    /\ LinkCost(Before(q[k]), Before(q[k + 1])) \in Int
                    /\ t[k + 1] = t[k] + LinkCost(Before(q[k]), Before(q[k + 1]))
              /\ RouteCost(q) = t[Len(q)]
  BY <1>1, <1>2, RouteSums
<1>5. PICK t \in [1 .. n -> Int] :
         /\ t[1] = FirstCost(request.loc, NodeOf(q[1]))
         /\ \A k \in 1 .. n : k < n =>
               /\ LinkCost(NodeOf(q[k]), NodeOf(q[k + 1])) \in Int
               /\ t[k + 1] = t[k] + LinkCost(NodeOf(q[k]), NodeOf(q[k + 1]))
         /\ RouteCost(q) = t[n]
  BY <1>3, <1>4
<1>6. n \in Nat /\ 1 \in 1 .. n /\ n \in 1 .. n /\ DOMAIN q = 1 .. n
  BY <1>2
<1>7. /\ id2PtrMap[q[1]] \in InRange(request.loc)
      /\ \A k \in 1 .. n : Usable(NodeOf(q[k]), request)
      /\ NodeOf(q[n]).gateway
  BY <1>2, <1>3, <1>6 DEF IsRoute
<1>8. \A k \in 1 .. n : k < n => k + 1 \in 1 .. n /\ Way(q[k], q[k + 1])
  <2>1. TAKE k \in 1 .. n
  <2>2. HAVE k < n
  <2>3. k \in 1 .. n - 1 /\ k + 1 \in 1 .. n
    BY <1>6, <2>2
  <2>4. id2PtrMap[q[k + 1]] \in NodeOf(q[k]).adjacency
    BY <1>2, <2>3 DEF IsRoute
  <2> QED BY <1>2, <1>7, <2>3, <2>4 DEF Way
<1> HIDE DEF n
<1> DEFINE Known(k) == Seen(q[k]) /\ visited[q[k]].cost <= t[k]
           Left(k) == \E f \in open : f.cost <= t[k]
           Past(k) == Cardinality(Within(t[k])) >= HopLimit - 1
           S == {k \in 1 .. n : Known(k) \/ Left(k) \/ Past(k)}
<1>9. ASSUME NEW k \in 1 .. n, Known(k)
      PROVE  Left(k) \/ Expanded(q[k]) \/ (~NodeOf(q[k]).gateway /\ Past(k))
  <2>1. q[k] \in Id
    BY <1>2 DEF n
  <2>2. CASE Queued(q[k])
    BY <1>9, <2>2 DEF Queued
  <2>3. CASE Cut(q[k])
    <3>1. visited[q[k]].cost \in Int /\ t[k] \in Int /\ visited[q[k]].cost <= t[k]
      BY <1>5, <1>9, <2>1 DEF MeshInv, TypeOK, SearchTypeOK
    <3>2. Cardinality(Within(visited[q[k]].cost)) <= Cardinality(Within(t[k]))
          /\ Cardinality(Within(visited[q[k]].cost)) \in Nat
          /\ Cardinality(Within(t[k])) \in Nat
      BY <3>1, MoreWithin
    <3> QED BY <2>3, <3>2, ConstantAssumption DEF Cut
  <2> QED BY <1>1, <1>9, <2>1, <2>2, <2>3 DEF NoneForgotten
<1>10. 1 \in S
  <2>1. id2PtrMap[q[1]] \in Sources(request)
    BY <1>6, <1>7 DEF Sources, NodeOf
  <2>2. q[1] \in Id /\ Registered(q[1])
    BY <1>2, <1>6 DEF n
  <2>3. Known(1)
    BY <1>1, <1>5, <2>1, <2>2 DEF SourcesSeen
  <2> QED BY <1>6, <2>3
<1>11. ASSUME NEW k \in 1 .. n, k \in S, k < n PROVE k + 1 \in S
  <2>1. /\ k + 1 \in 1 .. n /\ Way(q[k], q[k + 1])
        /\ q[k] \in Id /\ q[k + 1] \in Id
        /\ Registered(q[k]) /\ Registered(q[k + 1])
    BY <1>2, <1>8, <1>11 DEF n
  <2> DEFINE link == LinkCost(NodeOf(q[k]), NodeOf(q[k + 1]))
  <2>2. /\ t[k] \in Int /\ t[k + 1] \in Int
        /\ link \in Int /\ t[k + 1] = t[k] + link
    BY <1>5, <1>11, <2>1
  <2>3. link >= 0
    BY <1>1, <2>1, LinkTyped DEF LiveSane
  <2>4. CASE Left(k)
    <3>1. PICK f \in open : f.cost <= t[k]
      BY <2>4
    <3>2. f.cost \in Int
      BY EntriesTyped
    <3> HIDE DEF link
    <3>3. f.cost <= t[k + 1]
      BY <2>2, <2>3, <3>1, <3>2
    <3> QED BY <2>1, <3>3
  <2>5. CASE Known(k) /\ Expanded(q[k])
    <3>1. Seen(q[k + 1]) /\ visited[q[k + 1]].cost <= visited[q[k]].cost + link
      BY <2>1, <2>5 DEF Expanded
    <3>2. visited[q[k]].cost \in Int /\ visited[q[k + 1]].cost \in Int
      BY <2>1 DEF MeshInv, TypeOK, SearchTypeOK
    <3>3. visited[q[k]].cost <= t[k]
      BY <2>5
    <3> HIDE DEF link
    <3>4. Known(k + 1)
      BY <2>2, <3>1, <3>2, <3>3
    <3> QED BY <2>1, <3>4
  <2>6. CASE Past(k)
    <3> HIDE DEF link
    <3>1. Cardinality(Within(t[k])) <= Cardinality(Within(t[k + 1]))
          /\ Cardinality(Within(t[k])) \in Nat /\ Cardinality(Within(t[k + 1])) \in Nat
      <4>1. t[k] <= t[k + 1]
        BY <2>2, <2>3
      <4> QED BY <2>2, <4>1, MoreWithin
    <3>2. Past(k + 1)
      BY <2>6, <3>1, ConstantAssumption
    <3> QED BY <2>1, <3>2
  <2> QED BY <1>9, <1>11, <2>4, <2>5, <2>6
<1>12. 1 .. n \subseteq S
  <2> HIDE DEF S
  <2> QED BY <1>6, <1>10, <1>11, Steps
<1>13. Known(n) => Left(n)
  <2>1. ~Expanded(q[n]) /\ NodeOf(q[n]).gateway
    BY <1>7 DEF Expanded
  <2> QED BY <1>6, <1>9, <2>1
<1>14. CASE Past(n) /\ ~Known(n)
  <2>1. q[n] \notin Within(t[n])
    BY <1>14 DEF Within
  <2>2. Within(t[n]) = {i \in Id \ {q[n]} : /\ visited[i].seen
                                            /\ visited[i].parent # NoParent
                                            /\ visited[i].cost <= t[n]}
    BY <2>1 DEF Within, Seen
  <2> QED BY <1>5, <1>14, <2>2 DEF Hidden, n
<1>15. Known(n) \/ Left(n) \/ Past(n)
  BY <1>6, <1>12
<1> QED BY <1>5, <1>13, <1>14, <1>15

LEMMA FrontierJustifiesRefusal ==
    ASSUME MeshInv, WaySound, Forest, MeshSane, Frontier
    PROVE  RefusalIsJustified
<1>1. SUFFICES ASSUME phase = "search", open = {}, ~tainted,
                      NEW q \in Routes
               PROVE  Hidden(q)
  BY DEF RefusalIsJustified
<1>2. Searching
  BY <1>1 DEF Searching
<1> QED BY <1>1, <1>2, FrontierBeforeRoutes

\* The gateway that was popped, while the walk goes back from it.
Gate == IF route = <<>> THEN cursor ELSE Last(route)

GateIsCheapest ==
    (phase = "reserve" /\ ~tainted) =>
        \A q \in Routes : visited[Gate].cost <= RouteCost(q) \/ Hidden(q)

LEMMA FoundGatewayIsCheapest ==
    ASSUME MeshInv, WaySound, Forest, MeshSane, Frontier, FoundGateway
    PROVE  GateIsCheapest'
<1>1. /\ phase = "search" /\ route = <<>>
      /\ UNCHANGED <<mesh, request, visited, route, tainted>>
  BY DEF FoundGateway, WaySound, WalkSound
<1>2. PICK e \in Tops : cursor' = e.id
  BY DEF FoundGateway
<1>3. SUFFICES ASSUME ~tainted
               PROVE  GateIsCheapest'
  BY <1>1 DEF GateIsCheapest
<1>4. Searching
  BY <1>1, <1>3 DEF Searching
<1>5. e \in open /\ \A f \in open : e.cost <= f.cost
  BY DEF Tops
<1>6. e.id \in Id /\ e.cost \in Int /\ visited[e.id].cost <= e.cost
      /\ visited[e.id].cost \in Int
  BY <1>1, <1>3, <1>5, EntriesTyped DEF Forest, MeshInv, TypeOK, SearchTypeOK
<1>7. Routes' = Routes /\ \A q : RouteCost(q)' = RouteCost(q)
  BY <1>1 DEF Routes, IsRoute, RouteCost, Before, NodeOf, Registered, InRange, mesh
<1>8. ASSUME NEW q \in Routes, ~Hidden(q) PROVE visited[e.id].cost <= RouteCost(q)
  <2>1. PICK f \in open : f.cost <= RouteCost(q)
    BY <1>4, <1>8, FrontierBeforeRoutes
  <2>2. f.cost \in Int
    BY EntriesTyped
  <2>3. RouteCost(q) \in Int
    <3>1. /\ q \in Seq(Id) /\ Len(q) \in Nat /\ Len(q) >= 1
          /\ \A k \in 1 .. Len(q) : Registered(q[k])
      BY RoutesAreSequences
    <3>2. PICK t \in [1 .. Len(q) -> Int] : RouteCost(q) = t[Len(q)]
      BY <1>1, <3>1, RouteSums
    <3>3. Len(q) \in 1 .. Len(q)
      BY <3>1
    <3> QED BY <3>2, <3>3
  <2> QED BY <1>5, <1>6, <2>1, <2>2, <2>3
<1>9. \A q : Hidden(q)' <=> Hidden(q)
  BY <1>1, <1>7 DEF Hidden
<1> QED BY <1>1, <1>2, <1>7, <1>8, <1>9 DEF GateIsCheapest, Gate

LEMMA ReserveNodeStaysCheapest ==
    ASSUME MeshInv, WaySound, Forest, GateIsCheapest, ReserveNode
    PROVE  GateIsCheapest'
<1>1. SUFFICES ASSUME ~tainted
               PROVE  GateIsCheapest'
  BY DEF GateIsCheapest, ReserveNode
<1>2. /\ phase = "reserve" /\ UNCHANGED <<id2PtrMap, request, visited>>
      /\ route' = <<cursor>> \o route /\ route \in Seq(Id)
  BY DEF ReserveNode, MeshInv, TypeOK, SearchTypeOK
<1>3. PICK l \in Loc : l = request.loc
  <2>1. request \in Request
    BY <1>2 DEF MeshInv, TypeOK, SearchTypeOK
  <2> QED BY <2>1, ConstantAssumption
<1>4. /\ \A i : Registered(i)' <=> Registered(i)
      /\ \A i : Registered(i) =>
            /\ Before(i)' = Before(i)
            /\ NodeOf(i)'.gateway = NodeOf(i).gateway
            /\ NodeOf(i)'.adjacency = NodeOf(i).adjacency
      /\ InRange(l)' = InRange(l) /\ cursor \in Id
  BY <1>1, BeforeKept, Debits
<1>5. Gate' = Gate
  <2>1. <<cursor>> \o route # <<>>
        /\ Last(<<cursor>> \o route) = IF route = <<>> THEN cursor ELSE Last(route)
    BY <1>2, <1>4, Pushed
  <2> QED BY <1>2, <2>1 DEF Gate
<1>6. ASSUME NEW q, q \in Routes'
      PROVE  q \in Routes /\ RouteCost(q)' = RouteCost(q)
  <2> DEFINE known == {i \in Id : Registered(i)}
  <2>1. {i \in Id : Registered(i)'} = known
    BY <1>4
  <2>2. PICK n \in 1 .. Cardinality(known) : q \in Injection(1 .. n, known)
    BY <1>6, <2>1 DEF Routes
  <2>3. Cardinality(known) \in Nat
    BY WithinIsFinite
  <2>4. n \in Nat /\ n >= 1 /\ q \in [1 .. n -> known] /\ DOMAIN q = 1 .. n
    BY <2>2, <2>3 DEF Injection
  <2>5. Len(q) = n /\ \A k \in 1 .. n : Registered(q[k])
    BY <2>4
  <2>6. /\ \A k \in 1 .. n : Before(q[k])' = Before(q[k])
        /\ \A k \in 1 .. n : NodeOf(q[k])'.adjacency = NodeOf(q[k]).adjacency
        /\ \A k \in 1 .. n : NodeOf(q[k])'.gateway = NodeOf(q[k]).gateway
    BY <1>4, <2>5
  <2>7. IsRoute(q)'
    BY <1>6 DEF Routes
  <2>8. IsRoute(q)
    <3>1. id2PtrMap[q[1]] \in InRange(request.loc)
      <4>1. id2PtrMap'[q[1]] \in InRange(request.loc)'
        BY <2>7 DEF IsRoute
      <4>2. InRange(request.loc)' = InRange(l)'
        BY <1>2, <1>3 DEF InRange
      <4> QED BY <1>2, <1>3, <1>4, <4>1, <4>2
    <3>2. \A k \in DOMAIN q : Usable(Before(q[k]), request)
      BY <1>2, <2>4, <2>6, <2>7 DEF IsRoute, Usable
    <3>3. \A k \in 1 .. Len(q) - 1 : id2PtrMap[q[k + 1]] \in NodeOf(q[k]).adjacency
      <4>1. \A k \in 1 .. Len(q) - 1 :
               id2PtrMap'[q[k + 1]] \in NodeOf(q[k])'.adjacency
        BY <2>7 DEF IsRoute
      <4>2. \A k \in 1 .. Len(q) - 1 : k \in 1 .. n
        BY <2>4, <2>5
      <4> QED BY <1>2, <2>6, <4>1, <4>2
    <3>4. NodeOf(q[Len(q)]).gateway
      <4>1. NodeOf(q[Len(q)])'.gateway
        BY <2>7 DEF IsRoute
      <4>2. Len(q) \in 1 .. n
        BY <2>4, <2>5
      <4> QED BY <2>6, <4>1, <4>2
    <3> QED BY <3>1, <3>2, <3>3, <3>4 DEF IsRoute
  <2>9. q \in Routes
    BY <2>2, <2>8 DEF Routes
  <2>10. RouteCost(q)' = RouteCost(q)
    <3> DEFINE s == [k \in 1 .. Len(q) |->
                       IF k = 1 THEN FirstCost(request.loc, Before(q[1]))
                                ELSE LinkCost(Before(q[k - 1]), Before(q[k]))]
               u == [k \in 1 .. Len(q) |->
                       IF k = 1 THEN FirstCost(request.loc, Before(q[1])')
                                ELSE LinkCost(Before(q[k - 1])', Before(q[k])')]
    <3>1. \A k \in 1 .. Len(q) : k # 1 => k - 1 \in 1 .. n /\ k \in 1 .. n
      BY <2>4, <2>5
    <3>2. 1 \in 1 .. n
      BY <2>4
    <3>3. u = s
      BY <2>6, <3>1, <3>2
    <3>4. RouteCost(q) = Sum(s)
      BY DEF RouteCost
    <3>5. RouteCost(q)' = Sum(u)
      BY <1>2 DEF RouteCost
    <3> HIDE DEF s, u
    <3> QED BY <3>3, <3>4, <3>5
  <2> QED BY <2>9, <2>10
<1>7. \A q \in Routes : visited[Gate].cost <= RouteCost(q) \/ Hidden(q)
  BY <1>1, <1>2 DEF GateIsCheapest
<1>8. ASSUME NEW q, q \in Routes' PROVE Hidden(q) => Hidden(q)'
  BY <1>2, <1>6, <1>8 DEF Hidden
<1> QED BY <1>2, <1>5, <1>6, <1>7, <1>8 DEF GateIsCheapest

LEMMA NextKeepsGate ==
    ASSUME MeshInv, WaySound, Forest, MeshSane, Frontier, GateIsCheapest, [Next]_vars
    PROVE  GateIsCheapest'
<1>1. CASE \/ \E b \in Batch : InitialReboot(b)
           \/ \E p \in Joining : AddNode(p)
           \/ \E i \in Id : RemoveNode(i)
           \/ \E k \in DOMAIN tokens, cleared \in BOOLEAN : RemoveUser(k, cleared)
           \/ NoRoute \/ ReserveFails \/ GrantRoute \/ Restart
  BY <1>1, IdleSteps DEF EndsIdle, GateIsCheapest
<1>2. CASE (\E r \in Request : StartSearch(r)) \/ SkipMissing \/ HopLimitReached \/ Relax
  BY <1>2 DEF StartSearch, SkipMissing, HopLimitReached, Relax, GateIsCheapest
<1>3. CASE FoundGateway
  BY <1>3, FoundGatewayIsCheapest
<1>4. CASE ReserveNode
  BY <1>4, ReserveNodeStaysCheapest
<1>5. CASE UNCHANGED vars
  <2>1. UNCHANGED <<mesh, phase, request, visited, route, cursor, tainted>>
    BY <1>5 DEF vars, search
  <2>2. Routes' = Routes /\ \A q : RouteCost(q)' = RouteCost(q)
    BY <2>1 DEF Routes, IsRoute, RouteCost, Before, NodeOf, Registered, InRange, mesh
  <2>3. \A q : Hidden(q)' <=> Hidden(q)
    BY <2>1, <2>2 DEF Hidden
  <2> QED BY <2>1, <2>2, <2>3 DEF GateIsCheapest, Gate
<1> QED BY <1>1, <1>2, <1>3, <1>4, <1>5 DEF Next, SearchStep

\* The walk does not cost more than what the search wrote down at the gateway.
LEMMA WalkCost ==
    ASSUME MeshInv, WaySound, Forest, phase = "reserve", ~tainted, cursor = NoParent
    PROVE  /\ RouteCost(route) \in Int /\ route # <<>> /\ Last(route) \in Id
           /\ RouteCost(route) <= visited[Last(route)].cost
<1>1. /\ Walked(route, NoParent) /\ route \in Seq(Id) /\ route # <<>>
      /\ \A i \in Id : Seen(i) => Rooted(i)
  BY DEF WaySound, WalkSound, Walked, Forest, MeshInv, TypeOK, SearchTypeOK
<1> DEFINE n == Len(route)
<1>2. n \in Nat /\ n >= 1 /\ 1 \in 1 .. n /\ n \in 1 .. n
      /\ \A k \in 1 .. n : route[k] \in Id
  BY <1>1
<1>3. /\ \A k \in 1 .. n : Registered(route[k]) /\ Rooted(route[k])
      /\ Parent(route[1]) = NoParent
      /\ \A k \in 2 .. n : Parent(route[k]) = route[k - 1]
  BY <1>1, <1>2 DEF Walked
<1>4. PICK t \in [1 .. n -> Int] :
         /\ t[1] = FirstCost(request.loc, Before(route[1]))
         /\ \A k \in 1 .. n : k < n =>
               /\ LinkCost(Before(route[k]), Before(route[k + 1])) \in Int
               /\ t[k + 1] = t[k] + LinkCost(Before(route[k]), Before(route[k + 1]))
         /\ RouteCost(route) = t[n]
  <2>1. phase # "idle"
    OBVIOUS
  <2> QED BY <1>1, <1>2, <1>3, <2>1, RouteSums
<1>5. Last(route) = route[n]
  BY DEF Last
<1>6. \A k \in 1 .. n : visited[route[k]].cost \in Int
  BY <1>2 DEF MeshInv, TypeOK, SearchTypeOK
<1> HIDE DEF n
<1> DEFINE S == {k \in 1 .. n : t[k] <= visited[route[k]].cost}
<1>7. 1 \in S
  BY <1>2, <1>3, <1>4 DEF Rooted, FromUser
<1>8. ASSUME NEW k \in 1 .. n, k \in S, k < n PROVE k + 1 \in S
  <2>1. k + 1 \in 1 .. n /\ k + 1 \in 2 .. n /\ (k + 1) - 1 = k
    BY <1>2, <1>8
  <2>2. Parent(route[k + 1]) = route[k] /\ route[k] # NoParent
    BY <1>2, <1>3, <2>1, RouterAssumption
  <2>3. visited[route[k]].cost + LinkCost(Before(route[k]), Before(route[k + 1]))
           <= visited[route[k + 1]].cost
    BY <1>3, <2>1, <2>2 DEF Rooted, FromNode
  <2>4. /\ LinkCost(Before(route[k]), Before(route[k + 1])) \in Int
        /\ t[k + 1] = t[k] + LinkCost(Before(route[k]), Before(route[k + 1]))
        /\ t[k] \in Int /\ t[k + 1] \in Int
    BY <1>4, <1>8, <2>1
  <2>5. t[k + 1] <= visited[route[k + 1]].cost
    BY <1>6, <1>8, <2>1, <2>3, <2>4
  <2> QED BY <2>1, <2>5
<1>9. 1 .. n \subseteq S
  <2> HIDE DEF S
  <2> QED BY <1>2, <1>7, <1>8, Steps
<1>10. t[n] <= visited[route[n]].cost /\ t[n] \in Int /\ route[n] \in Id
  BY <1>2, <1>4, <1>9
<1> QED BY <1>1, <1>4, <1>5, <1>10

LEMMA GateGrantsCheapest ==
    ASSUME MeshInv, WaySound, Forest, GateIsCheapest
    PROVE  GrantedPathIsCheapest
<1>1. SUFFICES ASSUME phase = "reserve", cursor = NoParent, ~tainted,
                      NEW q \in Routes, ~Hidden(q)
               PROVE  RouteCost(route) <= RouteCost(q)
  BY DEF GrantedPathIsCheapest
<1>2. /\ RouteCost(route) \in Int /\ route # <<>> /\ Last(route) \in Id
      /\ RouteCost(route) <= visited[Last(route)].cost
  BY <1>1, WalkCost
<1>3. visited[Last(route)].cost <= RouteCost(q)
  BY <1>1, <1>2 DEF GateIsCheapest, Gate
<1>4. RouteCost(q) \in Int
  <2>1. /\ q \in Seq(Id) /\ Len(q) \in Nat /\ Len(q) >= 1
        /\ \A k \in 1 .. Len(q) : Registered(q[k])
    BY RoutesAreSequences
  <2>2. phase # "idle"
    BY <1>1
  <2>3. PICK t \in [1 .. Len(q) -> Int] : RouteCost(q) = t[Len(q)]
    BY <2>1, <2>2, RouteSums
  <2>4. Len(q) \in 1 .. Len(q)
    BY <2>1
  <2> QED BY <2>3, <2>4
<1>5. visited[Last(route)].cost \in Int
  BY <1>2 DEF MeshInv, TypeOK, SearchTypeOK
<1> QED BY <1>2, <1>3, <1>4, <1>5

\* On a mesh of at most HopLimit nodes the limit hides no route: the nodes it
\* counts would be all but the gateway, one of them reached from the gateway.
NothingIsHidden ==
    (/\ phase # "idle" /\ ~tainted /\ HopLimit > 1
     /\ Cardinality({i \in Id : Registered(i)}) <= HopLimit)
    => \A q \in Routes : ~Hidden(q)

LEMMA SmallMeshHidesNothing ==
    ASSUME MeshInv, WaySound, Forest
    PROVE  NothingIsHidden
<1> DEFINE known == {i \in Id : Registered(i)}
<1>1. SUFFICES ASSUME phase # "idle", ~tainted, HopLimit > 1,
                      Cardinality(known) <= HopLimit, NEW q \in Routes, Hidden(q)
               PROVE  FALSE
  BY DEF NothingIsHidden
<1>2. PICK g \in known : g = q[Len(q)] /\ NodeOf(g).gateway
  <2>1. /\ Len(q) \in Nat /\ Len(q) >= 1 /\ IsRoute(q)
        /\ \A k \in 1 .. Len(q) : q[k] \in Id /\ Registered(q[k])
    BY RoutesAreSequences
  <2>2. Len(q) \in 1 .. Len(q)
    BY <2>1
  <2> QED BY <2>1, <2>2 DEF IsRoute
<1> DEFINE S == {i \in Id \ {g} : /\ visited[i].seen /\ visited[i].parent # NoParent
                                  /\ visited[i].cost <= RouteCost(q)}
           rest == known \ {g}
<1>3. Cardinality(S) >= HopLimit - 1
  BY <1>1, <1>2 DEF Hidden
<1>4. S \in SUBSET {i \in Id : Seen(i)} /\ S \subseteq rest
      /\ \A i \in S : Parent(i) # NoParent /\ Rooted(i) /\ Parent(i) \in Id
  BY <1>1 DEF Forest, Seen, Parent, Rooted, WaySound, SearchSound, Reached
<1>5. Cardinality(rest) = Cardinality(known) - 1
      /\ IsFiniteSet(rest) /\ Cardinality(known) \in Nat
  BY <1>2, WithinIsFinite, FS_RemoveElement
<1>6. S = rest /\ S # {}
  <2> HIDE DEF S, rest, known
  <2>1. IsFiniteSet(S) /\ Cardinality(S) <= Cardinality(rest)
        /\ (Cardinality(S) = Cardinality(rest) => S = rest)
    BY <1>4, <1>5, FS_Subset
  <2>2. Cardinality(S) \in Nat
    BY <2>1, FS_CardinalityType
  <2>3. Cardinality(S) # 0
    BY <1>1, <1>3, <2>2, ConstantAssumption
  <2> QED BY <1>1, <1>3, <1>5, <2>1, <2>2, <2>3, FS_EmptySet, ConstantAssumption
<1>7. PICK i \in S : Parent(i) \notin S
  <2> HIDE DEF S
  <2> QED BY <1>1, <1>4, <1>6 DEF Forest, Grounded
<1>8. Parent(i) \in known /\ ~NodeOf(Parent(i)).gateway
  <2>1. Seen(Parent(i)) /\ Rooted(Parent(i)) /\ FromNode(i, Parent(i))
    <3>1. Seen(i) /\ i \in Id
      BY <1>4, <1>7
    <3>2. Reached(i)
      BY <1>1, <3>1 DEF WaySound, SearchSound
    <3>3. Seen(Parent(i))
      BY <1>4, <1>7, <3>2 DEF Reached
    <3> HIDE DEF S
    <3> QED BY <1>1, <1>4, <1>7, <3>1, <3>3 DEF Forest, Rooted
  <2> QED BY <1>4, <1>7, <2>1 DEF FromNode, Rooted
<1>9. Parent(i) = g
  <2> HIDE DEF S
  <2> QED BY <1>6, <1>7, <1>8
<1> QED BY <1>2, <1>8, <1>9

\* Granted paths, also those with stale entries on them, are no longer than the
\* mesh has nodes.
GrantedPathFits ==
    (phase = "reserve" /\ cursor = NoParent) =>
        Len(route) <= Cardinality({i \in Id : Registered(i)})

LEMMA WalkFits ==
    ASSUME MeshInv, WaySound
    PROVE  GrantedPathFits
<1> DEFINE known == {i \in Id : Registered(i)}
<1>1. SUFFICES ASSUME phase = "reserve", cursor = NoParent
               PROVE  Len(route) <= Cardinality(known)
  BY DEF GrantedPathFits
<1> DEFINE n == Len(route)
<1>2. /\ n \in Nat /\ route \in Seq(Id) /\ DOMAIN route = 1 .. n
      /\ \A k \in 1 .. n : route[k] \in known
  BY <1>1 DEF WaySound, WalkSound, Walked, MeshInv, TypeOK, SearchTypeOK
<1>3. IsInjective(route)
  BY <1>1, WalkIsInjective
<1>4. route \in Injection(1 .. n, known)
  <2>1. route \in [1 .. n -> known]
    BY <1>2
  <2> QED BY <1>3, <2>1 DEF Injection
<1>5. IsFiniteSet(known)
  BY WithinIsFinite
<1>6. Cardinality(1 .. n) <= Cardinality(known)
  BY <1>4, <1>5, FS_Injection
<1>7. Cardinality(1 .. n) = n
  BY <1>2, FS_Interval
<1> QED BY <1>6, <1>7

=============================================================================
