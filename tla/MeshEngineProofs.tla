--------------------------- MODULE MeshEngineProofs ---------------------------
(***************************************************************************)
(* Proofs about MeshEngine for every mesh, every batch and every sequence  *)
(* of RPCs: the types (no bandwidth below zero, no hop beyond the limit),  *)
(* the agreement of the quadtree with the map that owns the nodes, and the *)
(* links between neighbours.                                               *)
(***************************************************************************)
EXTENDS MeshEngine, TLAPS

\* A cell that holds a node only points to cells that hold or held one: what a
\* search reads through a dangling pointer still has the shape of a node.
LinksPointToNodes ==
    \A a \in Addr : heap[a] # Blank =>
        \A b \in heap[a].adjacency : heap[b] # Blank

\* The inductive invariant.
MeshInv == TypeOK /\ IndexMatchesTree /\ LinksPointToNodes

USE DEF NoParent

-----------------------------------------------------------------------------
(* Arithmetic of the search. *)

\* The cost terms of dijkstra.cpp's calculateCost are integers on any two cells.
LEMMA CostsAreInts ==
    ASSUME NEW l \in Loc, NEW c \in Cell, NEW d \in Cell
    PROVE  /\ Load(c) \in Int
           /\ FirstCost(l, c) \in Int
           /\ LinkCost(c, d) \in Int
<1>1. \A x \in Cell : Load(x) \in Int
  <2>1. TAKE x \in Cell
  <2>2. x.total \in Nat \ {0} /\ x.available \in Nat
    BY DEF Cell
  <2>3. Scale \div x.total \in Int
    BY <2>2, ConstantAssumption
  <2>4. x.total - x.available \in Int
    BY <2>2
  <2> QED BY <2>3, <2>4 DEF Load
<1>2. Dist[l][c.loc] \in Int /\ Dist[c.loc][d.loc] \in Int
  BY ConstantAssumption DEF Cell
<1>3. c.latency \in Int /\ d.latency \in Int /\ Scale \in Int
  BY ConstantAssumption DEF Cell
<1>4. 2 * Scale * Dist[l][c.loc] \in Int /\ 2 * Scale * Dist[c.loc][d.loc] \in Int
  BY <1>2, <1>3
<1>5. 5 * Scale * c.latency \in Int /\ 5 * Scale * (c.latency + d.latency) \in Int
  BY <1>3
<1>6. Load(c) \in Int /\ Load(d) \in Int
  BY <1>1
<1> QED BY <1>4, <1>5, <1>6 DEF FirstCost, LinkCost

\* No two ids share a node: the map owns each cell once.
LEMMA OwnedOnce ==
    ASSUME IndexMatchesTree, NEW i \in Id, NEW j \in Id,
           Registered(i), id2PtrMap[i] = id2PtrMap[j]
    PROVE  i = j
BY DEF IndexMatchesTree, Registered, NodeOf

\* What a pointer in the tree or under an id leads to.
LEMMA LiveCells ==
    ASSUME TypeOK, IndexMatchesTree
    PROVE  /\ \A i \in Id : Registered(i) =>
                 id2PtrMap[i] \in tree /\ NodeOf(i) \in Cell
           /\ \A a \in tree : heap[a] \in Cell /\
                 \E i \in Id : Registered(i) /\ id2PtrMap[i] = a
BY ConstantAssumption
   DEF TypeOK, MeshTypeOK, IndexMatchesTree, Live, Registered, NodeOf

-----------------------------------------------------------------------------
(* The initial state. *)

LEMMA InitEstablishesInv == Init => MeshInv
<1> SUFFICES ASSUME Init PROVE MeshInv
  OBVIOUS
<1> USE ConstantAssumption DEF Init
<1>1. MeshTypeOK
  BY DEF MeshTypeOK
<1>2. SearchTypeOK
  BY DEF SearchTypeOK, Unvisited
<1>3. TokenTypeOK
  <2>1. tokens \in Seq(Token)
    OBVIOUS
  <2>2. linked \in BOOLEAN /\ tainted \in BOOLEAN
    OBVIOUS
  <2> QED BY <2>1, <2>2 DEF TokenTypeOK
<1>4. IndexMatchesTree
  BY DEF IndexMatchesTree, Live, Registered
<1>5. LinksPointToNodes
  BY DEF LinksPointToNodes
<1> QED BY <1>1, <1>2, <1>3, <1>4, <1>5 DEF MeshInv, TypeOK

-----------------------------------------------------------------------------
(* RPCs on the mesh. *)

\* A message that validateNodePayload lets through makes a well-formed node.
LEMMA NewCellIsACell ==
    ASSUME NEW p \in Payload, ValidPayload(p), NEW adjacency \in SUBSET Addr
    PROVE  NewCell(p, adjacency) \in Cell
<1>1. p \in [id : Id, loc : Loc, total : Int, available : Int,
             gateway : BOOLEAN, latency : Int]
  BY ConstantAssumption
<1>2. p.total \in Nat \ {0} /\ p.available \in Nat
  BY <1>1 DEF ValidPayload
<1>3. p.id \in Id /\ p.loc \in Loc /\ p.gateway \in BOOLEAN /\ p.latency \in Int
  BY <1>1
<1> QED BY <1>2, <1>3 DEF NewCell, Cell

\* Outdating the tokens leaves them tokens.
LEMMA OutdatedTokens ==
    ASSUME tokens \in Seq(Token)
    PROVE  Outdated \in Seq(Token)
<1>1. \A t \in Token : Outdate(t) \in Token
  BY DEF Outdate, Token
<1> QED BY <1>1 DEF Outdated

\* What createAdjacencyList gives the k-th of the n nodes placed.
NearPlaced(b, n, place, k) ==
    {place[j] : j \in {m \in 1 .. n : n = Len(b) /\ b[m].loc \in Near[b[k].loc]}}

\* InitialReboot in terms of where it puts the accepted entries.
Placed(b, n, place) ==
    /\ place \in [1 .. n -> Addr]
    /\ \A j, k \in 1 .. n : place[j] = place[k] => j = k
    /\ \A k \in 1 .. n :
          /\ b[k] \in Payload /\ b[k].id \in Id /\ ValidPayload(b[k])
          /\ \A j \in 1 .. n : b[j].id = b[k].id => j = k
    /\ \A k \in 1 .. n :
          heap'[place[k]] = NewCell(b[k], NearPlaced(b, n, place, k))
    /\ \A a \in Addr : ~(\E k \in 1 .. n : place[k] = a) => heap'[a] = Blank
    /\ heap' = [a \in Addr |-> heap'[a]]
    /\ id2PtrMap' = [i \in Id |->
          IF \E k \in 1 .. n : b[k].id = i
          THEN place[CHOOSE k \in 1 .. n : b[k].id = i]
          ELSE NoAddr]
    /\ tree' = {place[k] : k \in 1 .. n}
    /\ linked' = (n = Len(b))

LEMMA InitialRebootPlaces ==
    ASSUME NEW b \in Batch, InitialReboot(b)
    PROVE  \E n \in 0 .. Len(b) : \E place \in Placements[n] : Placed(b, n, place)
<1>1. PICK n \in 0 .. Len(b) :
        /\ Accepts(b, n)
        /\ \E place \in Placements[n] :
              /\ heap' = [a \in Addr |->
                   IF \E k \in 1 .. n : place[k] = a
                   THEN LET k == CHOOSE k \in 1 .. n : place[k] = a
                        IN NewCell(b[k],
                             {place[j] : j \in {m \in 1 .. n :
                                  n = Len(b) /\ b[m].loc \in Near[b[k].loc]}})
                   ELSE Blank]
              /\ id2PtrMap' = [i \in Id |->
                   IF \E k \in 1 .. n : b[k].id = i
                   THEN place[CHOOSE k \in 1 .. n : b[k].id = i]
                   ELSE NoAddr]
              /\ tree' = {place[k] : k \in 1 .. n}
        /\ linked' = (n = Len(b))
  BY DEF InitialReboot
<1>2. PICK place \in Placements[n] :
        /\ heap' = [a \in Addr |->
             IF \E k \in 1 .. n : place[k] = a
             THEN LET k == CHOOSE k \in 1 .. n : place[k] = a
                  IN NewCell(b[k],
                       {place[j] : j \in {m \in 1 .. n :
                            n = Len(b) /\ b[m].loc \in Near[b[k].loc]}})
             ELSE Blank]
        /\ id2PtrMap' = [i \in Id |->
             IF \E k \in 1 .. n : b[k].id = i
             THEN place[CHOOSE k \in 1 .. n : b[k].id = i]
             ELSE NoAddr]
        /\ tree' = {place[k] : k \in 1 .. n}
  BY <1>1
<1>3. b \in Seq(Payload) /\ Len(b) \in Nat
  BY ConstantAssumption
<1>4. place \in Injection(1 .. n, Addr)
  <2>1. n \in UNION {0 .. Len(c) : c \in Batch}
    OBVIOUS
  <2> QED BY <1>2, <2>1 DEF Placements
<1>5. /\ place \in [1 .. n -> Addr]
      /\ \A j, k \in 1 .. n : place[j] = place[k] => j = k
  BY <1>4 DEF Injection, IsInjective
<1>6. \A k \in 1 .. n :
        /\ b[k] \in Payload /\ b[k].id \in Id /\ ValidPayload(b[k])
        /\ \A j \in 1 .. n : b[j].id = b[k].id => j = k
  <2>1. TAKE k \in 1 .. n
  <2>2. k \in DOMAIN b /\ b[k] \in Payload
    BY <1>3
  <2>3. b[k].id \in Id
    BY <2>2, ConstantAssumption
  <2>4. ValidPayload(b[k])
    BY <1>1 DEF Accepts
  <2>5. \A j \in 1 .. n : j \in DOMAIN b
    BY <1>3
  <2>6. \A j \in 1 .. n : b[j].id = b[k].id => j = k
    BY <2>2, <2>5, CallerAssumption
  <2> QED BY <2>2, <2>3, <2>4, <2>6
<1> DEFINE near(k) == NearPlaced(b, n, place, k)
<1>7. \A k \in 1 .. n : heap'[place[k]] = NewCell(b[k], near(k))
  <2>1. TAKE k \in 1 .. n
  <2>2. place[k] \in Addr /\ (CHOOSE j \in 1 .. n : place[j] = place[k]) = k
    BY <1>5
  <2> QED BY <1>2, <2>2 DEF NearPlaced
<1>8. /\ \A a \in Addr : ~(\E k \in 1 .. n : place[k] = a) => heap'[a] = Blank
      /\ heap' = [a \in Addr |-> heap'[a]]
  BY <1>2
<1>9. Placed(b, n, place)
  BY <1>1, <1>2, <1>5, <1>6, <1>7, <1>8 DEF Placed
<1> QED BY <1>9

LEMMA InitialRebootKeepsInv ==
    ASSUME MeshInv, NEW b \in Batch, InitialReboot(b)
    PROVE  MeshInv'
<1>0. PICK n \in 0 .. Len(b) : \E place \in Placements[n] : Placed(b, n, place)
  BY InitialRebootPlaces
<1>1. PICK place \in Placements[n] : Placed(b, n, place)
  BY <1>0
<1>2. /\ tree' = {place[k] : k \in 1 .. n}
      /\ id2PtrMap' = [i \in Id |->
            IF \E k \in 1 .. n : b[k].id = i
            THEN place[CHOOSE k \in 1 .. n : b[k].id = i]
            ELSE NoAddr]
      /\ \A a \in Addr : ~(\E k \in 1 .. n : place[k] = a) => heap'[a] = Blank
      /\ heap' = [a \in Addr |-> heap'[a]]
  BY <1>1 DEF Placed
<1>5. /\ place \in [1 .. n -> Addr]
      /\ \A j, k \in 1 .. n : place[j] = place[k] => j = k
  BY <1>1 DEF Placed
<1>6. \A k \in 1 .. n :
        /\ b[k] \in Payload /\ b[k].id \in Id /\ ValidPayload(b[k])
        /\ \A j \in 1 .. n : b[j].id = b[k].id => j = k
  BY <1>1 DEF Placed
<1> DEFINE near(k) == NearPlaced(b, n, place, k)
<1>7. \A k \in 1 .. n : heap'[place[k]] = NewCell(b[k], near(k))
  BY <1>1 DEF Placed
<1>8. \A k \in 1 .. n : id2PtrMap'[b[k].id] = place[k]
  <2>1. TAKE k \in 1 .. n
  <2>2. (CHOOSE j \in 1 .. n : b[j].id = b[k].id) = k
    BY <1>6
  <2> QED BY <1>2, <1>6, <2>2
<1>9. \A i \in Id : id2PtrMap'[i] # NoAddr =>
        \E k \in 1 .. n : b[k].id = i /\ id2PtrMap'[i] = place[k]
  BY <1>2, <1>8
<1>10. \A k \in 1 .. n : near(k) \subseteq Addr /\ near(k) \subseteq tree'
  BY <1>2, <1>5 DEF NearPlaced
<1>11. \A k \in 1 .. n : NewCell(b[k], near(k)) \in Cell
  <2>1. TAKE k \in 1 .. n
  <2> QED BY <1>6, <1>10, NewCellIsACell
<1> HIDE DEF near
<1>17. \A k \in 1 .. n : /\ NewCell(b[k], near(k)).id = b[k].id
                         /\ NewCell(b[k], near(k)).adjacency = near(k)
  BY DEF NewCell
<1>12. MeshTypeOK'
  <2>1. heap' \in [Addr -> Cell \cup {Blank}]
    <3>1. ASSUME NEW a \in Addr PROVE heap'[a] \in Cell \cup {Blank}
      <4>1. CASE \E k \in 1 .. n : place[k] = a
        BY <1>7, <1>11, <4>1
      <4>2. CASE ~\E k \in 1 .. n : place[k] = a
        BY <1>2, <4>2
      <4> QED BY <4>1, <4>2
    <3>2. heap' = [a \in Addr |-> heap'[a]]
      BY <1>2
    <3> QED BY <3>1, <3>2
  <2>2. id2PtrMap' \in [Id -> Addr \cup {NoAddr}]
    BY <1>2, <1>5, <1>6, <1>8, <1>9
  <2>3. tree' \subseteq Addr
    BY <1>2, <1>5
  <2> QED BY <2>1, <2>2, <2>3 DEF MeshTypeOK, InitialReboot
<1>13. SearchTypeOK'
  BY DEF MeshInv, TypeOK, SearchTypeOK, InitialReboot, search
<1>14. TokenTypeOK'
  <2>1. linked' \in BOOLEAN
    BY <1>1 DEF Placed
  <2>2. tokens' \in Seq(Token) /\ tainted' \in BOOLEAN
    BY OutdatedTokens DEF MeshInv, TypeOK, TokenTypeOK, InitialReboot
  <2> QED BY <2>1, <2>2 DEF TokenTypeOK
<1>15. IndexMatchesTree'
  <2>1. tree' = Live'
    <3>1. \A k \in 1 .. n : place[k] \in Live'
      <4>1. TAKE k \in 1 .. n
      <4>2. b[k].id \in Id /\ place[k] = id2PtrMap'[b[k].id]
        BY <1>6, <1>8
      <4>3. place[k] # NoAddr
        BY <1>5, ConstantAssumption
      <4> QED BY <4>2, <4>3 DEF Live
    <3>2. \A a \in Live' : \E k \in 1 .. n : a = place[k]
      BY <1>9 DEF Live
    <3> QED BY <1>2, <3>1, <3>2
  <2>2. ASSUME NEW i \in Id, id2PtrMap'[i] # NoAddr
        PROVE  heap'[id2PtrMap'[i]] # Blank /\ heap'[id2PtrMap'[i]].id = i
    <3>1. PICK k \in 1 .. n : b[k].id = i /\ id2PtrMap'[i] = place[k]
      BY <1>9, <2>2
    <3>2. heap'[place[k]] \in Cell
      BY <1>7, <1>11
    <3>3. heap'[place[k]].id = b[k].id
      BY <1>7, <1>17
    <3> QED BY <3>1, <3>2, <3>3, BlankAssumption
  <2> QED BY <2>1, <2>2 DEF IndexMatchesTree, Registered, NodeOf
<1>16. LinksPointToNodes'
  <2>1. SUFFICES ASSUME NEW a \in Addr, heap'[a] # Blank,
                        NEW c \in heap'[a].adjacency
                 PROVE  heap'[c] # Blank
    BY DEF LinksPointToNodes
  <2>2. PICK k \in 1 .. n : place[k] = a
    BY <1>2, <2>1
  <2>3. c \in near(k)
    <3>1. heap'[a].adjacency = near(k)
      BY <1>7, <1>17, <2>2
    <3> QED BY <2>1, <3>1
  <2>4. PICK j \in 1 .. n : c = place[j]
    BY <2>3 DEF near, NearPlaced
  <2> QED BY <1>7, <1>11, <2>4, BlankAssumption
<1> QED BY <1>12, <1>13, <1>14, <1>15, <1>16 DEF MeshInv, TypeOK

\* What updateNode and the destructor leave of a node.
LEMMA UpdatedCells ==
    ASSUME NEW c \in Cell
    PROVE  /\ \A used \in Int : c.available + used >= 0 =>
                 UpdateNode(c, used) \in Cell
           /\ \A used \in Int : /\ UpdateNode(c, used).id = c.id
                                /\ UpdateNode(c, used).loc = c.loc
                                /\ UpdateNode(c, used).adjacency = c.adjacency
           /\ Freed(c) \in Cell
           /\ Freed(c).adjacency = {}
BY DEF Cell, UpdateNode, Freed

LEMMA AddNodeKeepsInv ==
    ASSUME MeshInv, NEW p \in Joining, AddNode(p)
    PROVE  MeshInv'
<1>1. PICK a \in Addr \ Live :
        /\ heap' = [heap EXCEPT ![a] = NewCell(p, InRange(p.loc) \cup {a})]
        /\ id2PtrMap' = [id2PtrMap EXCEPT ![p.id] = a]
        /\ tree' = tree \cup {a}
  BY DEF AddNode
<1> DEFINE cell == NewCell(p, InRange(p.loc) \cup {a})
<1>2. p \in Payload /\ ValidPayload(p) /\ ~Registered(p.id)
  BY ConstantAssumption DEF AddNode
<1>3. p.id \in Id
  BY <1>2, ConstantAssumption
<1>4. tree \subseteq Addr /\ InRange(p.loc) \subseteq tree
  BY DEF MeshInv, TypeOK, MeshTypeOK, InRange
<1>5. cell \in Cell
  BY <1>1, <1>2, <1>4, NewCellIsACell
<1>6. cell.id = p.id /\ cell.adjacency = InRange(p.loc) \cup {a}
  BY DEF NewCell
<1> HIDE DEF cell
<1>7. /\ heap' = [heap EXCEPT ![a] = cell]
      /\ heap \in [Addr -> Cell \cup {Blank}]
      /\ id2PtrMap \in [Id -> Addr \cup {NoAddr}]
  BY <1>1 DEF cell, MeshInv, TypeOK, MeshTypeOK
<1>8. MeshTypeOK'
  <2>1. built' \in BOOLEAN
    BY DEF AddNode, MeshInv, TypeOK, MeshTypeOK
  <2> QED BY <1>1, <1>3, <1>4, <1>5, <1>7, <2>1 DEF MeshTypeOK
<1>9. SearchTypeOK' /\ TokenTypeOK'
  BY DEF MeshInv, TypeOK, SearchTypeOK, TokenTypeOK, AddNode, search
<1>10. IndexMatchesTree'
  <2>1. Live' = Live \cup {a}
    <3>1. id2PtrMap[p.id] = NoAddr /\ a # NoAddr
      BY <1>1, <1>2, <1>3, ConstantAssumption DEF Registered
    <3> QED BY <1>1, <1>3, <1>7, <3>1 DEF Live
  <2>2. ASSUME NEW i \in Id, id2PtrMap'[i] # NoAddr
        PROVE  heap'[id2PtrMap'[i]] # Blank /\ heap'[id2PtrMap'[i]].id = i
    <3>1. CASE i = p.id
      BY <1>1, <1>3, <1>5, <1>6, <1>7, <3>1, BlankAssumption
    <3>2. CASE i # p.id
      <4>1. id2PtrMap'[i] = id2PtrMap[i] /\ id2PtrMap[i] \in Live
        BY <1>1, <1>7, <2>2, <3>2 DEF Live
      <4>2. id2PtrMap[i] # a /\ heap'[id2PtrMap[i]] = heap[id2PtrMap[i]]
        BY <1>1, <1>7, <4>1
      <4> QED BY <2>2, <4>1, <4>2
              DEF MeshInv, IndexMatchesTree, Registered, NodeOf
    <3> QED BY <3>1, <3>2
  <2> QED BY <1>1, <2>1, <2>2
          DEF MeshInv, IndexMatchesTree, Registered, NodeOf
<1>11. LinksPointToNodes'
  <2>1. \A b \in Addr : heap[b] # Blank => heap'[b] # Blank
    BY <1>1, <1>5, <1>7, BlankAssumption
  <2>2. \A b \in tree \cup {a} : heap'[b] # Blank
    BY <1>1, <1>4, <1>5, <1>7, <2>1, LiveCells, BlankAssumption DEF MeshInv
  <2>3. ASSUME NEW b \in Addr, heap'[b] # Blank, NEW c \in heap'[b].adjacency
        PROVE  heap'[c] # Blank
    <3>1. CASE b = a
      BY <1>1, <1>4, <1>6, <1>7, <2>2, <2>3, <3>1
    <3>2. CASE b # a
      <4>1. heap'[b] = heap[b] /\ heap[b] \in Cell
        BY <1>7, <2>3, <3>2
      <4>2. c \in Addr
        BY <2>3, <4>1 DEF Cell
      <4> QED BY <2>1, <2>3, <4>1, <4>2 DEF MeshInv, LinksPointToNodes
    <3> QED BY <3>1, <3>2
  <2> QED BY <2>3 DEF LinksPointToNodes
<1> QED BY <1>8, <1>9, <1>10, <1>11 DEF MeshInv, TypeOK

LEMMA RemoveNodeKeepsInv ==
    ASSUME MeshInv, NEW i \in Id, RemoveNode(i)
    PROVE  MeshInv'
<1> DEFINE a == id2PtrMap[i]
<1>1. /\ heap \in [Addr -> Cell \cup {Blank}]
      /\ id2PtrMap \in [Id -> Addr \cup {NoAddr}]
      /\ tree \subseteq Addr
  BY DEF MeshInv, TypeOK, MeshTypeOK
<1>2. Registered(i) /\ a \in tree /\ a \in Addr /\ heap[a] \in Cell
  BY <1>1, LiveCells DEF RemoveNode, MeshInv, NodeOf
<1>3. /\ heap' = [heap EXCEPT ![a] = Freed(heap[a])]
      /\ tree' = tree \ {a}
      /\ id2PtrMap' = [id2PtrMap EXCEPT ![i] = NoAddr]
  BY DEF RemoveNode, NodeOf
<1>4. Freed(heap[a]) \in Cell /\ Freed(heap[a]).adjacency = {}
  BY <1>2, UpdatedCells
<1>5. \A j \in Id : j # i => id2PtrMap[j] # a
  BY <1>2, OwnedOnce DEF MeshInv
<1> HIDE DEF a
<1>6. MeshTypeOK'
  <2>1. built' \in BOOLEAN
    BY DEF RemoveNode, MeshInv, TypeOK, MeshTypeOK
  <2> QED BY <1>1, <1>2, <1>3, <1>4, <2>1 DEF MeshTypeOK
<1>7. SearchTypeOK' /\ TokenTypeOK'
  BY DEF MeshInv, TypeOK, SearchTypeOK, TokenTypeOK, RemoveNode, search
<1>8. IndexMatchesTree'
  <2>1. Live' = Live \ {a}
    BY <1>1, <1>2, <1>3, <1>5 DEF Live, a
  <2>2. ASSUME NEW j \in Id, id2PtrMap'[j] # NoAddr
        PROVE  heap'[id2PtrMap'[j]] # Blank /\ heap'[id2PtrMap'[j]].id = j
    <3>1. j # i /\ id2PtrMap'[j] = id2PtrMap[j]
      BY <1>1, <1>3, <2>2
    <3>2. id2PtrMap[j] # a /\ id2PtrMap[j] \in Addr
      BY <1>1, <1>5, <2>2, <3>1
    <3>3. heap'[id2PtrMap[j]] = heap[id2PtrMap[j]]
      BY <1>1, <1>3, <3>2
    <3> QED BY <2>2, <3>1, <3>3
            DEF MeshInv, IndexMatchesTree, Registered, NodeOf
  <2> QED BY <1>3, <2>1, <2>2
          DEF MeshInv, IndexMatchesTree, Registered, NodeOf
<1>9. LinksPointToNodes'
  <2>1. \A b \in Addr : heap[b] # Blank => heap'[b] # Blank
    BY <1>1, <1>3, <1>4, BlankAssumption
  <2>2. ASSUME NEW b \in Addr, heap'[b] # Blank, NEW c \in heap'[b].adjacency
        PROVE  heap'[c] # Blank
    <3>1. b # a
      BY <1>1, <1>2, <1>3, <1>4, <2>2
    <3>2. heap'[b] = heap[b] /\ heap[b] \in Cell
      BY <1>1, <1>3, <2>2, <3>1
    <3>3. c \in Addr
      BY <2>2, <3>2 DEF Cell
    <3> QED BY <2>1, <2>2, <3>2, <3>3 DEF MeshInv, LinksPointToNodes
  <2> QED BY <2>2 DEF LinksPointToNodes
<1> QED BY <1>6, <1>7, <1>8, <1>9 DEF MeshInv, TypeOK

-----------------------------------------------------------------------------
(* Steps that only move bandwidth. *)

\* A step that leaves the map, the tree and every node's id and list alone
\* keeps what the mesh is made of.
LEMMA SameShape ==
    ASSUME MeshInv, UNCHANGED <<id2PtrMap, tree, built>>,
           heap' \in [Addr -> Cell \cup {Blank}],
           \A a \in Addr : heap[a] = Blank => heap'[a] = Blank,
           \A a \in Addr : heap[a] # Blank =>
               /\ heap'[a] # Blank
               /\ heap'[a].id = heap[a].id
               /\ heap'[a].adjacency = heap[a].adjacency
    PROVE  MeshTypeOK' /\ IndexMatchesTree' /\ LinksPointToNodes'
<1>1. MeshTypeOK'
  BY DEF MeshInv, TypeOK, MeshTypeOK
<1>2. IndexMatchesTree'
  <2>1. tree' = Live'
    BY DEF MeshInv, IndexMatchesTree, Live
  <2>2. ASSUME NEW i \in Id, id2PtrMap'[i] # NoAddr
        PROVE  heap'[id2PtrMap'[i]] # Blank /\ heap'[id2PtrMap'[i]].id = i
    <3>1. id2PtrMap[i] \in Addr /\ id2PtrMap'[i] = id2PtrMap[i]
      BY <2>2 DEF MeshInv, TypeOK, MeshTypeOK
    <3>2. heap[id2PtrMap[i]] # Blank /\ heap[id2PtrMap[i]].id = i
      BY <2>2, <3>1 DEF MeshInv, IndexMatchesTree, Registered, NodeOf
    <3> QED BY <3>1, <3>2
  <2> QED BY <2>1, <2>2 DEF IndexMatchesTree, Registered, NodeOf
<1>3. LinksPointToNodes'
  <2>1. ASSUME NEW a \in Addr, heap'[a] # Blank, NEW b \in heap'[a].adjacency
        PROVE  heap'[b] # Blank
    <3>1. heap[a] # Blank /\ b \in heap[a].adjacency
      BY <2>1
    <3>2. heap[b] # Blank /\ b \in Addr
      BY <3>1 DEF MeshInv, LinksPointToNodes, TypeOK, MeshTypeOK, Cell
    <3> QED BY <3>2
  <2> QED BY <2>1 DEF LinksPointToNodes
<1> QED BY <1>1, <1>2, <1>3

\* A step that leaves the whole mesh alone does too.
LEMMA SameMesh ==
    ASSUME MeshInv, UNCHANGED mesh
    PROVE  MeshTypeOK' /\ IndexMatchesTree' /\ LinksPointToNodes'
BY DEF MeshInv, TypeOK, mesh, MeshTypeOK, IndexMatchesTree, LinksPointToNodes,
       Live, Registered, NodeOf

\* Taking a token out of the browsers' hands leaves tokens.
LEMMA TokensLeft ==
    ASSUME tokens \in Seq(Token), NEW k \in DOMAIN tokens
    PROVE  /\ RemoveAt(tokens, k) \in Seq(Token)
           /\ [tokens EXCEPT ![k] = Returned(tokens[k])] \in Seq(Token)
<1>1. Returned(tokens[k]) \in Token
  <2>1. \A t \in Token : Returned(t) \in Token
    BY DEF Returned, Token
  <2>2. tokens[k] \in Token
    OBVIOUS
  <2> QED BY <2>1, <2>2
<1>2. k \in 1 .. Len(tokens) /\ Len(tokens) \in Nat
  OBVIOUS
<1>3. SubSeq(tokens, 1, k - 1) \in Seq(Token)
  BY <1>2
<1>4. SubSeq(tokens, k + 1, Len(tokens)) \in Seq(Token)
  BY <1>2
<1> QED BY <1>1, <1>2, <1>3, <1>4 DEF RemoveAt

LEMMA RemoveUserKeepsInv ==
    ASSUME MeshInv, NEW k \in DOMAIN tokens, NEW cleared \in BOOLEAN,
           RemoveUser(k, cleared)
    PROVE  MeshInv'
<1> DEFINE t == tokens[k]
           hit(a) == \E i \in ToSet(t.path) : Registered(i) /\ id2PtrMap[i] = a
<1>1. tokens \in Seq(Token) /\ heap \in [Addr -> Cell \cup {Blank}]
  BY DEF MeshInv, TypeOK, TokenTypeOK, MeshTypeOK
<1>2. t \in Token
  BY <1>1
<1>3. t.bandwidth \in Nat /\ t.returned \in BOOLEAN /\ t.current \in BOOLEAN
  BY <1>2 DEF Token
<1>4. heap' = [a \in Addr |-> IF hit(a) THEN UpdateNode(heap[a], t.bandwidth)
                                        ELSE heap[a]]
  BY DEF RemoveUser, Credited
<1>5. \A a \in Addr : hit(a) => heap[a] \in Cell
  BY LiveCells DEF MeshInv, Registered, NodeOf
<1> HIDE DEF t, hit
<1>6. \A a \in Addr : hit(a) =>
        /\ UpdateNode(heap[a], t.bandwidth) \in Cell
        /\ UpdateNode(heap[a], t.bandwidth).id = heap[a].id
        /\ UpdateNode(heap[a], t.bandwidth).adjacency = heap[a].adjacency
  <2>1. ASSUME NEW a \in Addr, hit(a)
        PROVE  heap[a] \in Cell /\ heap[a].available + t.bandwidth >= 0
    BY <1>3, <1>5, <2>1 DEF Cell
  <2> QED BY <1>3, <2>1, UpdatedCells
<1>7. heap' \in [Addr -> Cell \cup {Blank}]
  BY <1>1, <1>4, <1>6
<1>8. MeshTypeOK' /\ IndexMatchesTree' /\ LinksPointToNodes'
  BY <1>1, <1>4, <1>5, <1>6, <1>7, SameShape, BlankAssumption DEF RemoveUser
<1>9. SearchTypeOK'
  BY DEF MeshInv, TypeOK, SearchTypeOK, RemoveUser, search
<1>10. TokenTypeOK'
  <2>1. tokens' \in Seq(Token)
    BY <1>1, TokensLeft DEF RemoveUser, t
  <2>2. tainted' \in BOOLEAN /\ linked' \in BOOLEAN
    BY DEF RemoveUser, MeshInv, TypeOK, TokenTypeOK
  <2> QED BY <2>1, <2>2 DEF TokenTypeOK
<1> QED BY <1>8, <1>9, <1>10 DEF MeshInv, TypeOK

-----------------------------------------------------------------------------
(* GetShortestPath and the crash. *)

\* A handler that returns leaves well-typed locals behind.
LEMMA ReturnTyped == Return => SearchTypeOK'
BY DEF Return, SearchTypeOK, Unvisited

LEMMA RestartKeepsInv ==
    ASSUME MeshInv, Restart
    PROVE  MeshInv'
<1>1. MeshTypeOK'
  BY DEF Restart, MeshTypeOK
<1>2. IndexMatchesTree'
  BY DEF Restart, IndexMatchesTree, Live, Registered
<1>3. LinksPointToNodes'
  BY DEF Restart, LinksPointToNodes
<1>4. SearchTypeOK'
  BY ReturnTyped DEF Restart
<1>5. TokenTypeOK'
  <2>1. tokens' \in Seq(Token)
    BY OutdatedTokens DEF Restart, MeshInv, TypeOK, TokenTypeOK
  <2>2. linked' \in BOOLEAN /\ tainted' \in BOOLEAN
    BY DEF Restart
  <2> QED BY <2>1, <2>2 DEF TokenTypeOK
<1> QED BY <1>1, <1>2, <1>3, <1>4, <1>5 DEF MeshInv, TypeOK

\* StartSearch queues nodes one hop from the user and takes down their costs.
LEMMA StartSearchKeepsInv ==
    ASSUME MeshInv, NEW r \in Request, StartSearch(r)
    PROVE  MeshInv'
<1>1. r.loc \in Loc /\ r.bandwidth > 0 /\ r # NoRequest
  BY ConstantAssumption, BlankAssumption DEF StartSearch
<1>2. \A a \in Sources(r) : heap[a] \in Cell /\ heap[a].id \in Id
  BY LiveCells DEF Sources, InRange, MeshInv, Cell
<1>3. \A a \in Sources(r) : FirstCost(r.loc, heap[a]) \in Int
  BY <1>1, <1>2, CostsAreInts
<1>4. open' \subseteq [id : Id, hop : 1 .. HopLimit, cost : Int]
  BY <1>2, <1>3, ConstantAssumption DEF StartSearch
<1>5. visited' \in [Id -> [seen : BOOLEAN, cost : Int, parent : Int]]
  <2>1. ASSUME NEW i \in Id, Registered(i), id2PtrMap[i] \in Sources(r)
        PROVE  FirstCost(r.loc, NodeOf(i)) \in Int
    BY <1>3, <2>1 DEF NodeOf
  <2> QED BY <2>1 DEF StartSearch, Unvisited
<1>6. SearchTypeOK'
  BY <1>1, <1>4, <1>5 DEF StartSearch, SearchTypeOK, MeshInv, TypeOK
<1>7. TokenTypeOK'
  BY DEF StartSearch, TokenTypeOK, MeshInv, TypeOK
<1> QED BY <1>6, <1>7, SameMesh DEF StartSearch, MeshInv, TypeOK

\* Popping an entry without expanding it.
LEMMA PopKeepsInv ==
    ASSUME MeshInv, SkipMissing \/ FoundGateway \/ HopLimitReached
    PROVE  MeshInv'
<1>1. MeshTypeOK' /\ IndexMatchesTree' /\ LinksPointToNodes'
  BY SameMesh DEF SkipMissing, FoundGateway, HopLimitReached
<1>2. TokenTypeOK'
  BY DEF SkipMissing, FoundGateway, HopLimitReached, TokenTypeOK, MeshInv, TypeOK
<1>3. \A e \in Tops : e.id \in Id /\ Popped(e) \subseteq open
  BY DEF Tops, Popped, MeshInv, TypeOK, SearchTypeOK
<1>4. SearchTypeOK'
  BY <1>3, ConstantAssumption
     DEF SkipMissing, FoundGateway, HopLimitReached, SearchTypeOK, MeshInv, TypeOK
<1> QED BY <1>1, <1>2, <1>4 DEF MeshInv, TypeOK

\* Expanding an entry: every pointer that is read, a dangling one included,
\* leads to the shape of a node, and no entry is queued past the hop limit.
LEMMA RelaxKeepsInv ==
    ASSUME MeshInv, Relax
    PROVE  MeshInv'
<1>1. MeshTypeOK' /\ IndexMatchesTree' /\ LinksPointToNodes'
  BY SameMesh DEF Relax
<1>2. TokenTypeOK'
  BY DEF Relax, TokenTypeOK, MeshInv, TypeOK
<1>3. PICK e \in Tops :
        LET list == NodeOf(e.id).adjacency IN
        /\ Registered(e.id) /\ ~NodeOf(e.id).gateway
        /\ e.hop < HopLimit
        /\ \E stale \in SUBSET (list \ Live) :
             LET better == Improving(e, (list \cap Live) \cup stale)
                 best == {a \in better : \A b \in better :
                            heap[b].id = heap[a].id =>
                                EndCost(e, a) <= EndCost(e, b)}
                 to(i) == CHOOSE a \in best : heap[a].id = i
             IN /\ open' = Popped(e) \cup
                     {[id |-> heap[a].id, hop |-> e.hop + 1,
                       cost |-> EndCost(e, a)] : a \in better}
                /\ visited' = [i \in Id |->
                     IF \E a \in best : heap[a].id = i
                     THEN [seen |-> TRUE, cost |-> EndCost(e, to(i)),
                           parent |-> e.id]
                     ELSE visited[i]]
  BY DEF Relax
<1> DEFINE list == NodeOf(e.id).adjacency
<1>4. PICK stale \in SUBSET (list \ Live) :
        LET better == Improving(e, (list \cap Live) \cup stale)
            best == {a \in better : \A b \in better :
                       heap[b].id = heap[a].id =>
                           EndCost(e, a) <= EndCost(e, b)}
            to(i) == CHOOSE a \in best : heap[a].id = i
        IN /\ open' = Popped(e) \cup
                {[id |-> heap[a].id, hop |-> e.hop + 1,
                  cost |-> EndCost(e, a)] : a \in better}
           /\ visited' = [i \in Id |->
                IF \E a \in best : heap[a].id = i
                THEN [seen |-> TRUE, cost |-> EndCost(e, to(i)),
                      parent |-> e.id]
                ELSE visited[i]]
  BY <1>3
<1> DEFINE better == Improving(e, (list \cap Live) \cup stale)
           best == {a \in better : \A b \in better :
                      heap[b].id = heap[a].id =>
                          EndCost(e, a) <= EndCost(e, b)}
           to(i) == CHOOSE a \in best : heap[a].id = i
<1>5. /\ open' = Popped(e) \cup
           {[id |-> heap[a].id, hop |-> e.hop + 1,
             cost |-> EndCost(e, a)] : a \in better}
      /\ visited' = [i \in Id |->
           IF \E a \in best : heap[a].id = i
           THEN [seen |-> TRUE, cost |-> EndCost(e, to(i)), parent |-> e.id]
           ELSE visited[i]]
  BY <1>4
<1>6. /\ e \in open /\ open \subseteq [id : Id, hop : 1 .. HopLimit, cost : Int]
      /\ visited \in [Id -> [seen : BOOLEAN, cost : Int, parent : Int]]
  BY DEF Tops, MeshInv, TypeOK, SearchTypeOK
<1>7. /\ e.id \in Id /\ e.id \in Int /\ e.cost \in Int
      /\ e.hop + 1 \in 1 .. HopLimit
  <2>1. e \in [id : Id, hop : 1 .. HopLimit, cost : Int]
    BY <1>6
  <2>2. e.id \in Id /\ e.hop \in 1 .. HopLimit /\ e.cost \in Int
    BY <2>1
  <2>3. e.hop < HopLimit
    BY <1>3
  <2>4. HopLimit \in Nat /\ e.id \in Int
    BY <2>2, ConstantAssumption
  <2>5. e.hop + 1 \in 1 .. HopLimit
    BY <2>2, <2>3, <2>4
  <2> QED BY <2>2, <2>4, <2>5
<1>8. NodeOf(e.id) \in Cell /\ id2PtrMap[e.id] \in Addr
  BY <1>3, <1>6, LiveCells DEF MeshInv, Registered, TypeOK, MeshTypeOK
<1>9. \A a \in list : heap[a] \in Cell
  <2>1. \A a \in list : a \in Addr
    BY <1>8 DEF Cell
  <2>2. \A a \in list : heap[a] # Blank
    BY <1>8, BlankAssumption DEF NodeOf, MeshInv, LinksPointToNodes
  <2> QED BY <2>1, <2>2 DEF MeshInv, TypeOK, MeshTypeOK
<1>10. better \subseteq list
  BY DEF Improving
<1>11. \A a \in better : heap[a].id \in Id /\ EndCost(e, a) \in Int
  <2>1. TAKE a \in better
  <2>2. heap[a] \in Cell
    BY <1>9, <1>10
  <2>3. Loc # {}
    BY <2>2 DEF Cell
  <2>4. LinkCost(NodeOf(e.id), heap[a]) \in Int
    BY <1>8, <2>2, <2>3, CostsAreInts
  <2> QED BY <1>7, <2>2, <2>4 DEF EndCost, Cell
<1> HIDE DEF better
<1>12. open' \subseteq [id : Id, hop : 1 .. HopLimit, cost : Int]
  <2>1. Popped(e) \subseteq open
    BY DEF Popped
  <2>2. \A a \in better :
          [id |-> heap[a].id, hop |-> e.hop + 1, cost |-> EndCost(e, a)]
              \in [id : Id, hop : 1 .. HopLimit, cost : Int]
    BY <1>7, <1>11
  <2> QED BY <1>5, <1>6, <2>1, <2>2
<1>13. visited' \in [Id -> [seen : BOOLEAN, cost : Int, parent : Int]]
  <2>1. ASSUME NEW i \in Id, \E a \in best : heap[a].id = i
        PROVE  EndCost(e, to(i)) \in Int
    <3>1. to(i) \in best
      BY <2>1
    <3> QED BY <1>11, <3>1
  <2> HIDE DEF best, to
  <2> QED BY <1>5, <1>6, <1>7, <2>1
<1>14. SearchTypeOK'
  BY <1>12, <1>13 DEF Relax, SearchTypeOK, MeshInv, TypeOK
<1> QED BY <1>1, <1>2, <1>14 DEF MeshInv, TypeOK

\* One debit of the walk: updateNode has made sure of the bandwidth.
LEMMA ReserveNodeKeepsInv ==
    ASSUME MeshInv, ReserveNode
    PROVE  MeshInv'
<1> DEFINE a == id2PtrMap[cursor]
<1>1. Registered(cursor) /\ heap[a].available >= request.bandwidth
  BY DEF ReserveNode, CanDebit, NodeOf
<1>2. request.bandwidth \in Int
  BY ConstantAssumption DEF ReserveNode, MeshInv, TypeOK, SearchTypeOK
<1>3. cursor \in Id /\ heap[a] \in Cell /\ a \in Addr
  BY <1>1, LiveCells DEF Registered, NodeOf, MeshInv, TypeOK, MeshTypeOK
<1> DEFINE cell == UpdateNode(heap[a], -request.bandwidth)
<1>4. cell \in Cell /\ cell.id = heap[a].id /\ cell.adjacency = heap[a].adjacency
  <2>1. heap[a].available \in Nat
    BY <1>3 DEF Cell
  <2>2. -request.bandwidth \in Int /\ heap[a].available + (-request.bandwidth) >= 0
    BY <1>1, <1>2, <2>1
  <2> QED BY <1>3, <2>2, UpdatedCells
<1>5. heap' = [heap EXCEPT ![a] = cell]
  BY DEF ReserveNode, Debited, NodeOf
<1> HIDE DEF cell, a
<1>6. heap \in [Addr -> Cell \cup {Blank}]
  BY DEF MeshInv, TypeOK, MeshTypeOK
<1>7. MeshTypeOK' /\ IndexMatchesTree' /\ LinksPointToNodes'
  <2>1. heap' \in [Addr -> Cell \cup {Blank}]
    BY <1>4, <1>5, <1>6
  <2>2. \A b \in Addr : heap[b] = Blank => heap'[b] = Blank
    BY <1>3, <1>5, <1>6, BlankAssumption
  <2>3. \A b \in Addr : heap[b] # Blank =>
           /\ heap'[b] # Blank
           /\ heap'[b].id = heap[b].id
           /\ heap'[b].adjacency = heap[b].adjacency
    BY <1>3, <1>4, <1>5, <1>6, BlankAssumption
  <2> QED BY <2>1, <2>2, <2>3, SameShape DEF ReserveNode
<1>8. SearchTypeOK'
  <2>1. route' \in Seq(Id)
    BY <1>3 DEF ReserveNode, MeshInv, TypeOK, SearchTypeOK
  <2>2. cursor' \in Int
    BY <1>3 DEF ReserveNode, MeshInv, TypeOK, SearchTypeOK
  <2> QED BY <2>1, <2>2 DEF ReserveNode, MeshInv, TypeOK, SearchTypeOK
<1>9. TokenTypeOK'
  BY DEF ReserveNode, MeshInv, TypeOK, TokenTypeOK
<1> QED BY <1>7, <1>8, <1>9 DEF MeshInv, TypeOK

\* The three ways a search returns.
LEMMA ReturnKeepsInv ==
    ASSUME MeshInv, NoRoute \/ ReserveFails \/ GrantRoute
    PROVE  MeshInv'
<1>1. MeshTypeOK' /\ IndexMatchesTree' /\ LinksPointToNodes'
  BY SameMesh DEF NoRoute, ReserveFails, GrantRoute
<1>2. SearchTypeOK'
  BY ReturnTyped DEF NoRoute, ReserveFails, GrantRoute
<1>3. TokenTypeOK'
  <2>1. CASE NoRoute \/ ReserveFails
    BY <2>1 DEF NoRoute, ReserveFails, MeshInv, TypeOK, TokenTypeOK
  <2>2. CASE GrantRoute
    <3>1. /\ request.bandwidth \in Nat \ {0} /\ route \in Seq(Id)
          /\ tokens \in Seq(Token)
      BY <2>2, ConstantAssumption
         DEF GrantRoute, MeshInv, TypeOK, SearchTypeOK, TokenTypeOK
    <3>2. [bandwidth |-> request.bandwidth, path |-> route,
           current |-> TRUE, returned |-> FALSE] \in Token
      BY <3>1 DEF Token
    <3>3. tokens' \in Seq(Token)
      BY <2>2, <3>1, <3>2 DEF GrantRoute
    <3> QED BY <2>2, <3>3 DEF GrantRoute, MeshInv, TypeOK, TokenTypeOK
  <2> QED BY <2>1, <2>2
<1> QED BY <1>1, <1>2, <1>3 DEF MeshInv, TypeOK

-----------------------------------------------------------------------------
(* The invariant and what follows from it. *)

LEMMA StutterKeepsInv ==
    ASSUME MeshInv, UNCHANGED vars
    PROVE  MeshInv'
BY SameMesh
   DEF vars, mesh, search, MeshInv, TypeOK, SearchTypeOK, TokenTypeOK

LEMMA NextKeepsInv == MeshInv /\ [Next]_vars => MeshInv'
<1> SUFFICES ASSUME MeshInv, [Next]_vars PROVE MeshInv'
  OBVIOUS
<1>1. CASE \E b \in Batch : InitialReboot(b)
  BY <1>1, InitialRebootKeepsInv
<1>2. CASE \E p \in Joining : AddNode(p)
  BY <1>2, AddNodeKeepsInv
<1>3. CASE \E i \in Id : RemoveNode(i)
  BY <1>3, RemoveNodeKeepsInv
<1>4. CASE \E k \in DOMAIN tokens, cleared \in BOOLEAN : RemoveUser(k, cleared)
  BY <1>4, RemoveUserKeepsInv
<1>5. CASE \E r \in Request : StartSearch(r)
  BY <1>5, StartSearchKeepsInv
<1>6. CASE SearchStep
  BY <1>6, PopKeepsInv, RelaxKeepsInv, ReserveNodeKeepsInv, ReturnKeepsInv
     DEF SearchStep
<1>7. CASE Restart
  BY <1>7, RestartKeepsInv
<1>8. CASE UNCHANGED vars
  BY <1>8, StutterKeepsInv
<1> QED BY <1>1, <1>2, <1>3, <1>4, <1>5, <1>6, <1>7, <1>8 DEF Next

THEOREM InvariantHolds == Spec => []MeshInv
<1>1. Init => MeshInv
  BY InitEstablishesInv
<1>2. MeshInv /\ [Next]_vars => MeshInv'
  BY NextKeepsInv
<1> QED BY <1>1, <1>2, PTL DEF Spec

\* On every mesh and after every sequence of RPCs, crashes and repeated
\* releases, available_bandwidth is never negative and no entry of the queue
\* lies beyond HopLimit hops.
THEOREM TypeCorrect == Spec => []TypeOK
<1>1. MeshInv => TypeOK
  BY DEF MeshInv
<1> QED BY <1>1, InvariantHolds, PTL

\* The quadtree never holds a freed pointer and never misses a node: createNode,
\* removeNodeById, an aborted createQuadtree and a crash keep it equal to the
\* nodes that id2PtrMap owns.
THEOREM TreeAgreesWithMap == Spec => []IndexMatchesTree
<1>1. MeshInv => IndexMatchesTree
  BY DEF MeshInv
<1> QED BY <1>1, InvariantHolds, PTL

-----------------------------------------------------------------------------
(* Links between neighbours. *)

LEMMA InitialRebootLinks ==
    ASSUME NEW b \in Batch, InitialReboot(b)
    PROVE  NeighboursLinked'
<1>0. PICK n \in 0 .. Len(b) : \E place \in Placements[n] : Placed(b, n, place)
  BY InitialRebootPlaces
<1>1. PICK place \in Placements[n] : Placed(b, n, place)
  BY <1>0
<1>2. SUFFICES ASSUME linked', NEW x \in tree', NEW y \in tree',
                      heap'[x].loc \in Near[heap'[y].loc]
               PROVE  x \in heap'[y].adjacency
  BY DEF NeighboursLinked
<1>3. PICK j \in 1 .. n, k \in 1 .. n : x = place[j] /\ y = place[k]
  BY <1>1 DEF Placed
<1>4. /\ heap'[x] = NewCell(b[j], NearPlaced(b, n, place, j))
      /\ heap'[y] = NewCell(b[k], NearPlaced(b, n, place, k))
      /\ n = Len(b)
  BY <1>1, <1>2, <1>3 DEF Placed
<1>5. /\ heap'[x].loc = b[j].loc /\ heap'[y].loc = b[k].loc
      /\ heap'[y].adjacency = NearPlaced(b, n, place, k)
  BY <1>4 DEF NewCell
<1>6. place[j] \in NearPlaced(b, n, place, k)
  BY <1>2, <1>4, <1>5 DEF NearPlaced
<1> QED BY <1>3, <1>5, <1>6

LEMMA AddNodeLinks ==
    ASSUME MeshInv, NeighboursLinked, NEW p \in Joining, AddNode(p)
    PROVE  NeighboursLinked'
<1>1. PICK a \in Addr \ Live :
        /\ heap' = [heap EXCEPT ![a] = NewCell(p, InRange(p.loc) \cup {a})]
        /\ tree' = tree \cup {a}
  BY DEF AddNode
<1>2. heap \in [Addr -> Cell \cup {Blank}] /\ tree = Live /\ tree \subseteq Addr
  BY DEF MeshInv, TypeOK, MeshTypeOK, IndexMatchesTree
<1>3. /\ heap'[a].loc = p.loc
      /\ heap'[a].adjacency = InRange(p.loc) \cup {a}
  BY <1>1, <1>2 DEF NewCell
<1>4. \A x \in tree : x # a /\ heap'[x] = heap[x]
  BY <1>1, <1>2
<1>5. SUFFICES ASSUME linked, NEW x \in tree \cup {a}, NEW y \in tree \cup {a},
                      heap'[x].loc \in Near[heap'[y].loc],
                      heap'[y].loc \in Near[heap'[x].loc]
               PROVE  x \in heap'[y].adjacency \/ y \in heap'[x].adjacency
  BY <1>1 DEF NeighboursLinked, AddNode
<1>6. CASE x = a /\ y = a
  BY <1>3, <1>6
<1>7. CASE x = a /\ y # a
  BY <1>3, <1>4, <1>5, <1>7 DEF InRange
<1>8. CASE x # a /\ y = a
  BY <1>3, <1>4, <1>5, <1>8 DEF InRange
<1>9. CASE x # a /\ y # a
  BY <1>4, <1>5, <1>9 DEF NeighboursLinked
<1> QED BY <1>6, <1>7, <1>8, <1>9

LEMMA RemoveNodeLinks ==
    ASSUME MeshInv, NeighboursLinked, NEW i \in Id, RemoveNode(i)
    PROVE  NeighboursLinked'
<1>1. \A x \in tree' : x \in tree /\ heap'[x] = heap[x]
  BY DEF RemoveNode, MeshInv, TypeOK, MeshTypeOK
<1> QED BY <1>1 DEF RemoveNode, NeighboursLinked

\* Bandwidth may change hands, places and lists do not.
LEMMA SameLinks ==
    ASSUME MeshInv, NeighboursLinked, tree' = tree, linked' = linked,
           \A x \in tree : /\ heap'[x].loc = heap[x].loc
                           /\ heap'[x].adjacency = heap[x].adjacency
    PROVE  NeighboursLinked'
BY DEF NeighboursLinked

LEMMA RemoveUserLinks ==
    ASSUME MeshInv, NeighboursLinked, NEW k \in DOMAIN tokens,
           NEW cleared \in BOOLEAN, RemoveUser(k, cleared)
    PROVE  NeighboursLinked'
<1> DEFINE t == tokens[k]
           hit(a) == \E i \in ToSet(t.path) : Registered(i) /\ id2PtrMap[i] = a
<1>1. heap' = [a \in Addr |-> IF hit(a) THEN UpdateNode(heap[a], t.bandwidth)
                                        ELSE heap[a]]
  BY DEF RemoveUser, Credited
<1>2. t.bandwidth \in Int
  <2>1. t \in Token
    BY DEF MeshInv, TypeOK, TokenTypeOK
  <2> QED BY <2>1 DEF Token
<1>3. \A x \in tree : x \in Addr /\ heap[x] \in Cell
  BY LiveCells DEF MeshInv, TypeOK, MeshTypeOK
<1> HIDE DEF t, hit
<1>4. \A x \in tree : /\ heap'[x].loc = heap[x].loc
                      /\ heap'[x].adjacency = heap[x].adjacency
  BY <1>1, <1>2, <1>3, UpdatedCells
<1> QED BY <1>4, SameLinks DEF RemoveUser

LEMMA ReserveNodeLinks ==
    ASSUME MeshInv, NeighboursLinked, ReserveNode
    PROVE  NeighboursLinked'
<1> DEFINE a == id2PtrMap[cursor]
           cell == UpdateNode(heap[a], -request.bandwidth)
<1>1. heap' = [heap EXCEPT ![a] = cell]
  BY DEF ReserveNode, Debited, NodeOf
<1>2. -request.bandwidth \in Int
  <2>1. request.bandwidth \in Int
    BY ConstantAssumption DEF ReserveNode, MeshInv, TypeOK, SearchTypeOK
  <2> QED BY <2>1
<1>3. heap[a] \in Cell
  BY LiveCells DEF ReserveNode, CanDebit, Registered, NodeOf, MeshInv
<1>4. cell.loc = heap[a].loc /\ cell.adjacency = heap[a].adjacency
  BY <1>2, <1>3, UpdatedCells
<1> HIDE DEF cell, a
<1>5. \A x \in tree : /\ heap'[x].loc = heap[x].loc
                      /\ heap'[x].adjacency = heap[x].adjacency
  BY <1>1, <1>4 DEF MeshInv, TypeOK, MeshTypeOK
<1> QED BY <1>5, SameLinks DEF ReserveNode

\* After any history of complete reboots, additions and removals, two nodes in
\* each other's 30 m box are linked in at least one direction.
THEOREM NeighboursStayLinked == Spec => []NeighboursLinked
<1>1. Init => NeighboursLinked
  BY DEF Init, NeighboursLinked
<1>2. MeshInv /\ NeighboursLinked /\ [Next]_vars => NeighboursLinked'
  <2> SUFFICES ASSUME MeshInv, NeighboursLinked, [Next]_vars
               PROVE  NeighboursLinked'
    OBVIOUS
  <2>1. CASE \E b \in Batch : InitialReboot(b)
    BY <2>1, InitialRebootLinks
  <2>2. CASE \E p \in Joining : AddNode(p)
    BY <2>2, AddNodeLinks
  <2>3. CASE \E i \in Id : RemoveNode(i)
    BY <2>3, RemoveNodeLinks
  <2>4. CASE \E k \in DOMAIN tokens, cleared \in BOOLEAN : RemoveUser(k, cleared)
    BY <2>4, RemoveUserLinks
  <2>5. CASE \E r \in Request : StartSearch(r)
    BY <2>5, SameLinks DEF StartSearch, mesh
  <2>6. CASE SearchStep
    <3>1. CASE ReserveNode
      BY <3>1, ReserveNodeLinks
    <3>2. CASE SearchStep /\ ~ReserveNode
      BY <3>2, SameLinks
         DEF SearchStep, SkipMissing, FoundGateway, HopLimitReached, Relax,
             NoRoute, ReserveFails, GrantRoute, mesh
    <3> QED BY <2>6, <3>1, <3>2
  <2>7. CASE Restart
    BY <2>7 DEF Restart, NeighboursLinked
  <2>8. CASE UNCHANGED vars
    BY <2>8, SameLinks DEF vars, mesh
  <2> QED BY <2>1, <2>2, <2>3, <2>4, <2>5, <2>6, <2>7, <2>8 DEF Next
<1> QED BY <1>1, <1>2, InvariantHolds, PTL DEF Spec

=============================================================================
