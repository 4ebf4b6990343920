------------------------------ MODULE MeshIndex ------------------------------
(***************************************************************************)
(* The Engine with its quadtree.  MeshEngine takes the index for the set   *)
(* tree of the nodes in it; here each RPC that touches the index makes the *)
(* calls of Quadtree that service_class.cpp makes, on every tree that the  *)
(* RPCs before have left behind.                                           *)
(***************************************************************************)
EXTENDS MeshEngine, Quadtree

CONSTANTS
    Coordinate,   \* Coordinate[l]: latitude and longitude of a place
    Reach         \* Reach[l]: Boundary::fromMeters(l, 30)

\* Near is what contains makes of the boxes.  validateNodePayload accepts the
\* latitudes and longitudes of the default Boundary.
ASSUME GeometryAssumption ==
    /\ Coordinate \in [Loc -> [lat : Int, lon : Int]]
    /\ Reach \in [Loc -> [lat : Int, lon : Int, halfLat : Nat, halfLon : Nat,
                          unit : {1}]]
    /\ \A l, m \in Loc : m \in Near[l] <=> contains(Reach[l], Coordinate[m])
    /\ \A l \in OnEarth : contains(Root, Coordinate[l])

VARIABLE quadtree   \* its tree; Empty as long as there is none

\* createQuadtree: the entries of a batch up to the first invalid one, which
\* are the ones the map has afterwards, go into a new tree in their order.
Filled(b, map) ==
    LET upTo[k \in 0 .. Len(b)] ==
            IF k = 0 THEN Empty
            ELSE IF map[b[k].id] = NoAddr THEN upTo[k - 1]
            ELSE insert(upTo[k - 1], map[b[k].id], Coordinate[b[k].loc])
    IN upTo[Len(b)]

IndexInit == Init /\ quadtree = Empty

IndexReboot(b) == InitialReboot(b) /\ quadtree' = Filled(b, id2PtrMap')

IndexAdd(p) ==
    /\ AddNode(p)
    /\ quadtree' = insert(quadtree, id2PtrMap'[p.id], Coordinate[p.loc])

IndexRemove(i) ==
    /\ RemoveNode(i)
    /\ quadtree' = remove(quadtree, id2PtrMap[i], Coordinate[NodeOf(i).loc])

\* The RPCs that leave the index alone.
IndexKept ==
    /\ \/ \E k \in DOMAIN tokens, cleared \in BOOLEAN : RemoveUser(k, cleared)
       \/ \E r \in Request : StartSearch(r)
       \/ SearchStep
    /\ UNCHANGED quadtree

IndexRestart == Restart /\ quadtree' = Empty

IndexNext ==
    \/ \E b \in Batch : IndexReboot(b)
    \/ \E p \in Joining : IndexAdd(p)
    \/ \E i \in Id : IndexRemove(i)
    \/ IndexKept
    \/ IndexRestart

IndexSpec == IndexInit /\ [][IndexNext]_<<vars, quadtree>>

-----------------------------------------------------------------------------
(* Correctness. *)

\* What is at the addresses the tree may point to, freed ones included.
Whereabouts == [a \in {c \in Addr : heap[c] # Blank} |-> Coordinate[heap[a].loc]]

\* service_class.cpp and dijkstra.cpp use the quadtree as a set: a query finds
\* the nodes in its box, all of them and no removed one, whatever was added and
\* removed in whatever order, and whichever abs the build takes.
QueryIsExact ==
    \A l \in Loc, cut \in BOOLEAN :
        query(quadtree, Reach[l], Whereabouts, cut) = InRange(l)

\* A node is in one subtree as long as the Engine has it, and in none
\* afterwards: the pointer that removeNodeById frees is not found again.
FiledOnce == Filed(quadtree, tree)

=============================================================================
