----------------------------- MODULE MCMeshIndex -----------------------------
(***************************************************************************)
(* A mesh with its quadtree: MCMeshEngine's places on the diagonal of a    *)
(* square, B in the centre, where four boxes meet; D, in reach of A and E  *)
(* only; and E, between A and B, in reach of all the others.  16 units are *)
(* 20 m or four degrees.                                                   *)
(***************************************************************************)
EXTENDS MCMeshEngine, MeshIndex

CONSTANTS D, E

RouteOnEarth == {A, B, C, D, E}
RouteLoc == RouteOnEarth \cup {X}
RouteNear == [l \in RouteLoc |-> CASE l = A -> {D, A, E, B} [] l = B -> {A, E, B, C}
                                   [] l = C -> {E, B, C} [] l = D -> {D, A, E}
                                   [] l = E -> RouteOnEarth [] OTHER -> {X}]
Along == [l \in RouteLoc |-> CASE l = D -> -20 [] l = E -> 10 [] OTHER -> Position[l]]
RouteDist == [l \in RouteLoc |-> [m \in RouteLoc |->
                IF Along[l] < Along[m] THEN Along[m] - Along[l]
                                       ELSE Along[l] - Along[m]]]

Diagonal == [l \in RouteLoc |-> CASE l = A -> -16 [] l = B -> 0 [] l = C -> 16
                                   [] l = D -> -32 [] l = E -> -8 [] OTHER -> 64]
MCCoordinate == [l \in RouteLoc |-> [lat |-> Diagonal[l], lon |-> Diagonal[l]]]
MCReach == [l \in RouteLoc |-> [lat |-> Diagonal[l], lon |-> Diagonal[l],
                                halfLat |-> 24, halfLon |-> 24, unit |-> 1]]

\* From D, a slow relay is two hops away from the gateway, a thin one three.
slow == Node(2, E, 2, FALSE, 4)
thin == Node(4, B, 1, FALSE, 1)
thinBack == Node(4, E, 1, FALSE, 1)   \* comes back beside the slow one
RouteId == {1, 2, 3, 4}
RoutePayload == {n1, slow, g3, thin, thinBack}
RouteBatch == {<<n1, slow, g3, thin>>}
RouteJoining == {thinBack}
RouteRequest == {User(A, 1, 5), User(D, 1, 5), User(D, 1, 2)}

=============================================================================
