---------------------------- MODULE MCMeshEngine ----------------------------
(***************************************************************************)
(* Small instances of MeshEngine.  Four places in a line, 20 m apart: A, B *)
(* and C are in range of their neighbours only; X is off the map.          *)
(***************************************************************************)
EXTENDS MeshRefinement, TLC

CONSTANTS A, B, C, X

MCLoc == {A, B, C, X}
MCOnEarth == {A, B, C}
MCNear == [l \in MCLoc |-> CASE l = A -> {A, B} [] l = B -> {A, B, C}
                             [] l = C -> {B, C} [] OTHER -> {X}]
Position == [l \in MCLoc |-> CASE l = A -> 0 [] l = B -> 20 [] l = C -> 40
                               [] OTHER -> 60]
MCDist == [l \in MCLoc |-> [m \in MCLoc |->
             IF Position[l] < Position[m] THEN Position[m] - Position[l]
                                          ELSE Position[l] - Position[m]]]

Node(i, l, bandwidth, gateway, latency) ==
    [id |-> i, loc |-> l, total |-> bandwidth, available |-> bandwidth,
     gateway |-> gateway, latency |-> latency]

n1 == Node(1, A, 2, FALSE, 1)
n2 == Node(2, B, 2, FALSE, 1)
n2b == Node(2, C, 1, FALSE, 1)    \* the same id comes back elsewhere
g3 == Node(3, C, 2, TRUE, 1)
lost == Node(1, X, 2, FALSE, 1)   \* invalid coordinates: rejected

User(l, bandwidth, max_latency) ==
    [loc |-> l, bandwidth |-> bandwidth, max_latency |-> max_latency]

MCId == {1, 2, 3}
MCPayload == {n1, n2, n2b, g3, lost}
MCBatch == {<<n2, g3>>, <<n2, lost, g3>>}
MCJoining == MCPayload
MCRequest == {User(A, 1, 5), User(B, 1, 5)}

(* One chain of three, released more often than it was reserved.           *)
ReplayPayload == {n1, n2, g3}
ReplayBatch == {<<n1, n2, g3>>}
ReplayJoining == {n2}
ReplayRequest == {User(A, 1, 5)}

HeapSymmetry == Permutations(Addr)

=============================================================================
