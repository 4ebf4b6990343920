----------------------------- MODULE MeshService -----------------------------
(***************************************************************************)
(* What the Engine promises the Orchestrator (engine.md, and the rpcs of   *)
(* mesh.proto): a register of nodes with bandwidth to give, from which     *)
(* whole routes are reserved and released, each in one step.  There is no  *)
(* heap, no search and no lock here.  MeshRefinement shows that the Engine *)
(* keeps the promise.                                                      *)
(***************************************************************************)
EXTENDS Naturals, FiniteSets, SequencesExt

CONSTANTS
    Id,         \* node ids
    Bandwidth   \* what a request may ask for

VARIABLES
    total,    \* total[i]: the bandwidth node i brought; 0: not in the mesh
    free,     \* free[i]: what nobody has reserved of it
    grants,   \* grants[<<q, b>>]: the reservations of b along q that nobody
              \* has released yet
    broken    \* a caller has released what it does not hold, or the Engine
              \* has followed a pointer to a node that is gone: no promise
              \* holds before the mesh is replaced

vars == <<total, free, grants, broken>>

Path == {q \in UNION {[1 .. n -> Id] : n \in 1 .. Cardinality(Id)} : IsInjective(q)}

Absent(i) == total[i] = 0
Unused(i) == free[i] = total[i]

Init ==
    /\ total = [i \in Id |-> 0] /\ free = total
    /\ grants = [g \in Path \X Bandwidth |-> 0] /\ broken = FALSE

\* InitialReboot, or a restart: other nodes, and nobody holds any of them.
Replace ==
    /\ ~broken'
    /\ free' = total' /\ grants' = [g \in Path \X Bandwidth |-> 0]

\* AddNode: node i comes with b to give.
Join(i, b) ==
    /\ b > 0 /\ Absent(i)
    /\ total' = [total EXCEPT ![i] = b]
    /\ free' = [free EXCEPT ![i] = b]
    /\ UNCHANGED <<grants, broken>>

\* RemoveNode: only a node that no reservation uses.
Leave(i) ==
    /\ ~Absent(i) /\ Unused(i)
    /\ total' = [total EXCEPT ![i] = 0]
    /\ free' = [free EXCEPT ![i] = 0]
    /\ UNCHANGED <<grants, broken>>

\* GetShortestPath: b on every node of a path, or nothing at all.
Grant(q, b) ==
    /\ grants' = [grants EXCEPT ![<<q, b>>] = @ + 1]
    /\ \A i \in ToSet(q) : ~Absent(i) /\ free[i] >= b
    /\ free' = [i \in Id |-> IF i \in ToSet(q) THEN free[i] - b ELSE free[i]]
    /\ UNCHANGED <<total, broken>>

\* RemoveUser: what such a reservation took.
Release(q, b) ==
    /\ grants[<<q, b>>] > 0
    /\ grants' = [grants EXCEPT ![<<q, b>>] = @ - 1]
    /\ free' = [i \in Id |-> IF i \in ToSet(q) THEN free[i] + b ELSE free[i]]
    /\ UNCHANGED <<total, broken>>

\* A call breaks the promise, or any call after one that did.
Break == broken'

Next ==
    \/ Break \/ Replace
    \/ ~broken /\ \/ \E i \in Id : Leave(i) \/ Join(i, total'[i])
                  \/ \E q \in Path, b \in Bandwidth : Grant(q, b) \/ Release(q, b)

Spec == Init /\ [][Next]_vars

=============================================================================
