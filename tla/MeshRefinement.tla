--------------------------- MODULE MeshRefinement ---------------------------
(***************************************************************************)
(* The Engine implements MeshService: its search loop, and the walk that   *)
(* debits a route node by node, are one atomic reservation or none.        *)
(***************************************************************************)
EXTENDS MeshEngine

\* A node as it was before the walk in progress reached it: its debits count
\* when the route is granted, and for good if the walk stops half way.
Total(i) == IF Registered(i) THEN NodeOf(i).total ELSE 0
Free(i) == IF Registered(i) THEN Before(i).available ELSE 0

\* What may be asked for, and along which paths.
Asked == {r.bandwidth : r \in Request}
Simple == {q \in UNION {[1 .. n -> Id] : n \in 1 .. Cardinality(Id)} : IsInjective(q)}

\* Those of the tokens ts for b along q whose reservation the Engine still keeps.
Granted(ts, q, b) ==
    {k \in DOMAIN ts : Kept(ts[k]) /\ ts[k].path = q /\ ts[k].bandwidth = b}

Service == INSTANCE MeshService WITH
    Bandwidth <- Asked,
    total <- [i \in Id |-> Total(i)],
    free <- [i \in Id |-> Free(i)],
    grants <- [g \in Simple \X Asked |-> Cardinality(Granted(tokens, g[1], g[2]))],
    broken <- tainted

\* Every step of the Engine is a step of the service, or changes nothing in
\* its eyes: no request leaves part of a route debited, no removal takes a node
\* a token stands for, and a release returns exactly what its token took.
ImplementsService == Service!Spec

=============================================================================
