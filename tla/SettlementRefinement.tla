------------------------ MODULE SettlementRefinement ------------------------
(***************************************************************************)
(* The services implement SessionLedger: whatever requests overlap, are    *)
(* repeated, cut off or outlived by their jobs, each step books what the   *)
(* ledger allows, on one session, or nothing.                              *)
(***************************************************************************)
EXTENDS SessionSettlement

Owner(s) == IF deal[s] = None THEN None ELSE deal[s].wallet

\* Sessions that a handler is about to report as ended.
Told == {s \in Session : \E c \in Call : At(c, "ended") /\ call[c].session = s}

Books == INSTANCE SessionLedger WITH
    owner <- [s \in Session |-> Owner(s)],
    told <- Told

\* Every step of the services is a step of the ledger or changes nothing in its
\* books: a session is reserved once, a transfer is by its owner and on top of a
\* release of its own, a row on top of a transfer, and a receipt on top of a row.
ImplementsLedger == Books!Spec

=============================================================================
