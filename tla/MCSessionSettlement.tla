------------------------- MODULE MCSessionSettlement -------------------------
(* Small instance of SessionSettlement: the sets are interchangeable.       *)
EXTENDS SettlementRefinement, TLC

SettlementSymmetry == Permutations(Wallet) \cup Permutations(Session)
=============================================================================
