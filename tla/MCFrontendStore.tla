--------------------------- MODULE MCFrontendStore ---------------------------
(* Small instance of FrontendStore: two tabs, each with a request for its   *)
(* timers.                                                                  *)
EXTENDS FrontendStore, TLC

CONSTANTS p1, p2, t1, t2

TwoTabs == (t1 :> p1) @@ (t2 :> p2)
=============================================================================
