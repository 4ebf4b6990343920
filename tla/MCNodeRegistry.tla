---------------------------- MODULE MCNodeRegistry ----------------------------
(* Small instance of NodeRegistry: two routers, one of which also shows up   *)
(* with the other's id, and a third record the Engine does not accept.       *)
EXTENDS NodeRegistry

CONSTANTS A, B, W1, W2

First == [id |-> A, wallet |-> W1, valid |-> TRUE]
Second == [id |-> B, wallet |-> W2, valid |-> TRUE]
Impostor == [id |-> A, wallet |-> W2, valid |-> TRUE]
Broken == [id |-> B, wallet |-> W2, valid |-> FALSE]

MCEntry == {First, Second, Impostor, Broken}
MCBody == {<<First, Second>>, <<First, Impostor>>, <<First, Broken>>, <<Impostor>>}

\* One router is enough to leave a document behind.
LeftoverEntry == {First}
LeftoverBody == {<<First>>}
=============================================================================
