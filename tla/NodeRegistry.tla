----------------------------- MODULE NodeRegistry -----------------------------
(***************************************************************************)
(* The three places that know the routers: the contract, where a router's  *)
(* wallet registers itself; the Orchestrator's WifiNode collection, which  *)
(* knows the wallet to pay; and the Engine, which routes over them.        *)
(*                                                                         *)
(* The handlers of pseudo_node.controllers.js keep the three together.  A  *)
(* handler runs from one await to the next in one step.  Its call to the   *)
(* Engine is a message: it may arrive late, even after the Orchestrator    *)
(* has died, and its answer may be lost.                                   *)
(***************************************************************************)
EXTENDS Naturals, Sequences

CONSTANTS
    Id, Wallet,
    Entry,     \* node records; "valid" when the Engine accepts their numbers
    Body,      \* arrays sent to register
    Call,      \* requests in flight; bound: there are only so many
    None

ASSUME RegistryAssumption ==
    /\ Entry \subseteq [id : Id, wallet : Wallet, valid : BOOLEAN]
    /\ Body \subseteq Seq(Entry) \ {<<>>}
    /\ None \notin Id

VARIABLES
    chain,    \* wallets registered on the contract
    docs,     \* the WifiNode collection
    dropped,  \* history: the collection has been dropped
    mesh,     \* ids in the Engine
    built,    \* the Engine has a quadtree
    call,     \* where each request is in its handler
    rpc       \* the Engine call of each request

engine == <<mesh, built>>
vars == <<chain, docs, dropped, engine, call, rpc>>

NoCall == [at |-> "idle", kind |-> "none", todo |-> <<>>, made |-> <<>>,
           id |-> None]
NoRpc == [at |-> "none", op |-> "none", nodes |-> <<>>, id |-> None]

At(c, place) == call[c].at = place
Idle(c) == call[c] = NoCall /\ rpc[c] = NoRpc

\* The handler has answered, with success or with an error.
Finish(c) == call' = [call EXCEPT ![c] = NoCall]

\* The handler calls the Engine and waits.
Send(c, made, op, nodes, id) ==
    /\ call' = [call EXCEPT ![c].at = "engine", ![c].todo = <<>>,
                            ![c].made = made]
    /\ rpc' = [rpc EXCEPT ![c] = [at |-> "sent", op |-> op, nodes |-> nodes,
                                  id |-> id]]

Init ==
    /\ chain = {} /\ docs = {} /\ dropped = FALSE
    /\ mesh = {} /\ built = FALSE
    /\ call = [c \in Call |-> NoCall]
    /\ rpc = [c \in Call |-> NoRpc]

\* NexusMeshLedger.registerNode, called by the router's own process.
RegisterOnChain(w) ==
    /\ w \notin chain
    /\ chain' = chain \cup {w}
    /\ UNCHANGED <<docs, dropped, engine, call, rpc>>

-----------------------------------------------------------------------------
(* register and add_node. *)

RegisterNodes(c, body) ==
    /\ Idle(c)
    /\ call' = [call EXCEPT ![c] = [NoCall EXCEPT !.at = "check",
                               !.kind = "register", !.todo = body]]
    /\ UNCHANGED <<chain, docs, dropped, engine, rpc>>

AddNode(c, e) ==
    /\ Idle(c)
    /\ call' = [call EXCEPT ![c] = [NoCall EXCEPT !.at = "check",
                               !.kind = "add", !.todo = <<e>>]]
    /\ UNCHANGED <<chain, docs, dropped, engine, rpc>>

\* Mutant: the loop runs past the end.
ProceedPast(c, made) ==
    /\ call' = [call EXCEPT ![c].at = "check", ![c].todo = Tail(call[c].todo),
                            ![c].made = made]
    /\ UNCHANGED rpc

\* After an entry: the next one, or the Engine.
Proceed(c, made) ==
    LET rest == Tail(call[c].todo)
    IN IF rest # <<>>
       THEN /\ call' = [call EXCEPT ![c].at = "check", ![c].todo = rest,
                                    ![c].made = made]
            /\ UNCHANGED rpc
       ELSE Send(c, made, IF call[c].kind = "add" THEN "add" ELSE "reboot",
                 made, None)

\* Mutant: the contract is not asked.
CheckNodeUnasked(c) ==
    /\ At(c, "check")
    /\ call' = [call EXCEPT ![c].at = "create"]
    /\ UNCHANGED <<chain, docs, dropped, engine, rpc>>

\* checkNodeOnChain; a failing query counts as "no".  register skips such an
\* entry, add_node gives up.
CheckNodeOnChain(c) ==
    /\ At(c, "check")
    /\ \/ /\ Head(call[c].todo).wallet \in chain
          /\ call' = [call EXCEPT ![c].at = "create"]
          /\ UNCHANGED rpc
       \/ IF call[c].kind = "add" THEN Finish(c) /\ UNCHANGED rpc
                                  ELSE Proceed(c, call[c].made)
    /\ UNCHANGED <<chain, docs, dropped, engine>>

\* Mutant: the id is not unique.
CreateDuplicate(c) ==
    /\ At(c, "create")
    /\ LET e == Head(call[c].todo)
       IN /\ \A d \in docs : d.wallet # e.wallet
          /\ docs' = docs \cup {e}
          /\ \/ Proceed(c, Append(call[c].made, e))
             \/ Finish(c) /\ UNCHANGED rpc
    /\ UNCHANGED <<chain, dropped, engine>>

\* WifiNode.create, under the unique indexes on id and walletAddress.  The
\* handler may see an error although the document was stored.
Create(c) ==
    /\ At(c, "create")
    /\ LET e == Head(call[c].todo)
       IN /\ \A d \in docs : d.id # e.id /\ d.wallet # e.wallet
          /\ docs' = docs \cup {e}
          /\ \/ Proceed(c, Append(call[c].made, e))
             \/ Finish(c) /\ UNCHANGED rpc
    /\ UNCHANGED <<chain, dropped, engine>>

\* A duplicate, or the database fails: what was created before it stays.
CreateFails(c) ==
    /\ At(c, "create")
    /\ Finish(c)
    /\ UNCHANGED <<chain, docs, dropped, engine, rpc>>

-----------------------------------------------------------------------------
(* remove_node. *)

RemoveNode(c, i) ==
    /\ Idle(c)
    /\ call' = [call EXCEPT ![c] = [NoCall EXCEPT !.at = "exists",
                               !.kind = "remove", !.id = i]]
    /\ UNCHANGED <<chain, docs, dropped, engine, rpc>>

Exists(c) ==
    /\ At(c, "exists")
    /\ \/ /\ \E d \in docs : d.id = call[c].id
          /\ Send(c, <<>>, "remove", <<>>, call[c].id)
       \/ Finish(c) /\ UNCHANGED rpc
    /\ UNCHANGED <<chain, docs, dropped, engine>>

Delete(c) ==
    /\ At(c, "delete")
    /\ docs' = {d \in docs : d.id # call[c].id}
    /\ Finish(c)
    /\ UNCHANGED <<chain, dropped, engine, rpc>>

DeleteFails(c) ==
    /\ At(c, "delete")
    /\ Finish(c)
    /\ UNCHANGED <<chain, docs, dropped, engine, rpc>>

-----------------------------------------------------------------------------
(* The Engine's side.  MeshEngine says what it does with the nodes. *)

Arrives(c, op) == rpc[c].at = "sent" /\ rpc[c].op = op

\* The answer, if its handler is still there.
Reply(c, outcome) ==
    rpc' = [rpc EXCEPT ![c] =
              IF At(c, "engine") THEN [@ EXCEPT !.at = outcome] ELSE NoRpc]

\* The first n nodes are taken, the next one, if there is one, is not.
Takes(nodes, n) ==
    /\ \A k \in 1 .. n : nodes[k].valid
    /\ n < Len(nodes) => ~nodes[n + 1].valid

\* InitialReboot: an empty batch changes nothing, an invalid node ends the new
\* mesh early.
EngineReboots(c) ==
    /\ Arrives(c, "reboot")
    /\ LET nodes == rpc[c].nodes
       IN \/ /\ nodes = <<>>
             /\ Reply(c, "failed")
             /\ UNCHANGED engine
          \/ /\ nodes # <<>>
             /\ \E n \in 0 .. Len(nodes) :
                  /\ Takes(nodes, n)
                  /\ mesh' = {nodes[k].id : k \in 1 .. n}
                  /\ Reply(c, IF n = Len(nodes) THEN "ok" ELSE "failed")
             /\ built' = TRUE
    /\ UNCHANGED <<chain, docs, dropped, call>>

EngineAdds(c) ==
    /\ Arrives(c, "add")
    /\ LET e == rpc[c].nodes[1]
       IN IF built /\ e.valid /\ e.id \notin mesh
          THEN mesh' = mesh \cup {e.id} /\ Reply(c, "ok")
          ELSE Reply(c, "failed") /\ UNCHANGED mesh
    /\ UNCHANGED <<chain, docs, dropped, built, call>>

\* The Engine refuses to remove a node in use.
EngineRemoves(c) ==
    /\ Arrives(c, "remove")
    /\ \/ /\ rpc[c].id \in mesh
          /\ mesh' = mesh \ {rpc[c].id}
          /\ Reply(c, "ok")
       \/ Reply(c, "failed") /\ UNCHANGED mesh
    /\ UNCHANGED <<chain, docs, dropped, built, call>>

\* Mutant: the status is not looked at.
AnsweredUnchecked(c) ==
    /\ At(c, "engine") /\ rpc[c].at \in {"ok", "failed"}
    /\ IF call[c].kind = "remove"
       THEN call' = [call EXCEPT ![c].at = "delete"] ELSE Finish(c)
    /\ rpc' = [rpc EXCEPT ![c] = NoRpc]
    /\ UNCHANGED <<chain, docs, dropped, engine>>

\* remove_node has its document to delete; the others are through.
Answered(c) ==
    /\ At(c, "engine") /\ rpc[c].at \in {"ok", "failed"}
    /\ IF rpc[c].at = "ok" /\ call[c].kind = "remove"
       THEN call' = [call EXCEPT ![c].at = "delete"] ELSE Finish(c)
    /\ rpc' = [rpc EXCEPT ![c] = NoRpc]
    /\ UNCHANGED <<chain, docs, dropped, engine>>

\* The connection breaks: the handler gives up, the call may still arrive.
Disconnect(c) ==
    /\ At(c, "engine")
    /\ Finish(c)
    /\ \/ rpc' = [rpc EXCEPT ![c] = NoRpc]
       \/ rpc[c].at = "sent" /\ UNCHANGED rpc
    /\ UNCHANGED <<chain, docs, dropped, engine>>

-----------------------------------------------------------------------------
(* Ends and beginnings of the processes. *)

\* What has been sent to the Engine stays on its way.
OrchestratorCrash ==
    /\ \E c \in Call : ~At(c, "idle")
    /\ call' = [c \in Call |-> NoCall]
    /\ rpc' = [c \in Call |-> IF rpc[c].at = "sent" THEN rpc[c] ELSE NoRpc]
    /\ UNCHANGED <<chain, docs, dropped, engine>>

\* A signal: the server closes, then disconnectDB drops the collection.
Shutdown ==
    /\ \A c \in Call : At(c, "idle")
    /\ docs # {}
    /\ docs' = {} /\ dropped' = TRUE
    /\ UNCHANGED <<chain, engine, call, rpc>>

\* The Engine keeps nothing on disk; calls on their way to it fail.
EngineRestart ==
    /\ built
    /\ mesh' = {} /\ built' = FALSE
    /\ rpc' = [c \in Call |-> IF rpc[c].at # "sent" THEN rpc[c]
                              ELSE IF At(c, "engine")
                                   THEN [rpc[c] EXCEPT !.at = "failed"]
                                   ELSE NoRpc]
    /\ UNCHANGED <<chain, docs, dropped, call>>

Handle(c) ==
    \/ CheckNodeOnChain(c) \/ Create(c) \/ CreateFails(c)
    \/ Exists(c) \/ Delete(c) \/ DeleteFails(c)
    \/ Answered(c) \/ Disconnect(c)

Serve(c) == EngineReboots(c) \/ EngineAdds(c) \/ EngineRemoves(c)

Next ==
    \/ \E w \in Wallet : RegisterOnChain(w)
    \/ \E c \in Call, b \in Body : RegisterNodes(c, b)
    \/ \E c \in Call, e \in Entry : AddNode(c, e)
    \/ \E c \in Call, i \in Id : RemoveNode(c, i)
    \/ \E c \in Call : Handle(c) \/ Serve(c)
    \/ OrchestratorCrash \/ Shutdown \/ EngineRestart

Spec == Init /\ [][Next]_vars

\* A handler goes on when its await is over, the Engine answers what arrives.
FairSpec == Spec /\ \A c \in Call : WF_vars(Handle(c)) /\ WF_vars(Serve(c))

-----------------------------------------------------------------------------
(* Correctness. *)

DocOf(i) == {d \in docs : d.id = i}

\* Every variable keeps its type, and a handler that is at an entry has one.
TypeOK ==
    /\ chain \subseteq Wallet /\ docs \subseteq Entry /\ mesh \subseteq Id
    /\ dropped \in BOOLEAN /\ built \in BOOLEAN
    /\ call \in [Call ->
          [at : {"idle", "check", "create", "exists", "engine", "delete"},
           kind : {"none", "register", "add", "remove"},
           todo : Seq(Entry), made : Seq(Entry), id : Id \cup {None}]]
    /\ rpc \in [Call ->
          [at : {"none", "sent", "ok", "failed"},
           op : {"none", "reboot", "add", "remove"},
           nodes : Seq(Entry), id : Id \cup {None}]]
    /\ \A c \in Call : call[c].at \in {"check", "create"} => call[c].todo # <<>>

\* A node the Engine routes over has a document, and the document a wallet that
\* transferFunds accepts: whatever requests overlap, and however late a call
\* arrives, no user is routed over a router that settlement cannot pay.  Until
\* the collection is dropped under a running Engine.
NodesArePayable ==
    ~dropped => \A i \in mesh : \E d \in DocOf(i) : d.wallet \in chain

\* The Engine never receives a batch that names an id twice: createQuadtree
\* would free the first node and leave it in the quadtree.  What keeps ids apart
\* is the unique index, even though a document created earlier in the loop may
\* be removed by another request before the loop ends.  Until the collection is
\* dropped under a running Engine, for then it may.
BatchesAreDistinct ==
    ~dropped => \A c \in Call :
        LET nodes == rpc[c].nodes
        IN \A j, k \in DOMAIN nodes : nodes[j].id = nodes[k].id => j = k

\* As long as the Engine has a node, the wallet paid for it does not change.
PayeeIsStable ==
    [][~dropped' => \A d \in docs : d.id \in mesh \cap mesh' => d \in docs']_vars

\* removeNode's comment: a document left behind by a failing deletion is synced
\* later.  So a node whose document is to be deleted loses it in the end, or is
\* routed over again.
LeftoversAreSynced ==
    \A i \in Id : (\E c \in Call : At(c, "delete") /\ call[c].id = i)
                      ~> (DocOf(i) = {} \/ i \in mesh)

=============================================================================
