-------------------------- MODULE SessionSettlement --------------------------
(***************************************************************************)
(* The life of a connection across the services: the browser's cookies,    *)
(* the Orchestrator's get_connection and end_connection handlers, the      *)
(* Engine's reservation, the Ledger's settlement job, the contract's       *)
(* transfer and the history row.                                           *)
(*                                                                         *)
(* A handler runs from one await to the next in one step; between two of   *)
(* its steps every other request may run, a reply may be lost, and the     *)
(* Orchestrator or the Ledger may die.  No handler retries, compensates or *)
(* remembers anything: all it knows of a connection is the ConnectionToken *)
(* in the browser's cookie jar.                                            *)
(*                                                                         *)
(* A session takes one unit of bandwidth at pathOccupied[0], the node that *)
(* is paid; the rest of the path is MeshEngine's.  Engine restarts and     *)
(* nodes that join belong to MeshEngine too.                               *)
(***************************************************************************)
EXTENDS Integers, FiniteSets, FiniteSetsExt

CONSTANTS
    Browser,
    Wallet,
    Session,      \* reservations; bound: there are only so many
    Call,         \* HTTP requests in flight; bound: there are only so many
    Node,
    Capacity,     \* bandwidth of a node, in sessions
    MaxReleases,  \* bound: how often end_connection is tried per session
    None

\* A reservation: who pays for it, and which node is paid.
Deal == [wallet : Wallet, node : Node]

ASSUME SettlementAssumption ==
    /\ Capacity \in Nat \ {0}
    /\ MaxReleases \in Nat
    /\ IsFiniteSet(Session) /\ IsFiniteSet(Call)
    /\ None \notin Browser \cup Wallet \cup Session \cup Deal

VARIABLES
    access,     \* AccessToken cookie: the wallet logged in
    jar,        \* ConnectionToken cookie: the session it is for
    call,       \* where each request is in its handler
    job,        \* the Ledger's settle_session request of each call
    deal,       \* who reserved a session, and where
    mesh,       \* nodes the Engine has
    available,  \* their bandwidth
    docs,       \* nodes MongoDB has
    released,   \* history: RemoveUserMethod calls per session
    charged,    \* history: transfers per session and wallet
    rows        \* rows of the sessions table

cookies == <<access, jar>>
engine == <<mesh, available>>
books == <<released, charged, rows>>
vars == <<cookies, call, job, deal, engine, docs, books>>

NoCall == [at |-> "idle", browser |-> None, session |-> None, wallet |-> None]
NoJob == [at |-> "none", session |-> None, wallet |-> None]

Idle(c) == call[c] = NoCall /\ job[c] = NoJob
At(c, place) == call[c].at = place
Advance(c, place) == call' = [call EXCEPT ![c].at = place]

\* The handler answers with an error; the browser keeps its cookies.
Fail(c) == call' = [call EXCEPT ![c] = NoCall]

Reserved == {s \in Session : deal[s] # None}
NodeOf(s) == deal[s].node

\* Wallets' transfers for s, all together.
Paid(s) == MapThenSumSet(LAMBDA w : charged[s][w], Wallet)

-----------------------------------------------------------------------------
Init ==
    /\ access = [b \in Browser |-> None]
    /\ jar = [b \in Browser |-> None]
    /\ call = [c \in Call |-> NoCall]
    /\ job = [c \in Call |-> NoJob]
    /\ deal = [s \in Session |-> None]
    /\ mesh = Node /\ docs = Node
    /\ available = [n \in Node |-> Capacity]
    /\ released = [s \in Session |-> 0]
    /\ charged = [s \in Session |-> [w \in Wallet |-> 0]]
    /\ rows = [s \in Session |-> 0]

-----------------------------------------------------------------------------
(* The browser's cookies. *)

\* authenticateUser, for any wallet that signs.
Login(b, w) ==
    /\ access[b] # w
    /\ access' = [access EXCEPT ![b] = w]
    /\ UNCHANGED <<jar, call, job, deal, engine, docs, books>>

\* logoutUser clears the AccessToken and leaves the ConnectionToken.
Logout(b) ==
    /\ access[b] # None
    /\ access' = [access EXCEPT ![b] = None]
    /\ UNCHANGED <<jar, call, job, deal, engine, docs, books>>

\* The ConnectionToken outlives its maxAge.
Expire(b) ==
    /\ jar[b] # None
    /\ jar' = [jar EXCEPT ![b] = None]
    /\ UNCHANGED <<access, call, job, deal, engine, docs, books>>

-----------------------------------------------------------------------------
(* get_connection. *)

\* Mutant: the route is not behind verifyJWT.
GetConnectionUnchecked(b, c) ==
    /\ Idle(c)
    /\ call' = [call EXCEPT ![c] = [NoCall EXCEPT !.at = "reserve", !.browser = b,
                                                 !.wallet = access[b]]]
    /\ UNCHANGED <<cookies, job, deal, engine, docs, books>>

\* A request that passes verifyJWT and the checks on its body.
GetConnection(b, c) ==
    /\ Idle(c) /\ access[b] # None
    /\ call' = [call EXCEPT ![c] = [NoCall EXCEPT !.at = "reserve", !.browser = b,
                                                 !.wallet = access[b]]]
    /\ UNCHANGED <<cookies, job, deal, engine, docs, books>>

\* GetShortestPath finds a path; its reply may be lost.
Reserve(c) ==
    /\ At(c, "reserve")
    /\ \E s \in Session \ Reserved, n \in mesh :
         /\ available[n] >= 1
         /\ available' = [available EXCEPT ![n] = @ - 1]
         /\ deal' = [deal EXCEPT ![s] = [wallet |-> call[c].wallet, node |-> n]]
         /\ \/ call' = [call EXCEPT ![c].at = "lookup", ![c].session = s]
            \/ Fail(c)
    /\ UNCHANGED <<cookies, job, mesh, docs, books>>

\* GetShortestPath finds none, or is not reached.
Refuse(c) ==
    /\ At(c, "reserve")
    /\ Fail(c)
    /\ UNCHANGED <<cookies, job, deal, engine, docs, books>>

\* The nodes of the path are read from MongoDB and the answer sets the cookie,
\* unless a read throws or the answer is lost.  A node MongoDB does not have is
\* answered as null.
AnswerConnection(c) ==
    /\ At(c, "lookup")
    /\ \/ jar' = [jar EXCEPT ![call[c].browser] = call[c].session]
       \/ UNCHANGED jar
    /\ Fail(c)
    /\ UNCHANGED <<access, job, deal, engine, docs, books>>

-----------------------------------------------------------------------------
(* end_connection. *)

\* RemoveUserMethod calls for s, those on their way included.
Releases(s) ==
    released[s] + Cardinality({c \in Call : /\ At(c, "release")
                                            /\ call[c].session = s})

\* Mutant: the wallet in the token is not compared.
EndConnectionUnchecked(b, c) ==
    /\ Idle(c)
    /\ access[b] # None /\ jar[b] # None
    /\ Releases(jar[b]) < MaxReleases
    /\ call' = [call EXCEPT ![c] = [at |-> "release", browser |-> b,
                    session |-> jar[b], wallet |-> access[b]]]
    /\ UNCHANGED <<cookies, job, deal, engine, docs, books>>

\* The request carries both cookies, for the same wallet.
EndConnection(b, c) ==
    /\ Idle(c)
    /\ access[b] # None /\ jar[b] # None
    /\ deal[jar[b]].wallet = access[b]
    /\ Releases(jar[b]) < MaxReleases
    /\ call' = [call EXCEPT ![c] = [at |-> "release", browser |-> b,
                    session |-> jar[b], wallet |-> access[b]]]
    /\ UNCHANGED <<cookies, job, deal, engine, docs, books>>

\* RemoveUserMethod; a node that is gone is skipped.  The reply may be lost.
Release(c) ==
    /\ At(c, "release")
    /\ LET s == call[c].session
       IN /\ released' = [released EXCEPT ![s] = @ + 1]
          /\ available' = IF NodeOf(s) \in mesh
                          THEN [available EXCEPT ![NodeOf(s)] = @ + 1]
                          ELSE available
    /\ Advance(c, "find") \/ Fail(c)
    /\ UNCHANGED <<cookies, job, deal, mesh, docs, charged, rows>>

\* Mutant: the handler goes on without the release.
ReleaseFailsUnchecked(c) ==
    /\ At(c, "release")
    /\ Advance(c, "find")
    /\ UNCHANGED <<cookies, job, deal, engine, docs, books>>

\* The Engine is not reached.
ReleaseFails(c) ==
    /\ At(c, "release")
    /\ Fail(c)
    /\ UNCHANGED <<cookies, job, deal, engine, docs, books>>

\* The entry node's document gives the wallet to pay; then settle_session is
\* posted to the Ledger.
FindNode(c) ==
    /\ At(c, "find")
    /\ \/ /\ NodeOf(call[c].session) \in docs
          /\ Advance(c, "settle")
          /\ job' = [job EXCEPT ![c] = [at |-> "transfer",
                        session |-> call[c].session, wallet |-> call[c].wallet]]
       \/ Fail(c) /\ UNCHANGED job
    /\ UNCHANGED <<cookies, deal, engine, docs, books>>

\* Mutant: settleSessionResponse.ok is not looked at.
SettledUnchecked(c) ==
    /\ At(c, "settle") /\ job[c].at \in {"stored", "failed"}
    /\ Advance(c, "ended")
    /\ job' = [job EXCEPT ![c] = NoJob]
    /\ UNCHANGED <<cookies, deal, engine, docs, books>>

\* The Ledger has answered.
Settled(c) ==
    /\ At(c, "settle") /\ job[c].at \in {"stored", "failed"}
    /\ IF job[c].at = "stored" THEN Advance(c, "ended") ELSE Fail(c)
    /\ job' = [job EXCEPT ![c] = NoJob]
    /\ UNCHANGED <<cookies, deal, engine, docs, books>>

\* The connection to the Ledger breaks; the Ledger carries on.
FetchFails(c) ==
    /\ At(c, "settle") /\ job[c].at \in {"transfer", "insert"}
    /\ Fail(c)
    /\ UNCHANGED <<cookies, job, deal, engine, docs, books>>

\* The answer clears the cookie, whatever session it is for by now.
AnswerEnd(c) ==
    /\ At(c, "ended")
    /\ jar' = [jar EXCEPT ![call[c].browser] = None] \/ UNCHANGED jar
    /\ Fail(c)
    /\ UNCHANGED <<access, job, deal, engine, docs, books>>

-----------------------------------------------------------------------------
(* settle_session in the Ledger service. *)

\* The Ledger answers, if anybody is still waiting.
Conclude(c, outcome) ==
    job' = [job EXCEPT ![c] =
              IF At(c, "settle") THEN [@ EXCEPT !.at = outcome] ELSE NoJob]

\* Mutant: the transfer is sent again when tx.wait() throws.
TransferRepeated(c) ==
    /\ job[c].at = "transfer"
    /\ charged' = [charged EXCEPT ![job[c].session][job[c].wallet] = @ + 1]
    /\ job' = [job EXCEPT ![c].at = "insert"] \/ UNCHANGED job
    /\ UNCHANGED <<cookies, call, deal, engine, docs, released, rows>>

\* transferFunds is mined.  tx.wait() may throw all the same.
Transfer(c) ==
    /\ job[c].at = "transfer"
    /\ charged' = [charged EXCEPT ![job[c].session][job[c].wallet] = @ + 1]
    /\ \/ job' = [job EXCEPT ![c].at = "insert"]
       \/ Conclude(c, "failed")
    /\ UNCHANGED <<cookies, call, deal, engine, docs, released, rows>>

\* transferFunds is not reached, or reverts: it needs the allowance that the
\* browser asks the wallet for before get_connection, and the balance.
TransferFails(c) ==
    /\ job[c].at = "transfer"
    /\ Conclude(c, "failed")
    /\ UNCHANGED <<cookies, call, deal, engine, docs, books>>

\* The history row is stored.
Insert(c) ==
    /\ job[c].at = "insert"
    /\ rows' = [rows EXCEPT ![job[c].session] = @ + 1]
    /\ Conclude(c, "stored")
    /\ UNCHANGED <<cookies, call, deal, engine, docs, released, charged>>

\* The database refuses; the transfer stays.
InsertFails(c) ==
    /\ job[c].at = "insert"
    /\ Conclude(c, "failed")
    /\ UNCHANGED <<cookies, call, deal, engine, docs, books>>

-----------------------------------------------------------------------------
(* What happens around a connection. *)

\* Mutant: a node in use may be removed.
EngineRemovesInUse(n) ==
    /\ n \in mesh
    /\ mesh' = mesh \ {n}
    /\ UNCHANGED <<cookies, call, job, deal, available, docs, books>>

\* remove_node, first the Engine, which refuses while the node is in use ...
EngineRemoves(n) ==
    /\ n \in mesh /\ available[n] >= Capacity
    /\ mesh' = mesh \ {n}
    /\ UNCHANGED <<cookies, call, job, deal, available, docs, books>>

\* ... then MongoDB.
DocumentDeleted(n) ==
    /\ n \in docs \ mesh
    /\ docs' = docs \ {n}
    /\ UNCHANGED <<cookies, call, job, deal, engine, books>>

\* The Orchestrator dies: its handlers are gone, what they called is not.
OrchestratorCrash ==
    /\ \E c \in Call : ~At(c, "idle")
    /\ call' = [c \in Call |-> NoCall]
    /\ job' = [c \in Call |->
                 IF job[c].at \in {"stored", "failed"} THEN NoJob ELSE job[c]]
    /\ UNCHANGED <<cookies, deal, engine, docs, books>>

\* The Ledger dies: its jobs are gone, and the callers see an error.
LedgerCrash ==
    /\ \E c \in Call : job[c].at \in {"transfer", "insert"}
    /\ job' = [c \in Call |->
                 IF job[c].at \notin {"transfer", "insert"} THEN job[c]
                 ELSE IF At(c, "settle") THEN [job[c] EXCEPT !.at = "failed"]
                 ELSE NoJob]
    /\ UNCHANGED <<cookies, call, deal, engine, docs, books>>

\* The steps of request c once the browser has sent it.
Handle(c) ==
    \/ Reserve(c) \/ Refuse(c) \/ AnswerConnection(c)
    \/ Release(c) \/ ReleaseFails(c) \/ FindNode(c) \/ Settled(c)
    \/ FetchFails(c) \/ AnswerEnd(c)

Settle(c) == Transfer(c) \/ TransferFails(c) \/ Insert(c) \/ InsertFails(c)

Next ==
    \/ \E b \in Browser, w \in Wallet : Login(b, w)
    \/ \E b \in Browser : Logout(b) \/ Expire(b)
    \/ \E b \in Browser, c \in Call : GetConnection(b, c) \/ EndConnection(b, c)
    \/ \E c \in Call : Handle(c) \/ Settle(c)
    \/ \E n \in Node : EngineRemoves(n) \/ DocumentDeleted(n)
    \/ OrchestratorCrash \/ LedgerCrash

Spec == Init /\ [][Next]_vars

-----------------------------------------------------------------------------
(* Correctness. *)

CallPlace == {"idle", "reserve", "lookup",
              "release", "find", "settle", "ended"}
JobPlace == {"none", "transfer", "insert", "stored", "failed"}
CallState == [at : CallPlace, browser : Browser \cup {None},
              session : Session \cup {None}, wallet : Wallet \cup {None}]
JobState == [at : JobPlace, session : Session \cup {None},
             wallet : Wallet \cup {None}]

\* Every variable keeps its type.
TypeOK ==
    /\ access \in [Browser -> Wallet \cup {None}]
    /\ jar \in [Browser -> Session \cup {None}]
    /\ call \in [Call -> CallState]
    /\ job \in [Call -> JobState]
    /\ deal \in [Session -> Deal \cup {None}]
    /\ mesh \subseteq Node /\ docs \subseteq Node
    /\ available \in [Node -> Nat]
    /\ released \in [Session -> Nat]
    /\ charged \in [Session -> [Wallet -> Nat]]
    /\ rows \in [Session -> Nat]

\* A session is charged to the wallet that reserved it and to no other,
\* although the user may log in with another wallet while its token is in the
\* jar, and several requests with several logins may be under way.
PayerIsOwner ==
    \A s \in Session, w \in Wallet :
        charged[s][w] > 0 => deal[s] # None /\ deal[s].wallet = w

\* However often end_connection is repeated and wherever it is cut off, there
\* are no more history rows than transfers by the session's owner (the only
\* payer there is, PayerIsOwner), and no more transfers than releases: nobody
\* pays for bandwidth that is still held for him.  It does not say that he pays
\* once: no handler remembers an end, and each one that is repeated, or
\* overlaps another, may release and charge again.
BooksInOrder ==
    \A s \in Session :
        IF deal[s] = None THEN rows[s] = 0
        ELSE LET paid == charged[s][deal[s].wallet]
             IN rows[s] <= paid /\ paid <= released[s]

\* When the user is told that a connection has ended, its bandwidth is back, its
\* owner has paid and the history has it: no failure on the way is swallowed.
ReceiptIsHonest ==
    \A c \in Call : At(c, "ended") =>
        LET s == call[c].session
        IN released[s] > 0 /\ charged[s][call[c].wallet] > 0 /\ rows[s] > 0

\* As long as no session was released twice, the Engine's counters agree with
\* the reservations that were never released, and a node that was removed has
\* none, through lost replies, crashes and concurrent removals.  A reservation
\* whose token is lost counts as one that was never released.
CapacityKept ==
    \A n \in Node :
        LET here == {s \in Reserved : NodeOf(s) = n}
            held == {s \in here : released[s] = 0}
        IN (\A s \in here : released[s] <= 1) =>
               IF n \in mesh THEN available[n] + Cardinality(held) = Capacity
                             ELSE held = {}

\* architecture.md: PostgreSQL stores the settled sessions.  So once the Ledger
\* is done with a session that was paid, the history has it.
PaidSessionsAreStored ==
    \A s \in Session :
        (\A c \in Call : job[c].session # s) => (Paid(s) > 0 => rows[s] > 0)

=============================================================================
