--------------------------- MODULE SettlementProofs ---------------------------
(***************************************************************************)
(* Proofs about SessionSettlement for any number of browsers, wallets,     *)
(* sessions and overlapping requests: the types, who pays for a session,   *)
(* what the user may rely on when end_connection succeeds, and the books.  *)
(*                                                                         *)
(* The books count.  What a request has released and not yet paid for, and *)
(* what a job has paid and not yet stored, are the requests and jobs at    *)
(* one place; a step moves one of them on, and the books with it.          *)
(***************************************************************************)
EXTENDS SettlementRefinement, FiniteSetTheorems, TLAPS

\* A request and a Ledger job carry the wallet that reserved their session.
RequestsMatchDeals ==
    /\ \A b \in Browser : jar[b] # None => jar[b] \in Reserved
    /\ \A c \in Call :
         /\ At(c, "reserve") => call[c].wallet \in Wallet
         /\ ~At(c, "idle") => call[c].browser \in Browser
         /\ call[c].at \in {"lookup", "release", "find", "settle", "ended"} =>
              /\ call[c].session \in Reserved
              /\ deal[call[c].session].wallet = call[c].wallet
         /\ job[c].at # "none" =>
              /\ job[c].session \in Reserved
              /\ deal[job[c].session].wallet = job[c].wallet

\* How far a request or a job has come shows in the books.
ProgressIsBooked ==
    \A c \in Call :
        /\ call[c].at \in {"find", "settle", "ended"} =>
             released[call[c].session] > 0
        /\ At(c, "settle") => /\ job[c].at # "none"
                              /\ job[c].session = call[c].session
        /\ job[c].at \in {"insert", "stored"} =>
             charged[job[c].session][job[c].wallet] > 0
        /\ job[c].at = "stored" => rows[job[c].session] > 0

\* The inductive invariant.
SettlementInv ==
    /\ TypeOK
    /\ PayerIsOwner
    /\ RequestsMatchDeals
    /\ ProgressIsBooked
    /\ ReceiptIsHonest

-----------------------------------------------------------------------------
\* What a step may do to a call or a job keeps its type.
LEMMA MovesKeepTypes ==
    ASSUME TypeOK, NEW c \in Call
    PROVE  /\ Fail(c) => call' \in [Call -> CallState]
           /\ \A p \in CallPlace : Advance(c, p) => call' \in [Call -> CallState]
           /\ \A p \in JobPlace : Conclude(c, p) => job' \in [Call -> JobState]
           /\ \A p \in JobPlace : [job EXCEPT ![c].at = p] \in [Call -> JobState]
<1>1. NoCall \in CallState /\ NoJob \in JobState
  BY DEF NoCall, NoJob, CallState, JobState, CallPlace, JobPlace
<1>2. call[c] \in CallState /\ job[c] \in JobState
  BY DEF TypeOK
<1>3. \A p \in CallPlace : [call[c] EXCEPT !.at = p] \in CallState
  BY <1>2 DEF CallState
<1>4. \A p \in JobPlace : [job[c] EXCEPT !.at = p] \in JobState
  BY <1>2 DEF JobState
<1> QED
  BY <1>1, <1>3, <1>4 DEF TypeOK, Fail, Advance, Conclude

\* A request that has been given a session is still a request.
LEMMA ReservedCall ==
    ASSUME NEW r \in CallState, NEW s \in Session
    PROVE  [r EXCEPT !.at = "lookup", !.session = s] \in CallState
BY DEF CallState, CallPlace

\* Every step keeps the types.
LEMMA TypeStep ==
    ASSUME TypeOK, RequestsMatchDeals, [Next]_vars
    PROVE  TypeOK'
<1> USE SettlementAssumption
<1> USE DEF TypeOK, cookies, engine, books
<1>1. ASSUME NEW b \in Browser, NEW w \in Wallet, Login(b, w)
      PROVE  TypeOK'
  BY <1>1 DEF Login
<1>2. ASSUME NEW b \in Browser, Logout(b)
      PROVE  TypeOK'
  BY <1>2 DEF Logout
<1>3. ASSUME NEW b \in Browser, Expire(b)
      PROVE  TypeOK'
  BY <1>3 DEF Expire
<1>4. ASSUME NEW b \in Browser, NEW c \in Call, GetConnection(b, c)
      PROVE  TypeOK'
  <2>1. access[b] \in Wallet
    BY <1>4 DEF GetConnection
  <2>2. call' \in [Call -> CallState]
    BY <1>4, <2>1 DEF GetConnection, NoCall, CallState, CallPlace
  <2> QED
    BY <1>4, <2>2 DEF GetConnection
<1>5. ASSUME NEW b \in Browser, NEW c \in Call, EndConnection(b, c)
      PROVE  TypeOK'
  <2>1. access[b] \in Wallet /\ jar[b] \in Session
    BY <1>5 DEF EndConnection
  <2>2. call' \in [Call -> CallState]
    BY <1>5, <2>1 DEF EndConnection, NoCall, CallState, CallPlace
  <2> QED
    BY <1>5, <2>2 DEF EndConnection
<1>6. ASSUME NEW c \in Call, Reserve(c)
      PROVE  TypeOK'
  <2>1. PICK s \in Session \ Reserved, n \in mesh :
          /\ available[n] >= 1
          /\ available' = [available EXCEPT ![n] = @ - 1]
          /\ deal' = [deal EXCEPT ![s] = [wallet |-> call[c].wallet, node |-> n]]
          /\ \/ call' = [call EXCEPT ![c].at = "lookup", ![c].session = s]
             \/ Fail(c)
    BY <1>6 DEF Reserve
  <2>2. call[c].wallet \in Wallet
    BY <1>6 DEF RequestsMatchDeals, Reserve
  <2>3. deal' \in [Session -> Deal \cup {None}]
    BY <2>1, <2>2 DEF Deal
  <2>4. available' \in [Node -> Nat]
    BY <2>1
  <2>5. [call[c] EXCEPT !.at = "lookup", !.session = s] \in CallState
    <3>1. call[c] \in CallState
      OBVIOUS
    <3> QED
      BY <3>1, ReservedCall
  <2>6. call' \in [Call -> CallState]
    BY <2>1, <2>5, MovesKeepTypes
  <2> QED
    BY <1>6, <2>3, <2>4, <2>6 DEF Reserve
<1>7. ASSUME NEW c \in Call, Refuse(c)
      PROVE  TypeOK'
  <2>1. call' \in [Call -> CallState]
    BY <1>7, MovesKeepTypes DEF Refuse
  <2> QED
    BY <1>7, <2>1 DEF Refuse
<1>8. ASSUME NEW c \in Call, AnswerConnection(c)
      PROVE  TypeOK'
  <2>1. call' \in [Call -> CallState]
    BY <1>8, MovesKeepTypes DEF AnswerConnection
  <2>2. call[c].session \in Session \cup {None}
    BY DEF CallState
  <2> QED
    BY <1>8, <2>1, <2>2 DEF AnswerConnection
<1>9. ASSUME NEW c \in Call, Release(c)
      PROVE  TypeOK'
  <2>1. call' \in [Call -> CallState]
    BY <1>9, MovesKeepTypes DEF Release, CallPlace
  <2> DEFINE s == call[c].session
  <2>2. s \in Session /\ deal[s] \in Deal
    BY <1>9 DEF RequestsMatchDeals, Release, At, Reserved
  <2>3. NodeOf(s) \in Node
    BY <2>2 DEF NodeOf, Deal
  <2>4. released' \in [Session -> Nat]
    BY <1>9, <2>2 DEF Release
  <2>5. available' \in [Node -> Nat]
    BY <1>9, <2>3 DEF Release
  <2> QED
    BY <1>9, <2>1, <2>4, <2>5 DEF Release
<1>10. ASSUME NEW c \in Call, ReleaseFails(c)
      PROVE  TypeOK'
  <2>1. call' \in [Call -> CallState]
    BY <1>10, MovesKeepTypes DEF ReleaseFails
  <2> QED
    BY <1>10, <2>1 DEF ReleaseFails
<1>11. ASSUME NEW c \in Call, FindNode(c)
      PROVE  TypeOK'
  <2>1. call' \in [Call -> CallState]
    BY <1>11, MovesKeepTypes DEF FindNode, CallPlace
  <2>2. [at |-> "transfer", session |-> call[c].session,
         wallet |-> call[c].wallet] \in JobState
    BY DEF CallState, JobState, JobPlace
  <2>3. job' \in [Call -> JobState]
    BY <1>11, <2>2 DEF FindNode
  <2> QED
    BY <1>11, <2>1, <2>3 DEF FindNode
<1>12. ASSUME NEW c \in Call, Settled(c)
      PROVE  TypeOK'
  <2>1. call' \in [Call -> CallState]
    BY <1>12, MovesKeepTypes DEF Settled, CallPlace
  <2>2. job' \in [Call -> JobState]
    BY <1>12 DEF Settled, NoJob, JobState, JobPlace
  <2> QED
    BY <1>12, <2>1, <2>2 DEF Settled
<1>13. ASSUME NEW c \in Call, FetchFails(c)
      PROVE  TypeOK'
  <2>1. call' \in [Call -> CallState]
    BY <1>13, MovesKeepTypes DEF FetchFails
  <2> QED
    BY <1>13, <2>1 DEF FetchFails
<1>14. ASSUME NEW c \in Call, AnswerEnd(c)
      PROVE  TypeOK'
  <2>1. call' \in [Call -> CallState]
    BY <1>14, MovesKeepTypes DEF AnswerEnd
  <2> QED
    BY <1>14, <2>1 DEF AnswerEnd
<1>15. ASSUME NEW c \in Call, Transfer(c)
      PROVE  TypeOK'
  <2>1. [job EXCEPT ![c].at = "insert"] \in [Call -> JobState]
    <3>1. "insert" \in JobPlace
      BY DEF JobPlace
    <3> QED
      BY <3>1, MovesKeepTypes
  <2>2. Conclude(c, "failed") => job' \in [Call -> JobState]
    BY MovesKeepTypes DEF JobPlace
  <2>3. job' \in [Call -> JobState]
    BY <1>15, <2>1, <2>2 DEF Transfer
  <2>4. job[c].session \in Session /\ job[c].wallet \in Wallet
    BY <1>15 DEF RequestsMatchDeals, Transfer, Reserved, Deal
  <2>5. charged' \in [Session -> [Wallet -> Nat]]
    <3>1. charged[job[c].session][job[c].wallet] + 1 \in Nat
      BY <2>4
    <3>2. [charged[job[c].session] EXCEPT ![job[c].wallet] = @ + 1]
            \in [Wallet -> Nat]
      BY <3>1, <2>4
    <3> QED
      BY <1>15, <3>2 DEF Transfer
  <2> QED
    BY <1>15, <2>3, <2>5 DEF Transfer
<1>16. ASSUME NEW c \in Call, TransferFails(c)
      PROVE  TypeOK'
  <2>1. job' \in [Call -> JobState]
    BY <1>16, MovesKeepTypes DEF TransferFails, JobPlace
  <2> QED
    BY <1>16, <2>1 DEF TransferFails
<1>17. ASSUME NEW c \in Call, Insert(c)
      PROVE  TypeOK'
  <2>1. job' \in [Call -> JobState]
    BY <1>17, MovesKeepTypes DEF Insert, JobPlace
  <2>2. job[c].session \in Session
    BY <1>17 DEF RequestsMatchDeals, Insert, Reserved
  <2>3. rows' \in [Session -> Nat]
    BY <1>17, <2>2 DEF Insert
  <2> QED
    BY <1>17, <2>1, <2>3 DEF Insert
<1>18. ASSUME NEW c \in Call, InsertFails(c)
      PROVE  TypeOK'
  <2>1. job' \in [Call -> JobState]
    BY <1>18, MovesKeepTypes DEF InsertFails, JobPlace
  <2> QED
    BY <1>18, <2>1 DEF InsertFails
<1>19. ASSUME NEW n \in Node, EngineRemoves(n)
      PROVE  TypeOK'
  BY <1>19 DEF EngineRemoves
<1>20. ASSUME NEW n \in Node, DocumentDeleted(n)
      PROVE  TypeOK'
  BY <1>20 DEF DocumentDeleted
<1>21. CASE OrchestratorCrash
  <2>1. NoCall \in CallState /\ NoJob \in JobState
    BY DEF NoCall, NoJob, CallState, JobState, CallPlace, JobPlace
  <2> QED
    BY <1>21, <2>1 DEF OrchestratorCrash
<1>22. CASE LedgerCrash
  <2>1. NoJob \in JobState
    BY DEF NoJob, JobState, JobPlace
  <2>2. \A c \in Call : [job[c] EXCEPT !.at = "failed"] \in JobState
    BY DEF JobState, JobPlace
  <2>3. job' \in [Call -> JobState]
    BY <1>22, <2>1, <2>2 DEF LedgerCrash
  <2> QED
    BY <1>22, <2>3 DEF LedgerCrash
<1>23. CASE UNCHANGED vars
  BY <1>23 DEF vars
<1> QED
  BY <1>1, <1>2, <1>3, <1>4, <1>5, <1>6, <1>7, <1>8, <1>9, <1>10, <1>11, <1>12, <1>13, <1>14, <1>15, <1>16, <1>17, <1>18, <1>19, <1>20, <1>21, <1>22, <1>23 DEF Next, Handle, Settle

\* Every step keeps requests and deals together.
LEMMA MatchStep ==
    ASSUME TypeOK, RequestsMatchDeals, [Next]_vars
    PROVE  RequestsMatchDeals'
<1> USE SettlementAssumption
<1> USE DEF TypeOK, RequestsMatchDeals, NoCall, NoJob, Idle, At, Advance, Fail, Conclude, NodeOf,
      Reserved, CallPlace, JobPlace, CallState, JobState, Deal, cookies, engine, books
<1>1. ASSUME NEW b \in Browser, NEW w \in Wallet, Login(b, w)
      PROVE  RequestsMatchDeals'
  BY <1>1 DEF Login
<1>2. ASSUME NEW b \in Browser, Logout(b)
      PROVE  RequestsMatchDeals'
  BY <1>2 DEF Logout
<1>3. ASSUME NEW b \in Browser, Expire(b)
      PROVE  RequestsMatchDeals'
  BY <1>3 DEF Expire
<1>4. ASSUME NEW b \in Browser, NEW c \in Call, GetConnection(b, c)
      PROVE  RequestsMatchDeals'
  BY <1>4 DEF GetConnection
<1>5. ASSUME NEW b \in Browser, NEW c \in Call, EndConnection(b, c)
      PROVE  RequestsMatchDeals'
  BY <1>5 DEF EndConnection
<1>6. ASSUME NEW c \in Call, Reserve(c)
      PROVE  RequestsMatchDeals'
  <2>1. PICK s \in Session \ Reserved, n \in mesh :
          /\ available[n] >= 1
          /\ available' = [available EXCEPT ![n] = @ - 1]
          /\ deal' = [deal EXCEPT ![s] = [wallet |-> call[c].wallet, node |-> n]]
          /\ \/ call' = [call EXCEPT ![c].at = "lookup", ![c].session = s]
             \/ Fail(c)
    BY <1>6 DEF Reserve
  <2>2. CASE call' = [call EXCEPT ![c].at = "lookup", ![c].session = s]
    <3>1. deal'[s].wallet = call[c].wallet /\ s \in Session /\ deal'[s] # None
      <4>1. call[c].wallet \in Wallet
        BY <1>6 DEF Reserve
      <4>2. [wallet |-> call[c].wallet, node |-> n] # None
        BY <4>1, <2>1
      <4> QED
        BY <2>1, <4>2
    <3>2. call'[c].session = s /\ call'[c].wallet = call[c].wallet
      BY <2>2
    <3>3. \A x \in Reserved : deal'[x] = deal[x]
      BY <2>1
    <3> QED
      BY <1>6, <2>1, <2>2, <3>1, <3>2, <3>3 DEF Reserve
  <2>3. CASE Fail(c)
    BY <1>6, <2>1, <2>3 DEF Reserve
  <2> QED
    BY <2>1, <2>2, <2>3
<1>7. ASSUME NEW c \in Call, Refuse(c)
      PROVE  RequestsMatchDeals'
  BY <1>7 DEF Refuse
<1>8. ASSUME NEW c \in Call, AnswerConnection(c)
      PROVE  RequestsMatchDeals'
  BY <1>8 DEF AnswerConnection
<1>9. ASSUME NEW c \in Call, Release(c)
      PROVE  RequestsMatchDeals'
  <2>1. CASE Advance(c, "find")
    BY <1>9, <2>1 DEF Release
  <2>2. CASE Fail(c)
    BY <1>9, <2>2 DEF Release
  <2> QED
    BY <1>9, <2>1, <2>2 DEF Release
<1>10. ASSUME NEW c \in Call, ReleaseFails(c)
      PROVE  RequestsMatchDeals'
  BY <1>10 DEF ReleaseFails
<1>11. ASSUME NEW c \in Call, FindNode(c)
      PROVE  RequestsMatchDeals'
  <2>1. CASE Advance(c, "settle") /\ ~Fail(c)
    BY <1>11, <2>1 DEF FindNode
  <2>2. CASE Fail(c)
    BY <1>11, <2>2 DEF FindNode
  <2> QED
    BY <1>11, <2>1, <2>2 DEF FindNode
<1>12. ASSUME NEW c \in Call, Settled(c)
      PROVE  RequestsMatchDeals'
  <2>1. CASE job[c].at = "stored"
    <3>1. Advance(c, "ended") /\ job' = [job EXCEPT ![c] = NoJob]
      BY <1>12, <2>1 DEF Settled
    <3> QED
      BY <1>12, <2>1, <3>1 DEF Settled
  <2>2. CASE job[c].at # "stored"
    BY <1>12, <2>2 DEF Settled
  <2> QED
    BY <2>1, <2>2
<1>13. ASSUME NEW c \in Call, FetchFails(c)
      PROVE  RequestsMatchDeals'
  BY <1>13 DEF FetchFails
<1>14. ASSUME NEW c \in Call, AnswerEnd(c)
      PROVE  RequestsMatchDeals'
  BY <1>14 DEF AnswerEnd
<1>15. ASSUME NEW c \in Call, Transfer(c)
      PROVE  RequestsMatchDeals'
  <2>1. CASE job' = [job EXCEPT ![c].at = "insert"]
    BY <1>15, <2>1 DEF Transfer
  <2>2. CASE Conclude(c, "failed")
    BY <1>15, <2>2 DEF Transfer
  <2> QED
    BY <1>15, <2>1, <2>2 DEF Transfer
<1>16. ASSUME NEW c \in Call, TransferFails(c)
      PROVE  RequestsMatchDeals'
  BY <1>16 DEF TransferFails
<1>17. ASSUME NEW c \in Call, Insert(c)
      PROVE  RequestsMatchDeals'
  BY <1>17 DEF Insert
<1>18. ASSUME NEW c \in Call, InsertFails(c)
      PROVE  RequestsMatchDeals'
  BY <1>18 DEF InsertFails
<1>19. ASSUME NEW n \in Node, EngineRemoves(n)
      PROVE  RequestsMatchDeals'
  BY <1>19 DEF EngineRemoves
<1>20. ASSUME NEW n \in Node, DocumentDeleted(n)
      PROVE  RequestsMatchDeals'
  BY <1>20 DEF DocumentDeleted
<1>21. CASE OrchestratorCrash
  BY <1>21 DEF OrchestratorCrash
<1>22. CASE LedgerCrash
  BY <1>22 DEF LedgerCrash
<1>23. CASE UNCHANGED vars
  BY <1>23 DEF vars
<1> QED
  BY <1>1, <1>2, <1>3, <1>4, <1>5, <1>6, <1>7, <1>8, <1>9, <1>10, <1>11, <1>12, <1>13, <1>14, <1>15, <1>16, <1>17, <1>18, <1>19, <1>20, <1>21, <1>22, <1>23 DEF Next, Handle, Settle

\* Every step keeps the payer right.
LEMMA PayerStep ==
    ASSUME TypeOK, RequestsMatchDeals, PayerIsOwner, [Next]_vars
    PROVE  PayerIsOwner'
<1> USE SettlementAssumption
<1> USE DEF TypeOK, RequestsMatchDeals, PayerIsOwner, NoCall, NoJob, Idle, At, Advance, Fail, Conclude, NodeOf,
      Reserved, CallPlace, JobPlace, CallState, JobState, Deal, cookies, engine, books
<1>1. ASSUME NEW b \in Browser, NEW w \in Wallet, Login(b, w)
      PROVE  PayerIsOwner'
  BY <1>1 DEF Login
<1>2. ASSUME NEW b \in Browser, Logout(b)
      PROVE  PayerIsOwner'
  BY <1>2 DEF Logout
<1>3. ASSUME NEW b \in Browser, Expire(b)
      PROVE  PayerIsOwner'
  BY <1>3 DEF Expire
<1>4. ASSUME NEW b \in Browser, NEW c \in Call, GetConnection(b, c)
      PROVE  PayerIsOwner'
  BY <1>4 DEF GetConnection
<1>5. ASSUME NEW b \in Browser, NEW c \in Call, EndConnection(b, c)
      PROVE  PayerIsOwner'
  BY <1>5 DEF EndConnection
<1>6. ASSUME NEW c \in Call, Reserve(c)
      PROVE  PayerIsOwner'
  BY <1>6 DEF Reserve
<1>7. ASSUME NEW c \in Call, Refuse(c)
      PROVE  PayerIsOwner'
  BY <1>7 DEF Refuse
<1>8. ASSUME NEW c \in Call, AnswerConnection(c)
      PROVE  PayerIsOwner'
  BY <1>8 DEF AnswerConnection
<1>9. ASSUME NEW c \in Call, Release(c)
      PROVE  PayerIsOwner'
  BY <1>9 DEF Release
<1>10. ASSUME NEW c \in Call, ReleaseFails(c)
      PROVE  PayerIsOwner'
  BY <1>10 DEF ReleaseFails
<1>11. ASSUME NEW c \in Call, FindNode(c)
      PROVE  PayerIsOwner'
  BY <1>11 DEF FindNode
<1>12. ASSUME NEW c \in Call, Settled(c)
      PROVE  PayerIsOwner'
  BY <1>12 DEF Settled
<1>13. ASSUME NEW c \in Call, FetchFails(c)
      PROVE  PayerIsOwner'
  BY <1>13 DEF FetchFails
<1>14. ASSUME NEW c \in Call, AnswerEnd(c)
      PROVE  PayerIsOwner'
  BY <1>14 DEF AnswerEnd
<1>15. ASSUME NEW c \in Call, Transfer(c)
      PROVE  PayerIsOwner'
  <2>1. CASE job' = [job EXCEPT ![c].at = "insert"]
    BY <1>15, <2>1 DEF Transfer
  <2>2. CASE Conclude(c, "failed")
    BY <1>15, <2>2 DEF Transfer
  <2> QED
    BY <1>15, <2>1, <2>2 DEF Transfer
<1>16. ASSUME NEW c \in Call, TransferFails(c)
      PROVE  PayerIsOwner'
  BY <1>16 DEF TransferFails
<1>17. ASSUME NEW c \in Call, Insert(c)
      PROVE  PayerIsOwner'
  BY <1>17 DEF Insert
<1>18. ASSUME NEW c \in Call, InsertFails(c)
      PROVE  PayerIsOwner'
  BY <1>18 DEF InsertFails
<1>19. ASSUME NEW n \in Node, EngineRemoves(n)
      PROVE  PayerIsOwner'
  BY <1>19 DEF EngineRemoves
<1>20. ASSUME NEW n \in Node, DocumentDeleted(n)
      PROVE  PayerIsOwner'
  BY <1>20 DEF DocumentDeleted
<1>21. CASE OrchestratorCrash
  BY <1>21 DEF OrchestratorCrash
<1>22. CASE LedgerCrash
  BY <1>22 DEF LedgerCrash
<1>23. CASE UNCHANGED vars
  BY <1>23 DEF vars
<1> QED
  BY <1>1, <1>2, <1>3, <1>4, <1>5, <1>6, <1>7, <1>8, <1>9, <1>10, <1>11, <1>12, <1>13, <1>14, <1>15, <1>16, <1>17, <1>18, <1>19, <1>20, <1>21, <1>22, <1>23 DEF Next, Handle, Settle

\* Every step keeps progress and books together.
LEMMA ProgressStep ==
    ASSUME TypeOK, RequestsMatchDeals, ProgressIsBooked, [Next]_vars
    PROVE  ProgressIsBooked'
<1> USE SettlementAssumption
<1> USE DEF TypeOK, RequestsMatchDeals, ProgressIsBooked, NoCall, NoJob, Idle, At, Advance, Fail, Conclude, NodeOf,
      Reserved, CallPlace, JobPlace, CallState, JobState, Deal, cookies, engine, books
<1>1. ASSUME NEW b \in Browser, NEW w \in Wallet, Login(b, w)
      PROVE  ProgressIsBooked'
  BY <1>1 DEF Login
<1>2. ASSUME NEW b \in Browser, Logout(b)
      PROVE  ProgressIsBooked'
  BY <1>2 DEF Logout
<1>3. ASSUME NEW b \in Browser, Expire(b)
      PROVE  ProgressIsBooked'
  BY <1>3 DEF Expire
<1>4. ASSUME NEW b \in Browser, NEW c \in Call, GetConnection(b, c)
      PROVE  ProgressIsBooked'
  BY <1>4 DEF GetConnection
<1>5. ASSUME NEW b \in Browser, NEW c \in Call, EndConnection(b, c)
      PROVE  ProgressIsBooked'
  BY <1>5 DEF EndConnection
<1>6. ASSUME NEW c \in Call, Reserve(c)
      PROVE  ProgressIsBooked'
  <2>1. PICK s \in Session \ Reserved, n \in mesh :
          /\ available[n] >= 1
          /\ available' = [available EXCEPT ![n] = @ - 1]
          /\ deal' = [deal EXCEPT ![s] = [wallet |-> call[c].wallet, node |-> n]]
          /\ \/ call' = [call EXCEPT ![c].at = "lookup", ![c].session = s]
             \/ Fail(c)
    BY <1>6 DEF Reserve
  <2>2. CASE call' = [call EXCEPT ![c].at = "lookup", ![c].session = s]
    BY <1>6, <2>1, <2>2 DEF Reserve
  <2>3. CASE Fail(c)
    BY <1>6, <2>1, <2>3 DEF Reserve
  <2> QED
    BY <2>1, <2>2, <2>3
<1>7. ASSUME NEW c \in Call, Refuse(c)
      PROVE  ProgressIsBooked'
  BY <1>7 DEF Refuse
<1>8. ASSUME NEW c \in Call, AnswerConnection(c)
      PROVE  ProgressIsBooked'
  BY <1>8 DEF AnswerConnection
<1>9. ASSUME NEW c \in Call, Release(c)
      PROVE  ProgressIsBooked'
  <2>1. CASE Advance(c, "find")
    BY <1>9, <2>1 DEF Release
  <2>2. CASE Fail(c)
    BY <1>9, <2>2 DEF Release
  <2> QED
    BY <1>9, <2>1, <2>2 DEF Release
<1>10. ASSUME NEW c \in Call, ReleaseFails(c)
      PROVE  ProgressIsBooked'
  BY <1>10 DEF ReleaseFails
<1>11. ASSUME NEW c \in Call, FindNode(c)
      PROVE  ProgressIsBooked'
  <2>1. CASE Advance(c, "settle") /\ ~Fail(c)
    BY <1>11, <2>1 DEF FindNode
  <2>2. CASE Fail(c)
    BY <1>11, <2>2 DEF FindNode
  <2> QED
    BY <1>11, <2>1, <2>2 DEF FindNode
<1>12. ASSUME NEW c \in Call, Settled(c)
      PROVE  ProgressIsBooked'
  BY <1>12 DEF Settled
<1>13. ASSUME NEW c \in Call, FetchFails(c)
      PROVE  ProgressIsBooked'
  BY <1>13 DEF FetchFails
<1>14. ASSUME NEW c \in Call, AnswerEnd(c)
      PROVE  ProgressIsBooked'
  BY <1>14 DEF AnswerEnd
<1>15. ASSUME NEW c \in Call, Transfer(c)
      PROVE  ProgressIsBooked'
  <2>1. CASE job' = [job EXCEPT ![c].at = "insert"]
    BY <1>15, <2>1 DEF Transfer
  <2>2. CASE Conclude(c, "failed")
    BY <1>15, <2>2 DEF Transfer
  <2> QED
    BY <1>15, <2>1, <2>2 DEF Transfer
<1>16. ASSUME NEW c \in Call, TransferFails(c)
      PROVE  ProgressIsBooked'
  BY <1>16 DEF TransferFails
<1>17. ASSUME NEW c \in Call, Insert(c)
      PROVE  ProgressIsBooked'
  BY <1>17 DEF Insert
<1>18. ASSUME NEW c \in Call, InsertFails(c)
      PROVE  ProgressIsBooked'
  BY <1>18 DEF InsertFails
<1>19. ASSUME NEW n \in Node, EngineRemoves(n)
      PROVE  ProgressIsBooked'
  BY <1>19 DEF EngineRemoves
<1>20. ASSUME NEW n \in Node, DocumentDeleted(n)
      PROVE  ProgressIsBooked'
  BY <1>20 DEF DocumentDeleted
<1>21. CASE OrchestratorCrash
  BY <1>21 DEF OrchestratorCrash
<1>22. CASE LedgerCrash
  BY <1>22 DEF LedgerCrash
<1>23. CASE UNCHANGED vars
  BY <1>23 DEF vars
<1> QED
  BY <1>1, <1>2, <1>3, <1>4, <1>5, <1>6, <1>7, <1>8, <1>9, <1>10, <1>11, <1>12, <1>13, <1>14, <1>15, <1>16, <1>17, <1>18, <1>19, <1>20, <1>21, <1>22, <1>23 DEF Next, Handle, Settle

\* Every step keeps receipts honest.
LEMMA ReceiptStep ==
    ASSUME TypeOK, RequestsMatchDeals, ProgressIsBooked, ReceiptIsHonest, [Next]_vars
    PROVE  ReceiptIsHonest'
<1> USE SettlementAssumption
<1> USE DEF TypeOK, RequestsMatchDeals, ProgressIsBooked, ReceiptIsHonest, NoCall, NoJob, Idle, At, Advance, Fail, Conclude, NodeOf,
      Reserved, CallPlace, JobPlace, CallState, JobState, Deal, cookies, engine, books
<1>1. ASSUME NEW b \in Browser, NEW w \in Wallet, Login(b, w)
      PROVE  ReceiptIsHonest'
  BY <1>1 DEF Login
<1>2. ASSUME NEW b \in Browser, Logout(b)
      PROVE  ReceiptIsHonest'
  BY <1>2 DEF Logout
<1>3. ASSUME NEW b \in Browser, Expire(b)
      PROVE  ReceiptIsHonest'
  BY <1>3 DEF Expire
<1>4. ASSUME NEW b \in Browser, NEW c \in Call, GetConnection(b, c)
      PROVE  ReceiptIsHonest'
  BY <1>4 DEF GetConnection
<1>5. ASSUME NEW b \in Browser, NEW c \in Call, EndConnection(b, c)
      PROVE  ReceiptIsHonest'
  BY <1>5 DEF EndConnection
<1>6. ASSUME NEW c \in Call, Reserve(c)
      PROVE  ReceiptIsHonest'
  BY <1>6 DEF Reserve
<1>7. ASSUME NEW c \in Call, Refuse(c)
      PROVE  ReceiptIsHonest'
  BY <1>7 DEF Refuse
<1>8. ASSUME NEW c \in Call, AnswerConnection(c)
      PROVE  ReceiptIsHonest'
  BY <1>8 DEF AnswerConnection
<1>9. ASSUME NEW c \in Call, Release(c)
      PROVE  ReceiptIsHonest'
  <2>1. CASE Advance(c, "find")
    BY <1>9, <2>1 DEF Release
  <2>2. CASE Fail(c)
    BY <1>9, <2>2 DEF Release
  <2> QED
    BY <1>9, <2>1, <2>2 DEF Release
<1>10. ASSUME NEW c \in Call, ReleaseFails(c)
      PROVE  ReceiptIsHonest'
  BY <1>10 DEF ReleaseFails
<1>11. ASSUME NEW c \in Call, FindNode(c)
      PROVE  ReceiptIsHonest'
  <2>1. CASE Advance(c, "settle") /\ ~Fail(c)
    BY <1>11, <2>1 DEF FindNode
  <2>2. CASE Fail(c)
    BY <1>11, <2>2 DEF FindNode
  <2> QED
    BY <1>11, <2>1, <2>2 DEF FindNode
<1>12. ASSUME NEW c \in Call, Settled(c)
      PROVE  ReceiptIsHonest'
  <2>1. CASE job[c].at = "stored"
    <3>1. Advance(c, "ended") /\ job' = [job EXCEPT ![c] = NoJob]
      BY <1>12, <2>1 DEF Settled
    <3> QED
      BY <1>12, <2>1, <3>1 DEF Settled
  <2>2. CASE job[c].at # "stored"
    BY <1>12, <2>2 DEF Settled
  <2> QED
    BY <2>1, <2>2
<1>13. ASSUME NEW c \in Call, FetchFails(c)
      PROVE  ReceiptIsHonest'
  BY <1>13 DEF FetchFails
<1>14. ASSUME NEW c \in Call, AnswerEnd(c)
      PROVE  ReceiptIsHonest'
  BY <1>14 DEF AnswerEnd
<1>15. ASSUME NEW c \in Call, Transfer(c)
      PROVE  ReceiptIsHonest'
  BY <1>15 DEF Transfer
<1>16. ASSUME NEW c \in Call, TransferFails(c)
      PROVE  ReceiptIsHonest'
  BY <1>16 DEF TransferFails
<1>17. ASSUME NEW c \in Call, Insert(c)
      PROVE  ReceiptIsHonest'
  BY <1>17 DEF Insert
<1>18. ASSUME NEW c \in Call, InsertFails(c)
      PROVE  ReceiptIsHonest'
  BY <1>18 DEF InsertFails
<1>19. ASSUME NEW n \in Node, EngineRemoves(n)
      PROVE  ReceiptIsHonest'
  BY <1>19 DEF EngineRemoves
<1>20. ASSUME NEW n \in Node, DocumentDeleted(n)
      PROVE  ReceiptIsHonest'
  BY <1>20 DEF DocumentDeleted
<1>21. CASE OrchestratorCrash
  BY <1>21 DEF OrchestratorCrash
<1>22. CASE LedgerCrash
  BY <1>22 DEF LedgerCrash
<1>23. CASE UNCHANGED vars
  BY <1>23 DEF vars
<1> QED
  BY <1>1, <1>2, <1>3, <1>4, <1>5, <1>6, <1>7, <1>8, <1>9, <1>10, <1>11, <1>12, <1>13, <1>14, <1>15, <1>16, <1>17, <1>18, <1>19, <1>20, <1>21, <1>22, <1>23 DEF Next, Handle, Settle

-----------------------------------------------------------------------------
(* Theorems. *)

\* The inductive invariant holds for any number of users, sessions and
\* overlapping requests.
THEOREM SettlementInvariant == Spec => []SettlementInv
<1>1. Init => SettlementInv
  BY SettlementAssumption
     DEF Init, SettlementInv, TypeOK, PayerIsOwner, RequestsMatchDeals,
         ProgressIsBooked, ReceiptIsHonest, CallState, JobState, CallPlace,
         JobPlace, NoCall, NoJob, At
<1>2. SettlementInv /\ [Next]_vars => SettlementInv'
  BY TypeStep, MatchStep, PayerStep, ProgressStep, ReceiptStep DEF SettlementInv
<1> QED
  BY <1>1, <1>2, PTL DEF Spec

\* The services' state keeps its types; no node's bandwidth goes below zero.
THEOREM SettlementTypes == Spec => []TypeOK
BY SettlementInvariant, PTL DEF SettlementInv

\* Only the wallet that reserved a session ever pays for it (the comparison of
\* the two cookies in terminateConnection).
THEOREM OnlyTheOwnerPays == Spec => []PayerIsOwner
BY SettlementInvariant, PTL DEF SettlementInv

\* end_connection never reports success unless the release, the transfer and
\* the history row have all happened.
THEOREM ReceiptsAreHonest == Spec => []ReceiptIsHonest
BY SettlementInvariant, PTL DEF SettlementInv

-----------------------------------------------------------------------------
(* Rows, transfers and releases in order, and the Engine's counters. *)

\* Requests that have released s and are not paid for; jobs that are about to
\* pay for s; jobs that have paid for s and are about to store it.
Finding(s) == {c \in Call : call[c].at = "find" /\ call[c].session = s}
Paying(s) == {c \in Call : job[c].at = "transfer" /\ job[c].session = s}
Storing(s) == {c \in Call : job[c].at = "insert" /\ job[c].session = s}

Balanced(s) ==
    IF deal[s] = None THEN rows[s] = 0 /\ released[s] = 0
    ELSE LET paid == charged[s][deal[s].wallet]
         IN /\ rows[s] + Cardinality(Storing(s)) <= paid
            /\ paid + Cardinality(Finding(s)) + Cardinality(Paying(s)) <= released[s]

BooksInv == \A s \in Session : Balanced(s)

-----------------------------------------------------------------------------
(* Counting. *)

\* Sets of requests are finite; one more and one less.
LEMMA Counting ==
    ASSUME NEW S, NEW T, NEW c, IsFiniteSet(S)
    PROVE  /\ Cardinality(S) \in Nat
           /\ T \subseteq S => Cardinality(T) <= Cardinality(S)
           /\ T \subseteq S \cup {c} => Cardinality(T) <= Cardinality(S) + 1
           /\ T \subseteq S \ {c} /\ c \in S => Cardinality(T) <= Cardinality(S) - 1
           /\ T \subseteq S \cup {c} => IsFiniteSet(T) /\ Cardinality(T) \in Nat
<1>1. Cardinality(S) \in Nat
  BY FS_CardinalityType
<1>2. /\ IsFiniteSet(S \cup {c})
      /\ Cardinality(S \cup {c}) <= Cardinality(S) + 1
      /\ Cardinality(S \cup {c}) \in Nat
  BY <1>1, FS_AddElement
<1>3. /\ IsFiniteSet(S \ {c})
      /\ c \in S => Cardinality(S \ {c}) = Cardinality(S) - 1
  BY FS_RemoveElement
<1>4. ASSUME T \subseteq S
      PROVE  Cardinality(T) <= Cardinality(S)
  BY <1>4, FS_Subset
<1>5. ASSUME T \subseteq S \cup {c}
      PROVE  /\ Cardinality(T) <= Cardinality(S) + 1
             /\ IsFiniteSet(T) /\ Cardinality(T) \in Nat
  <2>1. IsFiniteSet(T) /\ Cardinality(T) <= Cardinality(S \cup {c})
    BY <1>2, <1>5, FS_Subset
  <2>2. Cardinality(T) \in Nat
    BY <2>1, FS_CardinalityType
  <2> QED
    BY <1>1, <1>2, <2>1, <2>2
<1>6. ASSUME T \subseteq S \ {c}, c \in S
      PROVE  Cardinality(T) <= Cardinality(S) - 1
  <2>1. Cardinality(T) <= Cardinality(S \ {c})
    BY <1>3, <1>6, FS_Subset
  <2> QED
    BY <1>3, <1>6, <2>1
<1> QED
  BY <1>1, <1>4, <1>5, <1>6

\* The three counts are counts.
LEMMA Counts ==
    ASSUME NEW s
    PROVE  /\ IsFiniteSet(Finding(s)) /\ Cardinality(Finding(s)) \in Nat
           /\ IsFiniteSet(Paying(s)) /\ Cardinality(Paying(s)) \in Nat
           /\ IsFiniteSet(Storing(s)) /\ Cardinality(Storing(s)) \in Nat
           /\ IsFiniteSet(Finding(s)') /\ Cardinality(Finding(s)') \in Nat
           /\ IsFiniteSet(Paying(s)') /\ Cardinality(Paying(s)') \in Nat
           /\ IsFiniteSet(Storing(s)') /\ Cardinality(Storing(s)') \in Nat
<1>1. /\ Finding(s) \in SUBSET Call /\ Paying(s) \in SUBSET Call
      /\ Storing(s) \in SUBSET Call
      /\ Finding(s)' \in SUBSET Call /\ Paying(s)' \in SUBSET Call
      /\ Storing(s)' \in SUBSET Call
  BY DEF Finding, Paying, Storing
<1>2. \A T \in SUBSET Call : IsFiniteSet(T) /\ Cardinality(T) \in Nat
  BY SettlementAssumption, FS_Subset, FS_CardinalityType
<1> QED
  BY <1>1, <1>2

-----------------------------------------------------------------------------
(* The books. *)

\* A session stays in balance when what it gains covers what it owes.
LEMMA BalanceMoves ==
    ASSUME TypeOK, TypeOK', NEW s \in Session, Balanced(s), deal'[s] = deal[s],
           deal[s] = None => rows'[s] = rows[s] /\ released'[s] = released[s],
           deal[s] # None =>
             LET w == deal[s].wallet
             IN /\ (rows'[s] - rows[s])
                     + (Cardinality(Storing(s)') - Cardinality(Storing(s)))
                     <= charged'[s][w] - charged[s][w]
                /\ (charged'[s][w] - charged[s][w])
                     + (Cardinality(Finding(s)') - Cardinality(Finding(s)))
                     + (Cardinality(Paying(s)') - Cardinality(Paying(s)))
                     <= released'[s] - released[s]
    PROVE  Balanced(s)'
<1>1. CASE deal[s] = None
  BY <1>1 DEF Balanced
<1>2. CASE deal[s] # None
  <2> DEFINE w == deal[s].wallet
             x == charged[s][w]
             y == charged'[s][w]
  <2>1. /\ x \in Nat /\ rows[s] \in Nat /\ released[s] \in Nat
        /\ y \in Nat /\ rows'[s] \in Nat /\ released'[s] \in Nat
    <3>1. w \in Wallet
      BY <1>2 DEF TypeOK, Deal
    <3> QED
      BY <3>1 DEF TypeOK
  <2>2. /\ rows[s] + Cardinality(Storing(s)) <= x
        /\ x + Cardinality(Finding(s)) + Cardinality(Paying(s)) <= released[s]
    BY <1>2 DEF Balanced
  <2>3. /\ (rows'[s] - rows[s])
             + (Cardinality(Storing(s)') - Cardinality(Storing(s))) <= y - x
        /\ (y - x) + (Cardinality(Finding(s)') - Cardinality(Finding(s)))
             + (Cardinality(Paying(s)') - Cardinality(Paying(s)))
             <= released'[s] - released[s]
    BY <1>2
  <2>4. deal'[s] # None /\ charged'[s][deal'[s].wallet] = y
    BY <1>2
  <2> HIDE DEF w, x, y
  <2>5. /\ rows'[s] + Cardinality(Storing(s)') <= y
        /\ y + Cardinality(Finding(s)') + Cardinality(Paying(s)') <= released'[s]
    BY <2>1, <2>2, <2>3, Counts
  <2> QED
    BY <2>4, <2>5 DEF Balanced
<1> QED
  BY <1>1, <1>2

\* A session whose entries in the books a step leaves alone, and whose counts do
\* not grow, stays in balance.
LEMMA BalanceKeeps ==
    ASSUME TypeOK, TypeOK', NEW s \in Session, Balanced(s), deal'[s] = deal[s],
           released'[s] = released[s], charged'[s] = charged[s], rows'[s] = rows[s],
           Finding(s)' \subseteq Finding(s), Paying(s)' \subseteq Paying(s),
           Storing(s)' \subseteq Storing(s)
    PROVE  Balanced(s)'
<1>1. /\ Cardinality(Finding(s)') <= Cardinality(Finding(s))
      /\ Cardinality(Paying(s)') <= Cardinality(Paying(s))
      /\ Cardinality(Storing(s)') <= Cardinality(Storing(s))
  BY Counts, Counting
<1>2. ASSUME deal[s] # None
      PROVE  LET w == deal[s].wallet
             IN /\ (rows'[s] - rows[s])
                     + (Cardinality(Storing(s)') - Cardinality(Storing(s)))
                     <= charged'[s][w] - charged[s][w]
                /\ (charged'[s][w] - charged[s][w])
                     + (Cardinality(Finding(s)') - Cardinality(Finding(s)))
                     + (Cardinality(Paying(s)') - Cardinality(Paying(s)))
                     <= released'[s] - released[s]
  <2> DEFINE x == charged[s][deal[s].wallet]
  <2>1. x \in Nat /\ rows[s] \in Nat /\ released[s] \in Nat
    BY <1>2 DEF TypeOK, Deal
  <2>2. charged'[s][deal[s].wallet] = x
    OBVIOUS
  <2> HIDE DEF x
  <2>3. /\ (rows[s] - rows[s])
             + (Cardinality(Storing(s)') - Cardinality(Storing(s))) <= x - x
        /\ (x - x) + (Cardinality(Finding(s)') - Cardinality(Finding(s)))
             + (Cardinality(Paying(s)') - Cardinality(Paying(s)))
             <= released[s] - released[s]
    BY <1>1, <2>1, Counts
  <2> QED
    BY <2>2, <2>3 DEF x
<1> QED
  BY <1>2, BalanceMoves

\* No request begins to look for its node, and no job to pay or to store.
QuietCall == \A c \in Call : call'[c].at = "find" =>
    call[c].at = "find" /\ call'[c].session = call[c].session
QuietJob == \A c \in Call : job'[c].at \in {"transfer", "insert"} =>
    job'[c].at = job[c].at /\ job'[c].session = job[c].session

\* What a request may do without looking for its node.
LEMMA QuietMoves ==
    ASSUME TypeOK, NEW c \in Call
    PROVE  /\ \A r : call' = [call EXCEPT ![c] = r] /\ r.at # "find" => QuietCall
           /\ Fail(c) => QuietCall
           /\ Advance(c, "ended") => QuietCall
<1>1. ASSUME NEW r, call' = [call EXCEPT ![c] = r], r.at # "find"
      PROVE  QuietCall
  BY <1>1 DEF TypeOK, QuietCall
<1>2. NoCall.at # "find"
  BY DEF NoCall
<1>3. ASSUME Advance(c, "ended")
      PROVE  QuietCall
  <2>1. \A b \in Call : b # c => call'[b] = call[b]
    BY <1>3 DEF Advance, TypeOK
  <2>2. call'[c].at = "ended"
    BY <1>3 DEF Advance, TypeOK, CallState
  <2> QED
    BY <2>1, <2>2 DEF QuietCall
<1> QED
  BY <1>1, <1>2, <1>3 DEF Fail

\* A step that writes nothing into the books, and brings no request or job to a
\* place that counts, keeps them in order.
LEMMA QuietBooks ==
    ASSUME TypeOK, TypeOK', BooksInv, deal' = deal, UNCHANGED books,
           QuietCall, QuietJob
    PROVE  BooksInv'
<1> SUFFICES ASSUME NEW s \in Session
             PROVE  Balanced(s)'
  BY DEF BooksInv
<1>1. /\ Finding(s)' \subseteq Finding(s) /\ Paying(s)' \subseteq Paying(s)
      /\ Storing(s)' \subseteq Storing(s)
  BY DEF Finding, Paying, Storing, QuietCall, QuietJob
<1>2. /\ released'[s] = released[s] /\ charged'[s] = charged[s] /\ rows'[s] = rows[s]
      /\ deal'[s] = deal[s]
  BY DEF books
<1>3. Balanced(s)
  BY DEF BooksInv
<1> QED
  BY <1>1, <1>2, <1>3, BalanceKeeps

\* A reservation opens the books of a session nobody has released, paid or
\* stored.
LEMMA ReserveBooks ==
    ASSUME SettlementInv, TypeOK', BooksInv, NEW c \in Call, Reserve(c)
    PROVE  BooksInv'
<1>1. PICK s \in Session \ Reserved, n \in mesh :
        /\ deal' = [deal EXCEPT ![s] = [wallet |-> call[c].wallet, node |-> n]]
        /\ \/ call' = [call EXCEPT ![c].at = "lookup", ![c].session = s]
           \/ Fail(c)
  BY DEF Reserve
<1>2. /\ UNCHANGED books /\ job' = job
      /\ released' = released /\ charged' = charged /\ rows' = rows
  BY DEF Reserve, books
<1>3. TypeOK
  BY DEF SettlementInv
<1>4. \A b \in Call : call'[b].at = "find" =>
        call[b].at = "find" /\ call'[b].session = call[b].session
  BY <1>1, <1>3 DEF Fail, NoCall, TypeOK, CallState
<1> SUFFICES ASSUME NEW t \in Session
             PROVE  Balanced(t)'
  BY DEF BooksInv
<1>5. /\ Finding(t)' \subseteq Finding(t) /\ Paying(t)' \subseteq Paying(t)
      /\ Storing(t)' \subseteq Storing(t)
  BY <1>2, <1>4 DEF Finding, Paying, Storing
<1>6. CASE t # s
  <2>1. deal'[t] = deal[t] /\ Balanced(t)
    BY <1>1, <1>3, <1>6 DEF TypeOK, BooksInv
  <2> QED
    BY <1>2, <1>3, <1>5, <2>1, BalanceKeeps
<1>7. CASE t = s
  <2> DEFINE w == call[c].wallet
  <2>1. deal[t] = None /\ rows[t] = 0
    BY <1>1, <1>7 DEF Reserved, BooksInv, Balanced
  <2>2. w \in Wallet
    BY DEF Reserve, SettlementInv, RequestsMatchDeals
  <2>3. deal'[t] \in Deal /\ deal'[t].wallet = w /\ deal'[t] # None
    <3>1. deal'[t] = [wallet |-> w, node |-> n]
      BY <1>1, <1>3, <1>7 DEF TypeOK
    <3>2. n \in Node
      BY <1>3 DEF TypeOK
    <3> QED
      BY <2>2, <3>1, <3>2, SettlementAssumption DEF Deal
  <2>4. charged[t][w] = 0
    <3>1. charged[t][w] \in Nat
      BY <1>3, <2>2 DEF TypeOK
    <3>2. ~(charged[t][w] > 0)
      BY <2>1, <2>2 DEF SettlementInv, PayerIsOwner
    <3> QED
      BY <3>1, <3>2
  <2>5. Finding(t) = {} /\ Paying(t) = {} /\ Storing(t) = {}
    BY <1>1, <1>7 DEF SettlementInv, RequestsMatchDeals, Finding, Paying, Storing
  <2>6. Cardinality(Finding(t)') = 0 /\ Cardinality(Paying(t)') = 0
        /\ Cardinality(Storing(t)') = 0
    <3>1. Finding(t)' = {} /\ Paying(t)' = {} /\ Storing(t)' = {}
      BY <1>5, <2>5
    <3> QED
      BY <3>1, FS_EmptySet
  <2>7. released[t] \in Nat
    BY <1>3 DEF TypeOK
  <2> QED
    BY <1>2, <2>1, <2>3, <2>4, <2>6, <2>7 DEF Balanced
<1> QED
  BY <1>6, <1>7

\* A release is booked before anybody looks for the node to pay.
LEMMA ReleaseBooks ==
    ASSUME SettlementInv, TypeOK', BooksInv, NEW c \in Call, Release(c)
    PROVE  BooksInv'
<1> DEFINE s == call[c].session
<1>1. TypeOK
  BY DEF SettlementInv
<1>2. s \in Session /\ deal[s] # None
  BY DEF Release, At, SettlementInv, RequestsMatchDeals, Reserved
<1>3. /\ released' = [released EXCEPT ![s] = @ + 1]
      /\ charged' = charged /\ rows' = rows /\ job' = job /\ deal' = deal
      /\ Advance(c, "find") \/ Fail(c)
  BY DEF Release
<1>4. \A b \in Call : call'[b].at = "find" =>
        \/ call[b].at = "find" /\ call'[b].session = call[b].session
        \/ b = c /\ call'[b].session = s
  BY <1>1, <1>3 DEF Advance, Fail, NoCall, TypeOK, CallState
<1> SUFFICES ASSUME NEW t \in Session
             PROVE  Balanced(t)'
  BY DEF BooksInv
<1>5. Balanced(t)
  BY DEF BooksInv
<1>6. Paying(t)' \subseteq Paying(t) /\ Storing(t)' \subseteq Storing(t)
  BY <1>3 DEF Paying, Storing
<1> HIDE DEF s
<1>7. CASE t # s
  <2>1. Finding(t)' \subseteq Finding(t)
    BY <1>4, <1>7 DEF Finding
  <2>2. released'[t] = released[t]
    BY <1>1, <1>3, <1>7 DEF TypeOK
  <2> QED
    BY <1>1, <1>3, <1>5, <1>6, <2>1, <2>2, BalanceKeeps
<1>8. CASE t = s
  <2> DEFINE x == charged[t][deal[t].wallet]
  <2>1. Finding(t)' \subseteq Finding(t) \cup {c}
    BY <1>4 DEF Finding
  <2>2. /\ Cardinality(Finding(t)') <= Cardinality(Finding(t)) + 1
        /\ Cardinality(Paying(t)') <= Cardinality(Paying(t))
        /\ Cardinality(Storing(t)') <= Cardinality(Storing(t))
    BY <1>6, <2>1, Counts, Counting
  <2>3. /\ x \in Nat /\ rows[t] \in Nat /\ released[t] \in Nat
        /\ released'[t] = released[t] + 1 /\ rows'[t] = rows[t]
        /\ charged'[t][deal[t].wallet] = x /\ deal'[t] = deal[t]
    BY <1>1, <1>2, <1>3, <1>8 DEF TypeOK, Deal
  <2> HIDE DEF x
  <2>4. /\ (rows'[t] - rows[t])
             + (Cardinality(Storing(t)') - Cardinality(Storing(t))) <= x - x
        /\ (x - x) + (Cardinality(Finding(t)') - Cardinality(Finding(t)))
             + (Cardinality(Paying(t)') - Cardinality(Paying(t)))
             <= released'[t] - released[t]
    BY <2>2, <2>3, Counts
  <2> QED
    BY <1>1, <1>2, <1>5, <1>8, <2>3, <2>4, BalanceMoves DEF x
<1> QED
  BY <1>7, <1>8

\* The node is found: one request less that looks for it, one job more that
\* pays.
LEMMA FindBooks ==
    ASSUME SettlementInv, TypeOK', BooksInv, NEW c \in Call, FindNode(c)
    PROVE  BooksInv'
<1> DEFINE s == call[c].session
<1>1. TypeOK
  BY DEF SettlementInv
<1>2. /\ s \in Session /\ deal[s] # None /\ call[c].at = "find"
  BY DEF FindNode, At, SettlementInv, RequestsMatchDeals, Reserved
<1>3. /\ released' = released /\ charged' = charged /\ rows' = rows /\ deal' = deal
  BY DEF FindNode, books
<1>4. /\ \A b \in Call : b # c => call'[b] = call[b] /\ job'[b] = job[b]
      /\ call'[c].at # "find"
      /\ \/ job'[c].at = "transfer" /\ job'[c].session = s
         \/ job'[c] = job[c]
  BY <1>1 DEF FindNode, Advance, Fail, NoCall, TypeOK, CallState
<1> SUFFICES ASSUME NEW t \in Session
             PROVE  Balanced(t)'
  BY DEF BooksInv
<1>5. Balanced(t)
  BY DEF BooksInv
<1>6. Storing(t)' \subseteq Storing(t)
  BY <1>4 DEF Storing
<1> HIDE DEF s
<1>7. CASE t # s
  <2>1. Finding(t)' \subseteq Finding(t) /\ Paying(t)' \subseteq Paying(t)
    BY <1>4, <1>7 DEF Finding, Paying
  <2> QED
    BY <1>1, <1>3, <1>5, <1>6, <2>1, BalanceKeeps
<1>8. CASE t = s
  <2> DEFINE x == charged[t][deal[t].wallet]
  <2>1. /\ Finding(t)' \subseteq Finding(t) \ {c} /\ c \in Finding(t)
        /\ Paying(t)' \subseteq Paying(t) \cup {c}
    BY <1>2, <1>4, <1>8 DEF Finding, Paying, s
  <2>2. /\ Cardinality(Finding(t)') <= Cardinality(Finding(t)) - 1
        /\ Cardinality(Paying(t)') <= Cardinality(Paying(t)) + 1
        /\ Cardinality(Storing(t)') <= Cardinality(Storing(t))
    BY <1>6, <2>1, Counts, Counting
  <2>3. /\ x \in Nat /\ rows[t] \in Nat /\ released[t] \in Nat
        /\ released'[t] = released[t] /\ rows'[t] = rows[t]
        /\ charged'[t][deal[t].wallet] = x /\ deal'[t] = deal[t]
    BY <1>1, <1>2, <1>3, <1>8 DEF TypeOK, Deal
  <2> HIDE DEF x
  <2>4. /\ (rows'[t] - rows[t])
             + (Cardinality(Storing(t)') - Cardinality(Storing(t))) <= x - x
        /\ (x - x) + (Cardinality(Finding(t)') - Cardinality(Finding(t)))
             + (Cardinality(Paying(t)') - Cardinality(Paying(t)))
             <= released'[t] - released[t]
    BY <2>2, <2>3, Counts
  <2> QED
    BY <1>1, <1>2, <1>5, <1>8, <2>3, <2>4, BalanceMoves DEF x
<1> QED
  BY <1>7, <1>8

\* A transfer: one job less that pays, at most one more that stores.
LEMMA TransferBooks ==
    ASSUME SettlementInv, TypeOK', BooksInv, NEW c \in Call, Transfer(c)
    PROVE  BooksInv'
<1> DEFINE s == job[c].session
           w == job[c].wallet
<1>1. TypeOK
  BY DEF SettlementInv
<1>2. /\ s \in Session /\ deal[s] # None /\ job[c].at = "transfer"
      /\ w = deal[s].wallet /\ w \in Wallet
  <2>1. s \in Session /\ deal[s] # None /\ job[c].at = "transfer" /\ w = deal[s].wallet
    BY DEF Transfer, SettlementInv, RequestsMatchDeals, Reserved
  <2>2. deal[s] \in Deal
    BY <1>1, <2>1 DEF TypeOK
  <2> QED
    BY <2>1, <2>2 DEF Deal
<1>3. /\ released' = released /\ rows' = rows /\ deal' = deal /\ call' = call
      /\ charged' = [charged EXCEPT ![s][w] = @ + 1]
  BY DEF Transfer
<1>4. /\ \A b \in Call : b # c => job'[b] = job[b]
      /\ job'[c].at # "transfer"
      /\ job'[c].at = "insert" => job'[c].session = s
  BY <1>1, <1>2 DEF Transfer, Conclude, NoJob, TypeOK, JobState
<1> SUFFICES ASSUME NEW t \in Session
             PROVE  Balanced(t)'
  BY DEF BooksInv
<1>5. Balanced(t)
  BY DEF BooksInv
<1>6. Finding(t)' \subseteq Finding(t)
  BY <1>3 DEF Finding
<1>7. CASE t # s
  <2>1. Storing(t)' \subseteq Storing(t) /\ Paying(t)' \subseteq Paying(t)
    BY <1>4, <1>7 DEF Storing, Paying
  <2>2. charged'[t] = charged[t]
    BY <1>1, <1>3, <1>7 DEF TypeOK
  <2> QED
    BY <1>1, <1>3, <1>5, <1>6, <2>1, <2>2, BalanceKeeps
<1>8. CASE t = s
  <2> DEFINE x == charged[t][deal[t].wallet]
  <2>1. /\ Paying(t)' \subseteq Paying(t) \ {c} /\ c \in Paying(t)
        /\ Storing(t)' \subseteq Storing(t) \cup {c}
    BY <1>2, <1>4, <1>8 DEF Storing, Paying
  <2>2. /\ Cardinality(Finding(t)') <= Cardinality(Finding(t))
        /\ Cardinality(Paying(t)') <= Cardinality(Paying(t)) - 1
        /\ Cardinality(Storing(t)') <= Cardinality(Storing(t)) + 1
    BY <1>6, <2>1, Counts, Counting
  <2>3. /\ x \in Nat /\ rows[t] \in Nat /\ released[t] \in Nat
        /\ released'[t] = released[t] /\ rows'[t] = rows[t]
        /\ charged'[t][deal[t].wallet] = x + 1 /\ deal'[t] = deal[t]
    BY <1>1, <1>2, <1>3, <1>8 DEF TypeOK
  <2> HIDE DEF x
  <2>4. /\ (rows'[t] - rows[t])
             + (Cardinality(Storing(t)') - Cardinality(Storing(t))) <= (x + 1) - x
        /\ ((x + 1) - x) + (Cardinality(Finding(t)') - Cardinality(Finding(t)))
             + (Cardinality(Paying(t)') - Cardinality(Paying(t)))
             <= released'[t] - released[t]
    BY <2>2, <2>3, Counts
  <2> QED
    BY <1>1, <1>2, <1>5, <1>8, <2>3, <2>4, BalanceMoves DEF x
<1> QED
  BY <1>7, <1>8

\* A row: one job less that stores.
LEMMA InsertBooks ==
    ASSUME SettlementInv, TypeOK', BooksInv, NEW c \in Call, Insert(c)
    PROVE  BooksInv'
<1> DEFINE s == job[c].session
<1>1. TypeOK
  BY DEF SettlementInv
<1>2. s \in Session /\ deal[s] # None /\ job[c].at = "insert"
  BY DEF Insert, SettlementInv, RequestsMatchDeals, Reserved
<1>3. /\ released' = released /\ charged' = charged /\ deal' = deal /\ call' = call
      /\ rows' = [rows EXCEPT ![s] = @ + 1]
  BY DEF Insert
<1>4. /\ \A b \in Call : b # c => job'[b] = job[b]
      /\ job'[c].at \notin {"transfer", "insert"}
  BY <1>1, <1>2 DEF Insert, Conclude, NoJob, TypeOK, JobState
<1> SUFFICES ASSUME NEW t \in Session
             PROVE  Balanced(t)'
  BY DEF BooksInv
<1>5. Balanced(t)
  BY DEF BooksInv
<1>6. Finding(t)' \subseteq Finding(t) /\ Paying(t)' \subseteq Paying(t)
  BY <1>3, <1>4 DEF Finding, Paying
<1>7. CASE t # s
  <2>1. Storing(t)' \subseteq Storing(t)
    BY <1>4 DEF Storing
  <2>2. rows'[t] = rows[t]
    BY <1>1, <1>3, <1>7 DEF TypeOK
  <2> QED
    BY <1>1, <1>3, <1>5, <1>6, <2>1, <2>2, BalanceKeeps
<1>8. CASE t = s
  <2> DEFINE x == charged[t][deal[t].wallet]
  <2>1. Storing(t)' \subseteq Storing(t) \ {c} /\ c \in Storing(t)
    BY <1>2, <1>4, <1>8 DEF Storing
  <2>2. /\ Cardinality(Finding(t)') <= Cardinality(Finding(t))
        /\ Cardinality(Paying(t)') <= Cardinality(Paying(t))
        /\ Cardinality(Storing(t)') <= Cardinality(Storing(t)) - 1
    BY <1>6, <2>1, Counts, Counting
  <2>3. /\ x \in Nat /\ rows[t] \in Nat /\ released[t] \in Nat
        /\ released'[t] = released[t] /\ rows'[t] = rows[t] + 1
        /\ charged'[t][deal[t].wallet] = x /\ deal'[t] = deal[t]
    BY <1>1, <1>2, <1>3, <1>8 DEF TypeOK, Deal
  <2> HIDE DEF x
  <2>4. /\ (rows'[t] - rows[t])
             + (Cardinality(Storing(t)') - Cardinality(Storing(t))) <= x - x
        /\ (x - x) + (Cardinality(Finding(t)') - Cardinality(Finding(t)))
             + (Cardinality(Paying(t)') - Cardinality(Paying(t)))
             <= released'[t] - released[t]
    BY <2>2, <2>3, Counts
  <2> QED
    BY <1>1, <1>2, <1>5, <1>8, <2>3, <2>4, BalanceMoves DEF x
<1> QED
  BY <1>7, <1>8

\* Every step keeps the books.
LEMMA BooksStep ==
    ASSUME SettlementInv, TypeOK', BooksInv, [Next]_vars
    PROVE  BooksInv'
<1>1. /\ TypeOK
      /\ call' = call => QuietCall
      /\ job' = job => QuietJob
  BY DEF SettlementInv, QuietCall, QuietJob
<1>2. ASSUME QuietCall, QuietJob, deal' = deal, UNCHANGED books
      PROVE  BooksInv'
  BY <1>1, <1>2, QuietBooks
<1>3. ASSUME NEW b \in Browser,
             Logout(b) \/ Expire(b) \/ \E w \in Wallet : Login(b, w)
      PROVE  BooksInv'
  BY <1>1, <1>2, <1>3 DEF Login, Logout, Expire
<1>4. ASSUME NEW b \in Browser, NEW c \in Call,
             GetConnection(b, c) \/ EndConnection(b, c)
      PROVE  BooksInv'
  <2>1. PICK r : call' = [call EXCEPT ![c] = r] /\ r.at # "find"
    <3> DEFINE x == [NoCall EXCEPT !.at = "reserve", !.browser = b,
                                   !.wallet = access[b]]
               y == [at |-> "release", browser |-> b, session |-> jar[b],
                     wallet |-> access[b]]
    <3>1. x.at # "find" /\ y.at # "find"
      BY DEF NoCall
    <3>2. call' = [call EXCEPT ![c] = x] \/ call' = [call EXCEPT ![c] = y]
      BY <1>4 DEF GetConnection, EndConnection
    <3> HIDE DEF x, y
    <3> QED
      BY <3>1, <3>2
  <2>2. QuietCall
    BY <1>1, <2>1, QuietMoves
  <2> QED
    BY <1>1, <1>2, <1>4, <2>2 DEF GetConnection, EndConnection
<1>5. ASSUME NEW c \in Call, Handle(c)
      PROVE  BooksInv'
  <2>1. CASE Reserve(c)
    BY <2>1, ReserveBooks
  <2>2. CASE Refuse(c) \/ AnswerConnection(c) \/ ReleaseFails(c)
    <3>1. QuietCall
      BY <1>1, <2>2, QuietMoves DEF Refuse, AnswerConnection, ReleaseFails
    <3> QED
      BY <1>1, <1>2, <2>2, <3>1 DEF Refuse, AnswerConnection, ReleaseFails
  <2>3. CASE Release(c)
    BY <2>3, ReleaseBooks
  <2>4. CASE FindNode(c)
    BY <2>4, FindBooks
  <2>5. CASE Settled(c)
    <3>1. QuietCall
      BY <1>1, <2>5, QuietMoves DEF Settled
    <3>2. QuietJob
      BY <1>1, <2>5 DEF Settled, NoJob, TypeOK, QuietJob
    <3> QED
      BY <1>2, <2>5, <3>1, <3>2 DEF Settled
  <2>6. CASE FetchFails(c) \/ AnswerEnd(c)
    <3>1. QuietCall
      BY <1>1, <2>6, QuietMoves DEF FetchFails, AnswerEnd
    <3> QED
      BY <1>1, <1>2, <2>6, <3>1 DEF FetchFails, AnswerEnd
  <2> QED
    BY <1>5, <2>1, <2>2, <2>3, <2>4, <2>5, <2>6 DEF Handle
<1>6. ASSUME NEW c \in Call, Settle(c)
      PROVE  BooksInv'
  <2>1. CASE Transfer(c)
    BY <2>1, TransferBooks
  <2>2. CASE Insert(c)
    BY <2>2, InsertBooks
  <2>3. CASE TransferFails(c) \/ InsertFails(c)
    <3>1. Conclude(c, "failed")
      BY <2>3 DEF TransferFails, InsertFails
    <3>2. QuietJob
      BY <1>1, <3>1 DEF Conclude, NoJob, TypeOK, JobState, QuietJob
    <3> QED
      BY <1>1, <1>2, <2>3, <3>2 DEF TransferFails, InsertFails
  <2> QED
    BY <1>6, <2>1, <2>2, <2>3 DEF Settle
<1>7. ASSUME NEW n \in Node, EngineRemoves(n) \/ DocumentDeleted(n)
      PROVE  BooksInv'
  BY <1>1, <1>2, <1>7 DEF EngineRemoves, DocumentDeleted
<1>8. CASE OrchestratorCrash
  <2>1. QuietCall /\ QuietJob
    BY <1>8 DEF OrchestratorCrash, NoCall, NoJob, QuietCall, QuietJob
  <2> QED
    BY <1>2, <1>8, <2>1 DEF OrchestratorCrash
<1>9. CASE LedgerCrash
  <2>1. QuietJob
    BY <1>1, <1>9 DEF LedgerCrash, NoJob, TypeOK, JobState, QuietJob
  <2> QED
    BY <1>1, <1>2, <1>9, <2>1 DEF LedgerCrash
<1>10. CASE UNCHANGED vars
  BY <1>1, <1>2, <1>10 DEF vars
<1> QED
  BY <1>3, <1>4, <1>5, <1>6, <1>7, <1>8, <1>9, <1>10 DEF Next

-----------------------------------------------------------------------------
(* The Engine's counters. *)

Here(n) == {s \in Reserved : NodeOf(s) = n}
Holding(n) == {s \in Here(n) : released[s] = 0}
ReleasedOnce(n) == \A s \in Here(n) : released[s] <= 1
Kept(n) == IF n \in mesh THEN available[n] + Cardinality(Holding(n)) = Capacity
                         ELSE Holding(n) = {}

\* CapacityKept, node by node.
LEMMA NodeByNode == CapacityKept <=> \A n \in Node : ReleasedOnce(n) => Kept(n)
  BY DEF CapacityKept, Here, Holding, ReleasedOnce, Kept

\* ... and after a step.
LEMMA NodeByNodeNext == CapacityKept' <=> \A n \in Node : ReleasedOnce(n)' => Kept(n)'
  BY DEF CapacityKept, Here, Holding, ReleasedOnce, Kept

\* The sessions that hold bandwidth are finitely many.
LEMMA HoldingIsFinite ==
    ASSUME NEW n
    PROVE  IsFiniteSet(Holding(n)) /\ Cardinality(Holding(n)) \in Nat
<1>1. Holding(n) \in SUBSET Session
  BY DEF Holding, Here, Reserved
<1> QED
  BY <1>1, SettlementAssumption, FS_Subset, FS_CardinalityType

\* A step that leaves reservations, releases and the Engine alone.
LEMMA QuietCapacity ==
    ASSUME CapacityKept, deal' = deal, released' = released, UNCHANGED engine
    PROVE  CapacityKept'
  BY DEF CapacityKept, engine, Reserved, NodeOf

\* A reservation takes one unit, and is one more that holds one.
LEMMA ReserveCapacity ==
    ASSUME SettlementInv, BooksInv, CapacityKept, NEW c \in Call, Reserve(c)
    PROVE  CapacityKept'
<1>1. TypeOK
  BY DEF SettlementInv
<1>2. PICK s \in Session \ Reserved, m \in mesh :
        /\ available[m] >= 1
        /\ available' = [available EXCEPT ![m] = @ - 1]
        /\ deal' = [deal EXCEPT ![s] = [wallet |-> call[c].wallet, node |-> m]]
  BY DEF Reserve
<1>3. released' = released /\ mesh' = mesh /\ m \in Node
  BY <1>1 DEF Reserve, books, TypeOK
<1>4. deal'[s].node = m /\ deal'[s] # None
  <2>1. deal'[s] = [wallet |-> call[c].wallet, node |-> m]
    BY <1>1, <1>2 DEF TypeOK
  <2>2. call[c].wallet \in Wallet
    BY DEF Reserve, SettlementInv, RequestsMatchDeals
  <2>3. deal'[s] \in Deal
    BY <1>3, <2>1, <2>2 DEF Deal
  <2> QED
    BY <2>1, <2>3, SettlementAssumption
<1>5. \A t \in Session : t # s => deal'[t] = deal[t]
  BY <1>1, <1>2 DEF TypeOK
<1>6. s \in Session /\ deal[s] = None /\ released[s] = 0
  BY <1>2 DEF Reserved, BooksInv, Balanced
<1>7. ASSUME NEW n \in Node, ReleasedOnce(n)'
      PROVE  Kept(n)'
  <2>1. CASE n # m
    <3>1. Here(n)' = Here(n)
      BY <1>4, <1>5, <1>6, <2>1 DEF Here, Reserved, NodeOf
    <3>2. Holding(n)' = Holding(n) /\ (ReleasedOnce(n)' => ReleasedOnce(n))
      BY <1>3, <3>1 DEF Holding, ReleasedOnce
    <3>3. available'[n] = available[n]
      BY <1>1, <1>2, <2>1 DEF TypeOK
    <3> QED
      BY <1>3, <1>7, <3>2, <3>3, NodeByNode DEF Kept
  <2>2. CASE n = m
    <3>1. Here(n)' = Here(n) \cup {s} /\ s \notin Here(n)
      BY <1>4, <1>5, <1>6, <2>2 DEF Here, Reserved, NodeOf
    <3>2. /\ Holding(n)' = Holding(n) \cup {s} /\ s \notin Holding(n)
          /\ ReleasedOnce(n)' => ReleasedOnce(n)
      BY <1>3, <1>6, <3>1 DEF Holding, ReleasedOnce
    <3>3. Cardinality(Holding(n)') = Cardinality(Holding(n)) + 1
      BY <3>2, HoldingIsFinite, FS_AddElement
    <3>4. available[n] + Cardinality(Holding(n)) = Capacity /\ n \in mesh
      BY <1>7, <2>2, <3>2, NodeByNode DEF Kept
    <3>5. available'[n] = available[n] - 1 /\ available[n] \in Nat
      BY <1>1, <1>2, <1>3, <2>2 DEF TypeOK
    <3>6. available'[n] + Cardinality(Holding(n)') = Capacity
      BY <3>3, <3>4, <3>5, HoldingIsFinite
    <3> QED
      BY <1>3, <3>4, <3>6 DEF Kept
  <2> QED
    BY <2>1, <2>2
<1>8. \A n \in Node : ReleasedOnce(n)' => Kept(n)'
  BY <1>7
<1> QED
  BY <1>8, NodeByNodeNext

\* A first release gives back what the session held.
LEMMA ReleaseCapacity ==
    ASSUME SettlementInv, CapacityKept, NEW c \in Call, Release(c)
    PROVE  CapacityKept'
<1> DEFINE s == call[c].session
           m == NodeOf(s)
<1>1. TypeOK
  BY DEF SettlementInv
<1>2. s \in Session /\ deal[s] # None /\ m \in Node
  <2>1. s \in Session /\ deal[s] # None
    BY DEF Release, At, SettlementInv, RequestsMatchDeals, Reserved
  <2>2. deal[s] \in Deal
    BY <1>1, <2>1 DEF TypeOK
  <2> QED
    BY <2>1, <2>2 DEF Deal, NodeOf
<1>3. /\ released' = [released EXCEPT ![s] = @ + 1]
      /\ available' = IF m \in mesh THEN [available EXCEPT ![m] = @ + 1] ELSE available
      /\ mesh' = mesh /\ deal' = deal
  BY DEF Release
<1>4. \A n : Here(n)' = Here(n)
  BY <1>3 DEF Here, Reserved, NodeOf
<1>5. s \in Here(m)
  BY <1>2 DEF Here, Reserved
<1>6. /\ \A t \in Session : t # s => released'[t] = released[t]
      /\ released'[s] = released[s] + 1 /\ released[s] \in Nat
  BY <1>1, <1>2, <1>3 DEF TypeOK
<1>7. \A n : Here(n) \subseteq Session
  BY DEF Here, Reserved
<1> HIDE DEF s, m
<1>8. ASSUME NEW n \in Node, ReleasedOnce(n)'
      PROVE  Kept(n)'
  <2>1. CASE n # m
    <3>1. s \notin Here(n)
      BY <1>5, <2>1 DEF Here
    <3>2. Holding(n)' = Holding(n) /\ (ReleasedOnce(n)' => ReleasedOnce(n))
      BY <1>4, <1>6, <1>7, <3>1 DEF Holding, ReleasedOnce
    <3>3. available'[n] = available[n]
      BY <1>1, <1>3, <2>1 DEF TypeOK
    <3> QED
      BY <1>3, <1>8, <3>2, <3>3, NodeByNode DEF Kept
  <2>2. CASE n = m
    <3>1. released'[s] <= 1
      BY <1>4, <1>5, <1>8, <2>2 DEF ReleasedOnce
    <3>2. released[s] = 0
      BY <1>6, <3>1
    <3>3. ReleasedOnce(n)
      <4> SUFFICES ASSUME NEW t \in Here(n)
                   PROVE  released[t] <= 1
        BY DEF ReleasedOnce
      <4>1. CASE t = s
        BY <3>2, <4>1
      <4>2. CASE t # s
        BY <1>4, <1>6, <1>7, <1>8, <4>2 DEF ReleasedOnce
      <4> QED
        BY <4>1, <4>2
    <3>4. s \in Holding(n) /\ Holding(n)' = Holding(n) \ {s}
      BY <1>4, <1>5, <1>6, <1>7, <2>2, <3>2 DEF Holding
    <3>5. n \in mesh /\ available[n] + Cardinality(Holding(n)) = Capacity
      BY <3>3, <3>4, NodeByNode DEF Kept
    <3>6. Cardinality(Holding(n)') = Cardinality(Holding(n)) - 1
      BY <3>4, HoldingIsFinite, FS_RemoveElement
    <3>7. available'[n] = available[n] + 1 /\ available[n] \in Nat
      BY <1>1, <1>3, <2>2, <3>5 DEF TypeOK
    <3>8. available'[n] + Cardinality(Holding(n)') = Capacity
      BY <3>5, <3>6, <3>7, HoldingIsFinite
    <3> QED
      BY <1>3, <3>5, <3>8 DEF Kept
  <2> QED
    BY <2>1, <2>2
<1>9. \A n \in Node : ReleasedOnce(n)' => Kept(n)'
  BY <1>8
<1> QED
  BY <1>9, NodeByNodeNext

\* A node that may be removed holds nothing for anybody.
LEMMA RemovalCapacity ==
    ASSUME SettlementInv, CapacityKept, NEW m \in Node, EngineRemoves(m)
    PROVE  CapacityKept'
<1>1. /\ m \in mesh /\ available[m] >= Capacity /\ available[m] \in Nat
      /\ mesh' = mesh \ {m} /\ available' = available
      /\ deal' = deal /\ released' = released
  BY DEF EngineRemoves, books, SettlementInv, TypeOK
<1>2. \A n : /\ Holding(n)' = Holding(n)
             /\ ReleasedOnce(n)' <=> ReleasedOnce(n)
  BY <1>1 DEF Holding, Here, Reserved, NodeOf, ReleasedOnce
<1>3. ASSUME NEW n \in Node, ReleasedOnce(n)
      PROVE  Kept(n)'
  <2>1. Kept(n)
    BY <1>3, NodeByNode
  <2>2. CASE n # m
    BY <1>1, <1>2, <2>1, <2>2 DEF Kept
  <2>3. CASE n = m
    <3>1. Cardinality(Holding(n)) = 0
      BY <1>1, <2>1, <2>3, HoldingIsFinite, SettlementAssumption DEF Kept
    <3>2. Holding(n) = {}
      BY <3>1, HoldingIsFinite, FS_EmptySet
    <3> QED
      BY <1>1, <1>2, <2>3, <3>2 DEF Kept
  <2> QED
    BY <2>2, <2>3
<1>4. \A n \in Node : ReleasedOnce(n)' => Kept(n)'
  BY <1>2, <1>3
<1> QED
  BY <1>4, NodeByNodeNext

\* Every step keeps the counters.
LEMMA CapacityStep ==
    ASSUME SettlementInv, BooksInv, CapacityKept, [Next]_vars
    PROVE  CapacityKept'
<1>1. CASE \E c \in Call : Reserve(c)
  BY <1>1, ReserveCapacity
<1>2. CASE \E c \in Call : Release(c)
  BY <1>2, ReleaseCapacity
<1>3. CASE \E n \in Node : EngineRemoves(n)
  BY <1>3, RemovalCapacity
<1>4. CASE /\ ~\E c \in Call : Reserve(c) \/ Release(c)
           /\ ~\E n \in Node : EngineRemoves(n)
  <2>1. deal' = deal /\ released' = released /\ UNCHANGED engine
    BY <1>4 DEF Next, Handle, Settle, Login, Logout, Expire, GetConnection,
         EndConnection, Refuse, AnswerConnection, ReleaseFails, FindNode, Settled,
         FetchFails, AnswerEnd, Transfer, TransferFails, Insert, InsertFails,
         DocumentDeleted, OrchestratorCrash, LedgerCrash, vars, books, engine
  <2> QED
    BY <2>1, QuietCapacity
<1> QED
  BY <1>1, <1>2, <1>3, <1>4

-----------------------------------------------------------------------------
(* Theorems. *)

\* The two inductive invariants, on top of SettlementInv.
LEMMA BooksInvariant == Spec => [](BooksInv /\ CapacityKept)
<1>1. Init => BooksInv /\ CapacityKept
  <2> SUFFICES ASSUME Init
               PROVE  BooksInv /\ CapacityKept
    OBVIOUS
  <2>1. BooksInv
    BY DEF Init, BooksInv, Balanced
  <2>2. ASSUME NEW n \in Node
        PROVE  Kept(n)
    <3>1. Holding(n) = {}
      BY DEF Init, Holding, Here, Reserved
    <3>2. Cardinality(Holding(n)) = 0
      BY <3>1, FS_EmptySet
    <3> QED
      BY <3>1, <3>2, SettlementAssumption DEF Init, Kept
  <2> QED
    BY <2>1, <2>2, NodeByNode
<1>2. SettlementInv /\ SettlementInv' /\ BooksInv /\ CapacityKept /\ [Next]_vars
        => (BooksInv /\ CapacityKept)'
  BY BooksStep, CapacityStep DEF SettlementInv
<1> QED
  BY <1>1, <1>2, SettlementInvariant, PTL DEF Spec

\* A session never has more rows than transfers nor more transfers than
\* releases: whatever end_connection and settle_session do twice, half or not
\* at all, nobody pays for bandwidth that is still held for him.
THEOREM BooksStayInOrder == Spec => []BooksInOrder
<1>1. SettlementInv /\ BooksInv => BooksInOrder
  <2> SUFFICES ASSUME SettlementInv, BooksInv, NEW s \in Session, deal[s] # None
               PROVE  /\ rows[s] <= charged[s][deal[s].wallet]
                      /\ charged[s][deal[s].wallet] <= released[s]
    BY DEF BooksInOrder, BooksInv, Balanced
  <2> DEFINE x == charged[s][deal[s].wallet]
  <2>1. x \in Nat /\ rows[s] \in Nat /\ released[s] \in Nat
    BY DEF SettlementInv, TypeOK, Deal
  <2>2. /\ rows[s] + Cardinality(Storing(s)) <= x
        /\ x + Cardinality(Finding(s)) + Cardinality(Paying(s)) <= released[s]
    BY DEF BooksInv, Balanced
  <2> HIDE DEF x
  <2>3. rows[s] <= x /\ x <= released[s]
    BY <2>1, <2>2, Counts
  <2> QED
    BY <2>3 DEF x
<1> QED
  BY <1>1, BooksInvariant, SettlementInvariant, PTL

\* As long as no session of a node was released twice, the Engine has exactly
\* the bandwidth that nobody holds, for any number of sessions and nodes.
THEOREM CapacityIsKept == Spec => []CapacityKept
  BY BooksInvariant, PTL

-----------------------------------------------------------------------------
(* The ledger of sessions. *)

NoNews == \A c \in Call : call'[c].at = "ended" =>
    call[c].at = "ended" /\ call'[c].session = call[c].session

\* What a request may do without a receipt.
LEMMA NoNewsMoves ==
    ASSUME TypeOK, NEW c \in Call
    PROVE  /\ \A r : call' = [call EXCEPT ![c] = r] /\ r.at # "ended" => NoNews
           /\ Fail(c) => NoNews
           /\ \A p \in CallPlace : Advance(c, p) /\ p # "ended" => NoNews
<1>1. ASSUME NEW r, call' = [call EXCEPT ![c] = r], r.at # "ended"
      PROVE  NoNews
  BY <1>1 DEF TypeOK, NoNews
<1>2. NoCall.at # "ended"
  BY DEF NoCall
<1>3. ASSUME NEW p \in CallPlace, Advance(c, p), p # "ended"
      PROVE  NoNews
  <2>1. call[c] \in CallState
    BY DEF TypeOK
  <2>2. [call[c] EXCEPT !.at = p].at = p
    BY <2>1 DEF CallState
  <2>3. call' = [call EXCEPT ![c] = [call[c] EXCEPT !.at = p]]
    BY <1>3 DEF Advance
  <2> QED
    BY <1>1, <1>3, <2>2, <2>3
<1> QED
  BY <1>1, <1>2, <1>3 DEF Fail

\* A step without a receipt that leaves the books alone is an Answer.
LEMMA NoNewsIsAnswer ==
    ASSUME NoNews, deal' = deal, UNCHANGED books
    PROVE  Books!Answer
<1>1. Told' \subseteq Told
  BY DEF NoNews, Told, At
<1> QED
  BY <1>1 DEF Books!Answer, Owner, books

LEMMA SameTold ==
    ASSUME call' = call
    PROVE  Told' = Told
BY DEF Told, At

\* A request that was not about to report anything, and is not now.
LEMMA OthersTell ==
    ASSUME TypeOK, NEW c \in Call, ~At(c, "ended"), NEW r, r.at # "ended",
           call' = [call EXCEPT ![c] = r]
    PROVE  Told' = Told
<1>1. \A b \in Call : (call'[b].at = "ended" <=> call[b].at = "ended")
                      /\ (call[b].at = "ended" => call'[b] = call[b])
  BY DEF TypeOK, At
<1> QED
  BY <1>1 DEF Told, At

LEMMA LedgerReserves ==
    ASSUME SettlementInv, NEW c \in Call, Reserve(c)
    PROVE  \E s \in Session : \E w \in Wallet : Books!Reserve(s, w)
<1>1. TypeOK /\ call[c] \in CallState /\ call[c].wallet \in Wallet
  BY DEF SettlementInv, TypeOK, RequestsMatchDeals, Reserve
<1>2. PICK s \in Session \ Reserved, n \in mesh :
        /\ deal' = [deal EXCEPT ![s] = [wallet |-> call[c].wallet, node |-> n]]
        /\ \/ call' = [call EXCEPT ![c].at = "lookup", ![c].session = s]
           \/ Fail(c)
  BY DEF Reserve
<1> DEFINE w == call[c].wallet
           d == [wallet |-> w, node |-> n]
<1>3. Told' = Told
  <2> DEFINE r == [call[c] EXCEPT !.at = "lookup", !.session = s]
  <2>1. r.at # "ended" /\ NoCall.at # "ended" /\ ~At(c, "ended")
    BY <1>1 DEF CallState, NoCall, Reserve, At
  <2>2. call' = [call EXCEPT ![c] = r] \/ call' = [call EXCEPT ![c] = NoCall]
    BY <1>1, <1>2 DEF Fail, TypeOK
  <2> HIDE DEF r
  <2> QED
    BY <1>1, <2>1, <2>2, OthersTell
<1>4. d # None /\ d.wallet = w
  <2>1. d \in Deal
    BY <1>1, <1>2 DEF Deal, TypeOK
  <2> QED
    BY <2>1, SettlementAssumption
<1>5. s \in Session /\ deal[s] = None /\ UNCHANGED books
  BY <1>2 DEF Reserved, Reserve
<1>6. /\ Owner(s) = None /\ Owner(s)' = w
      /\ \A t \in Session : t # s => Owner(t)' = Owner(t)
  BY <1>1, <1>2, <1>4, <1>5 DEF Owner, TypeOK
<1>7. Books!Reserve(s, w)
  BY <1>3, <1>5, <1>6 DEF Books!Reserve, books
<1> QED
  BY <1>1, <1>5, <1>7

LEMMA LedgerReleases ==
    ASSUME SettlementInv, NEW c \in Call, Release(c)
    PROVE  \E s \in Session : Books!Release(s)
<1> DEFINE s == call[c].session
<1>1. TypeOK /\ call[c] \in CallState
  BY DEF SettlementInv, TypeOK
<1>2. s \in Session /\ deal[s] # None /\ deal[s] \in Deal
  BY <1>1 DEF Release, At, SettlementInv, RequestsMatchDeals, Reserved, TypeOK
<1>3. Told' = Told
  <2> DEFINE r == [call[c] EXCEPT !.at = "find"]
  <2>1. r.at # "ended" /\ NoCall.at # "ended" /\ ~At(c, "ended")
    BY <1>1 DEF CallState, NoCall, Release, At
  <2>2. call' = [call EXCEPT ![c] = r] \/ call' = [call EXCEPT ![c] = NoCall]
    BY DEF Release, Fail, Advance
  <2> HIDE DEF r
  <2> QED
    BY <1>1, <2>1, <2>2, OthersTell
<1>4. Owner(s) # None
  BY <1>2, SettlementAssumption DEF Owner, Deal
<1> QED
  BY <1>2, <1>3, <1>4 DEF Release, Books!Release, Owner

\* A transfer finds a release that nobody has paid for: its own.
LEMMA LedgerPays ==
    ASSUME SettlementInv, BooksInv, NEW c \in Call, Transfer(c)
    PROVE  \E s \in Session : Books!Pay(s)
<1> DEFINE s == job[c].session
           w == job[c].wallet
           x == charged[s][w]
<1>1. TypeOK
  BY DEF SettlementInv
<1>2. /\ s \in Session /\ deal[s] # None /\ deal[s] \in Deal
      /\ w = deal[s].wallet /\ w \in Wallet
  <2>1. s \in Session /\ deal[s] # None /\ w = deal[s].wallet
    BY DEF Transfer, SettlementInv, RequestsMatchDeals, Reserved
  <2> QED
    BY <1>1, <2>1 DEF TypeOK, Deal
<1>3. Owner(s) = w /\ w # None
  BY <1>2, SettlementAssumption DEF Owner
<1>4. c \in Paying(s)
  BY DEF Transfer, Paying
<1>5. Cardinality(Paying(s)) # 0
  BY <1>4, Counts, FS_EmptySet
<1>6. x + Cardinality(Finding(s)) + Cardinality(Paying(s)) <= released[s]
  BY <1>2 DEF BooksInv, Balanced
<1>7. x \in Nat /\ released[s] \in Nat
  BY <1>1, <1>2 DEF TypeOK
<1>8. x < released[s]
  <2> HIDE DEF x
  <2> QED
    BY <1>5, <1>6, <1>7, Counts
<1>9. Told' = Told
  BY SameTold DEF Transfer
<1>10. Books!Pay(s)
  BY <1>2, <1>3, <1>8, <1>9 DEF Transfer, Books!Pay, Owner
<1> QED
  BY <1>2, <1>10

\* A row is for a transfer that has none: that of the same job.
LEMMA LedgerStores ==
    ASSUME SettlementInv, BooksInv, NEW c \in Call, Insert(c)
    PROVE  \E s \in Session : Books!Store(s)
<1> DEFINE s == job[c].session
           x == charged[s][deal[s].wallet]
<1>1. TypeOK
  BY DEF SettlementInv
<1>2. s \in Session /\ deal[s] # None /\ deal[s] \in Deal /\ deal[s].wallet \in Wallet
  <2>1. s \in Session /\ deal[s] # None
    BY DEF Insert, SettlementInv, RequestsMatchDeals, Reserved
  <2> QED
    BY <1>1, <2>1 DEF TypeOK, Deal
<1>3. Owner(s) = deal[s].wallet /\ Owner(s) # None
  BY <1>2, SettlementAssumption DEF Owner
<1>4. c \in Storing(s)
  BY DEF Insert, Storing
<1>5. Cardinality(Storing(s)) # 0
  BY <1>4, Counts, FS_EmptySet
<1>6. rows[s] + Cardinality(Storing(s)) <= x
  BY <1>2 DEF BooksInv, Balanced
<1>7. x \in Nat /\ rows[s] \in Nat
  BY <1>1, <1>2 DEF TypeOK
<1>8. rows[s] < x
  <2> HIDE DEF x
  <2> QED
    BY <1>5, <1>6, <1>7, Counts
<1>9. Told' = Told
  BY SameTold DEF Insert
<1>10. Books!Store(s)
  BY <1>2, <1>3, <1>8, <1>9 DEF Insert, Books!Store, Owner
<1> QED
  BY <1>2, <1>10

\* The Ledger's answer becomes a receipt only if the row is there.
LEMMA LedgerTells ==
    ASSUME SettlementInv, NEW c \in Call, Settled(c)
    PROVE  (\E s \in Session : Books!Tell(s)) \/ Books!Answer
<1> DEFINE s == call[c].session
<1>1. TypeOK /\ call[c] \in CallState
  BY DEF SettlementInv, TypeOK
<1>2. s \in Session /\ UNCHANGED books /\ deal' = deal
  BY DEF Settled, At, SettlementInv, RequestsMatchDeals, Reserved
<1>3. CASE job[c].at = "stored"
  <2> DEFINE r == [call[c] EXCEPT !.at = "ended"]
  <2>1. call' = [call EXCEPT ![c] = r] /\ ~At(c, "ended")
    BY <1>3 DEF Settled, Advance, At
  <2>2. r.at = "ended" /\ r.session = s
    BY <1>1 DEF CallState
  <2> HIDE DEF r
  <2>3. Told' = Told \cup {s}
    BY <1>1, <1>2, <2>1, <2>2 DEF Told, At, TypeOK
  <2>4. rows[s] > 0
    BY <1>3 DEF Settled, SettlementInv, ProgressIsBooked
  <2> QED
    BY <1>2, <2>3, <2>4 DEF Books!Tell, Owner, books
<1>4. CASE job[c].at # "stored"
  <2>1. NoNews
    BY <1>1, <1>4, NoNewsMoves DEF Settled
  <2> QED
    BY <1>2, <2>1, NoNewsIsAnswer
<1> QED
  BY <1>3, <1>4

\* Each step is one of the ledger's, or nothing to it.
LEMMA StepIsBooked ==
    ASSUME SettlementInv, BooksInv, [Next]_vars
    PROVE  Books!Next
<1>1. TypeOK /\ (call' = call => NoNews)
  BY DEF SettlementInv, NoNews
<1>2. ASSUME NoNews, deal' = deal, UNCHANGED books
      PROVE  Books!Next
  BY <1>2, NoNewsIsAnswer DEF Books!Next
<1>3. ASSUME NEW b \in Browser,
             Logout(b) \/ Expire(b) \/ \E w \in Wallet : Login(b, w)
      PROVE  Books!Next
  BY <1>1, <1>2, <1>3 DEF Login, Logout, Expire
<1>4. ASSUME NEW b \in Browser, NEW c \in Call,
             GetConnection(b, c) \/ EndConnection(b, c)
      PROVE  Books!Next
  <2> DEFINE x == [NoCall EXCEPT !.at = "reserve", !.browser = b,
                                 !.wallet = access[b]]
             y == [at |-> "release", browser |-> b, session |-> jar[b],
                   wallet |-> access[b]]
  <2>1. x.at # "ended" /\ y.at # "ended"
    BY DEF NoCall
  <2>2. call' = [call EXCEPT ![c] = x] \/ call' = [call EXCEPT ![c] = y]
    BY <1>4 DEF GetConnection, EndConnection
  <2> HIDE DEF x, y
  <2>3. NoNews
    BY <1>1, <2>1, <2>2, NoNewsMoves
  <2> QED
    BY <1>2, <1>4, <2>3 DEF GetConnection, EndConnection
<1>5. ASSUME NEW c \in Call, Handle(c)
      PROVE  Books!Next
  <2>1. CASE Reserve(c)
    BY <2>1, LedgerReserves DEF Books!Next
  <2>2. CASE Refuse(c) \/ AnswerConnection(c) \/ ReleaseFails(c)
             \/ FetchFails(c) \/ AnswerEnd(c)
    <3>1. Fail(c) /\ deal' = deal /\ UNCHANGED books
      BY <2>2 DEF Refuse, AnswerConnection, ReleaseFails, FetchFails, AnswerEnd
    <3> QED
      BY <1>1, <1>2, <3>1, NoNewsMoves
  <2>3. CASE Release(c)
    BY <2>3, LedgerReleases DEF Books!Next
  <2>4. CASE FindNode(c)
    <3>1. (Advance(c, "settle") \/ Fail(c)) /\ deal' = deal /\ UNCHANGED books
      BY <2>4 DEF FindNode
    <3>2. "settle" \in CallPlace
      BY DEF CallPlace
    <3>3. NoNews
      BY <1>1, <3>1, <3>2, NoNewsMoves
    <3> QED
      BY <1>2, <3>1, <3>3
  <2>5. CASE Settled(c)
    BY <2>5, LedgerTells DEF Books!Next
  <2> QED
    BY <1>5, <2>1, <2>2, <2>3, <2>4, <2>5 DEF Handle
<1>6. ASSUME NEW c \in Call, Settle(c)
      PROVE  Books!Next
  <2>1. CASE Transfer(c)
    BY <2>1, LedgerPays DEF Books!Next
  <2>2. CASE Insert(c)
    BY <2>2, LedgerStores DEF Books!Next
  <2>3. CASE TransferFails(c) \/ InsertFails(c)
    BY <1>1, <1>2, <2>3 DEF TransferFails, InsertFails
  <2> QED
    BY <1>6, <2>1, <2>2, <2>3 DEF Settle
<1>7. ASSUME NEW n \in Node, EngineRemoves(n) \/ DocumentDeleted(n)
      PROVE  Books!Next
  BY <1>1, <1>2, <1>7 DEF EngineRemoves, DocumentDeleted
<1>8. CASE OrchestratorCrash
  <2>1. NoNews
    BY <1>8 DEF OrchestratorCrash, NoCall, NoNews
  <2> QED
    BY <1>2, <1>8, <2>1 DEF OrchestratorCrash
<1>9. CASE LedgerCrash
  BY <1>1, <1>2, <1>9 DEF LedgerCrash
<1>10. CASE UNCHANGED vars
  BY <1>1, <1>2, <1>10 DEF vars
<1> QED
  BY <1>3, <1>4, <1>5, <1>6, <1>7, <1>8, <1>9, <1>10 DEF Next

\* The handlers, the Ledger's jobs and the Engine's counters implement the
\* ledger of sessions that user.controllers.js and orchestrator.controllers.js
\* are meant to keep: through overlapping and repeated requests, lost replies and
\* crashes, each step books one thing about one session, in order, or nothing.
THEOREM ServicesImplementLedger == Spec => ImplementsLedger
<1>1. Init => Books!Init
  BY DEF Init, Books!Init, Owner, Told, At, NoCall
<1>2. SettlementInv /\ BooksInv /\ [Next]_vars => [Books!Next]_(Books!vars)
  BY StepIsBooked
<1> QED
  BY <1>1, <1>2, SettlementInvariant, BooksInvariant, PTL
     DEF Spec, ImplementsLedger, Books!Spec

=============================================================================
