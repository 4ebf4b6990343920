---------------------------- MODULE RegistryProofs ----------------------------
(***************************************************************************)
(* Proofs about NodeRegistry for any number of routers, wallets, records   *)
(* and overlapping requests: who the Engine routes over can be paid, no    *)
(* batch names an id twice, and the wallet of a node in use is fixed.      *)
(*                                                                         *)
(* None of the three is inductive.  What keeps the handlers apart, without *)
(* a lock between them, is that an id a request has in its hands (created  *)
(* and not yet delivered to the Engine, or taken from the Engine and not   *)
(* yet deleted) is in MongoDB, where the unique index keeps everybody else *)
(* from creating it, and is not in the Engine, where nobody else can       *)
(* remove it.                                                              *)
(***************************************************************************)
EXTENDS NodeRegistry, TLAPS

CallRec == [at : {"idle", "check", "create", "exists", "engine", "delete"},
            kind : {"none", "register", "add", "remove"},
            todo : Seq(Entry), made : Seq(Entry), id : Id \cup {None}]
RpcRec == [at : {"none", "sent", "ok", "failed"},
           op : {"none", "reboot", "add", "remove"},
           nodes : Seq(Entry), id : Id \cup {None}]

\* A handler r and its Engine call q fit together: a call exists while the
\* handler waits for it, or after the handler has gone; the answer to a removal
\* is about the id the handler removes.
Fit(r, q) ==
    /\ r.at \in {"check", "create"} => r.todo # <<>> /\ r.kind # "remove"
    /\ r.at \in {"check", "create", "exists", "delete"} => q.at = "none"
    /\ r.at = "exists" => r.kind = "remove"
    /\ r.at = "idle" => q.at \in {"none", "sent"}
    /\ r.at = "engine" => /\ r.kind = "remove" <=> q.op = "remove"
                          /\ r.kind = "remove" => q.id = r.id
    /\ q.at = "sent" /\ q.op = "add" => q.nodes # <<>>

IdsOf(s) == {s[k].id : k \in DOMAIN s}
Distinct(s) == \A j, k \in DOMAIN s : s[j].id = s[k].id => j = k
Apart(r, q) == Distinct(r.made) /\ Distinct(q.nodes)

\* The ids that handler r, with its Engine call q, has in its hands.
Creating(r, q) ==
    IF r.at \in {"check", "create"} THEN IdsOf(r.made) ELSE
    IF q.at = "sent" /\ q.op \in {"reboot", "add"} THEN IdsOf(q.nodes) ELSE {}
Removing(r, q) ==
    IF r.at = "delete" \/ (r.at = "engine" /\ q.at = "ok" /\ q.op = "remove")
    THEN {r.id} ELSE {}
Held(r, q) == Creating(r, q) \cup Removing(r, q)

Stored(i) == \E d \in docs : d.id = i

Types ==
    /\ chain \subseteq Wallet /\ docs \subseteq Entry /\ mesh \subseteq Id
    /\ dropped \in BOOLEAN /\ built \in BOOLEAN
    /\ call \in [Call -> CallRec] /\ rpc \in [Call -> RpcRec]

Fitting == \A c \in Call : Fit(call[c], rpc[c])

\* Documents have their own id, and a wallet the contract knows; so has a record
\* that is about to become one.
DocsInOrder ==
    /\ \A d, e \in docs : d.id = e.id => d = e
    /\ \A d \in docs : d.wallet \in chain
    /\ \A c \in Call : At(c, "create") => Head(call[c].todo).wallet \in chain

HeldApart ==
    /\ \A i \in mesh : Stored(i)
    /\ \A c \in Call : \A i \in Held(call[c], rpc[c]) : Stored(i) /\ i \notin mesh
    /\ \A b, c \in Call : b # c =>
         Held(call[b], rpc[b]) \cap Held(call[c], rpc[c]) = {}
    /\ \A c \in Call : Apart(call[c], rpc[c])

\* The inductive invariant.
RegistryInv ==
    /\ Types
    /\ Fitting
    /\ DocsInOrder
    /\ ~dropped => HeldApart

\* A step of request c, and of no other.
StepOf(c) ==
    /\ call'[c] \in CallRec /\ rpc'[c] \in RpcRec
    /\ call' = [call EXCEPT ![c] = call'[c]]
    /\ rpc' = [rpc EXCEPT ![c] = rpc'[c]]
    /\ Fit(call'[c], rpc'[c])

\* ... that takes nothing into its hands.
Keeps(c) ==
    /\ Held(call'[c], rpc'[c]) \subseteq Held(call[c], rpc[c])
    /\ Apart(call[c], rpc[c]) => Apart(call'[c], rpc'[c])
    /\ call'[c].at = "create" => Head(call'[c].todo).wallet \in chain

-----------------------------------------------------------------------------
(* Records and sequences. *)

\* The empty records are well-formed, fit and hold nothing.
LEMMA NothingHeld ==
    /\ NoCall \in CallRec /\ NoRpc \in RpcRec
    /\ Fit(NoCall, NoRpc) /\ Held(NoCall, NoRpc) = {} /\ Apart(NoCall, NoRpc)
    /\ \A q \in RpcRec : q.at = "sent" =>
         /\ Held(NoCall, q) = Creating(NoCall, q)
         /\ \A r \in CallRec : r.at = "engine" /\ Fit(r, q) =>
              Fit(NoCall, q) /\ Held(NoCall, q) = Held(r, q)
<1>1. NoCall \in CallRec /\ NoRpc \in RpcRec
  BY DEF NoCall, NoRpc, CallRec, RpcRec
<1>2. Fit(NoCall, NoRpc) /\ Held(NoCall, NoRpc) = {}
  BY DEF NoCall, NoRpc, Fit, Held, Creating, Removing
<1>3. Apart(NoCall, NoRpc)
  BY DEF NoCall, NoRpc, Apart, Distinct
<1>4. ASSUME NEW q \in RpcRec, q.at = "sent"
      PROVE  /\ Held(NoCall, q) = Creating(NoCall, q)
             /\ \A r \in CallRec : r.at = "engine" /\ Fit(r, q) =>
                  Fit(NoCall, q) /\ Held(NoCall, q) = Held(r, q)
  BY <1>4 DEF NoCall, Fit, Held, Creating, Removing
<1> QED
  BY <1>1, <1>2, <1>3, <1>4

\* One more record.
LEMMA OneMore ==
    ASSUME NEW s \in Seq(Entry), NEW e \in Entry
    PROVE  /\ Append(s, e) \in Seq(Entry) /\ Append(s, e) # <<>>
           /\ IdsOf(Append(s, e)) = IdsOf(s) \cup {e.id}
           /\ Distinct(s) /\ e.id \notin IdsOf(s) => Distinct(Append(s, e))
<1> DEFINE t == Append(s, e)
<1>1. /\ t \in Seq(Entry) /\ t # <<>>
      /\ Len(t) = Len(s) + 1 /\ t[Len(s) + 1] = e
      /\ \A k \in 1 .. Len(s) : t[k] = s[k]
      /\ DOMAIN t = 1 .. Len(s) + 1 /\ DOMAIN s = 1 .. Len(s) /\ Len(s) \in Nat
  OBVIOUS
<1> HIDE DEF t
<1>2. IdsOf(t) = IdsOf(s) \cup {e.id}
  BY <1>1 DEF IdsOf
<1>3. ASSUME Distinct(s), e.id \notin IdsOf(s)
      PROVE  Distinct(t)
  <2> SUFFICES ASSUME NEW j \in DOMAIN t, NEW k \in DOMAIN t, t[j].id = t[k].id
               PROVE  j = k
    BY DEF Distinct
  <2>1. CASE j \in DOMAIN s /\ k \in DOMAIN s
    BY <1>1, <1>3, <2>1 DEF Distinct
  <2>2. CASE j \notin DOMAIN s \/ k \notin DOMAIN s
    BY <1>1, <1>3, <2>2 DEF IdsOf
  <2> QED
    BY <2>1, <2>2
<1> QED
  BY <1>1, <1>2, <1>3 DEF t

\* What is left to do after an entry.
LEMMA TheRest ==
    ASSUME NEW s \in Seq(Entry), s # <<>>
    PROVE  Head(s) \in Entry /\ Tail(s) \in Seq(Entry)
  OBVIOUS

-----------------------------------------------------------------------------
(* The general steps. *)

\* Types, fit and the documents after a step of one request.
LEMMA OneSteps ==
    ASSUME RegistryInv, NEW c \in Call, StepOf(c)
    PROVE  /\ call' \in [Call -> CallRec] /\ rpc' \in [Call -> RpcRec]
           /\ Fitting'
           /\ \A b \in Call : b # c => call'[b] = call[b] /\ rpc'[b] = rpc[b]
<1>1. /\ call' \in [Call -> CallRec] /\ rpc' \in [Call -> RpcRec]
      /\ \A b \in Call : b # c => call'[b] = call[b] /\ rpc'[b] = rpc[b]
  BY DEF RegistryInv, Types, StepOf
<1>2. \A b \in Call : Fit(call'[b], rpc'[b])
  BY <1>1 DEF RegistryInv, Fitting, StepOf
<1> QED
  BY <1>1, <1>2 DEF Fitting

\* A step in which nobody takes anything into his hands, nothing leaves MongoDB
\* and nothing enters the Engine, keeps the invariant.
LEMMA KeepingStep ==
    ASSUME RegistryInv,
           call' \in [Call -> CallRec], rpc' \in [Call -> RpcRec], Fitting',
           \A c \in Call : Keeps(c),
           chain' = chain, docs' = docs, dropped' = dropped,
           mesh' \subseteq mesh, built' \in BOOLEAN
    PROVE  RegistryInv'
<1>1. Types'
  BY DEF RegistryInv, Types
<1>2. DocsInOrder'
  BY DEF RegistryInv, DocsInOrder, Keeps, At
<1>3. ASSUME ~dropped
      PROVE  HeldApart'
  <2>1. \A i : Stored(i)' <=> Stored(i)
    BY DEF Stored
  <2>2. \A b \in Call : Held(call'[b], rpc'[b]) \subseteq Held(call[b], rpc[b])
    BY DEF Keeps
  <2>3. \A b \in Call : Apart(call[b], rpc[b]) => Apart(call'[b], rpc'[b])
    BY DEF Keeps
  <2>4. HeldApart
    BY <1>3 DEF RegistryInv
  <2>5. \A i \in mesh' : Stored(i)'
    BY <2>1, <2>4 DEF HeldApart
  <2>6. \A b \in Call : \A i \in Held(call'[b], rpc'[b]) : Stored(i)' /\ i \notin mesh'
    BY <2>1, <2>2, <2>4 DEF HeldApart
  <2>7. \A a, b \in Call : a # b =>
          Held(call'[a], rpc'[a]) \cap Held(call'[b], rpc'[b]) = {}
    BY <2>2, <2>4 DEF HeldApart
  <2>8. \A b \in Call : Apart(call'[b], rpc'[b])
    BY <2>3, <2>4 DEF HeldApart
  <2> QED
    BY <2>5, <2>6, <2>7, <2>8 DEF HeldApart
<1> QED
  BY <1>1, <1>2, <1>3 DEF RegistryInv

\* So does such a step of one request.
LEMMA QuietStep ==
    ASSUME RegistryInv, NEW c \in Call, StepOf(c), Keeps(c),
           chain' = chain, docs' = docs, dropped' = dropped,
           mesh' \subseteq mesh, built' \in BOOLEAN
    PROVE  RegistryInv'
<1>1. /\ call' \in [Call -> CallRec] /\ rpc' \in [Call -> RpcRec]
      /\ Fitting'
      /\ \A b \in Call : b # c => call'[b] = call[b] /\ rpc'[b] = rpc[b]
  BY OneSteps
<1>2. \A b \in Call : Keeps(b)
  BY <1>1 DEF Keeps, RegistryInv, DocsInOrder, At
<1> QED
  BY <1>1, <1>2, KeepingStep

\* So does such a step that changes the handler only.
LEMMA HandlerStep ==
    ASSUME RegistryInv, NEW c \in Call, StepOf(c), Keeps(c),
           UNCHANGED <<chain, docs, dropped, engine>>
    PROVE  RegistryInv'
<1>1. built \in BOOLEAN
  BY DEF RegistryInv, Types
<1>2. /\ chain' = chain /\ docs' = docs /\ dropped' = dropped
      /\ mesh' \subseteq mesh /\ built' \in BOOLEAN
  BY <1>1 DEF engine
<1> QED
  BY <1>2, QuietStep

-----------------------------------------------------------------------------
(* The handlers. *)

\* A handler that is through, before it has called the Engine, holds nothing.
LEMMA FinishMoves ==
    ASSUME RegistryInv, NEW c \in Call, call[c].at \notin {"idle", "engine"},
           Finish(c), rpc' = rpc
    PROVE  StepOf(c) /\ Keeps(c) /\ Held(call'[c], rpc'[c]) = {}
<1> DEFINE q == rpc[c]
<1>1. q \in RpcRec /\ q.at = "none"
  BY DEF RegistryInv, Types, Fitting, Fit, CallRec
<1>2. call' = [call EXCEPT ![c] = NoCall] /\ call'[c] = NoCall /\ rpc'[c] = q
  BY DEF Finish, RegistryInv, Types
<1>3. rpc' = [rpc EXCEPT ![c] = rpc'[c]]
  BY DEF RegistryInv, Types
<1>4. Fit(NoCall, q) /\ Held(NoCall, q) = {}
  BY <1>1 DEF NoCall, Fit, Held, Creating, Removing
<1>5. Apart(call[c], q) => Apart(NoCall, q)
  BY NothingHeld DEF Apart
<1>6. NoCall.at # "create"
  BY DEF NoCall
<1> QED
  BY <1>1, <1>2, <1>3, <1>4, <1>5, <1>6, NothingHeld DEF StepOf, Keeps

\* After an entry, the records made so far are in the handler's hands, or in
\* those of the Engine call.
LEMMA ProceedMoves ==
    ASSUME RegistryInv, NEW c \in Call, call[c].at \in {"check", "create"},
           NEW m \in Seq(Entry), call[c].kind = "add" => m # <<>>,
           Proceed(c, m)
    PROVE  /\ StepOf(c)
           /\ call'[c].at # "create"
           /\ Held(call'[c], rpc'[c]) = IdsOf(m)
           /\ Distinct(m) /\ Apart(call[c], rpc[c]) => Apart(call'[c], rpc'[c])
<1> DEFINE r == call[c]
           q == rpc[c]
           rest == Tail(r.todo)
<1>1. r \in CallRec /\ q \in RpcRec /\ r.todo # <<>> /\ r.kind # "remove" /\ q.at = "none"
  BY DEF RegistryInv, Types, Fitting, Fit
<1>2. rest \in Seq(Entry)
  BY <1>1, TheRest DEF CallRec
<1>3. CASE rest # <<>>
  <2> DEFINE n == [r EXCEPT !.at = "check", !.todo = rest, !.made = m]
  <2>1. call' = [call EXCEPT ![c] = n] /\ rpc' = rpc
    BY <1>3 DEF Proceed, RegistryInv, Types
  <2>2. call'[c] = n /\ rpc'[c] = q /\ rpc' = [rpc EXCEPT ![c] = q]
    BY <2>1 DEF RegistryInv, Types
  <2>3. /\ n \in CallRec /\ n.at = "check" /\ n.todo = rest /\ n.made = m
        /\ n.kind = r.kind
    BY <1>1, <1>2 DEF CallRec
  <2> HIDE DEF n, r, q, rest
  <2>4. Fit(n, q)
    BY <1>1, <1>3, <2>3 DEF Fit
  <2>5. Held(n, q) = IdsOf(m)
    BY <1>1, <2>3 DEF Held, Creating, Removing
  <2>6. Distinct(m) /\ Apart(r, q) => Apart(n, q)
    BY <2>3 DEF Apart
  <2> QED
    BY <1>1, <2>1, <2>2, <2>3, <2>4, <2>5, <2>6 DEF StepOf, r, q
<1>4. CASE rest = <<>>
  <2> DEFINE n == [r EXCEPT !.at = "engine", !.todo = <<>>, !.made = m]
             o == IF r.kind = "add" THEN "add" ELSE "reboot"
             s == [at |-> "sent", op |-> o, nodes |-> m, id |-> None]
  <2>1. call' = [call EXCEPT ![c] = n] /\ rpc' = [rpc EXCEPT ![c] = s]
    BY <1>4 DEF Proceed, Send, RegistryInv, Types
  <2>2. call'[c] = n /\ rpc'[c] = s
    BY <2>1 DEF RegistryInv, Types
  <2>3. n \in CallRec /\ n.at = "engine" /\ n.made = m /\ n.kind = r.kind
    BY <1>1, <1>2, <1>4 DEF CallRec
  <2>4. s \in RpcRec /\ s.at = "sent" /\ s.op = o /\ s.nodes = m
    BY DEF RpcRec
  <2>5. o \in {"add", "reboot"} /\ (o = "add" => m # <<>>)
    OBVIOUS
  <2> HIDE DEF n, r, q, rest, s, o
  <2>6. Fit(n, s)
    BY <1>1, <2>3, <2>4, <2>5 DEF Fit
  <2>7. Held(n, s) = IdsOf(m)
    BY <2>3, <2>4, <2>5 DEF Held, Creating, Removing
  <2>8. Distinct(m) => Apart(n, s)
    BY <2>3, <2>4 DEF Apart
  <2> QED
    BY <2>1, <2>2, <2>3, <2>4, <2>6, <2>7, <2>8 DEF StepOf
<1> QED
  BY <1>3, <1>4

\* A new request holds nothing.
LEMMA StartMoves ==
    ASSUME RegistryInv, NEW c \in Call, Idle(c),
           NEW n \in CallRec, n.made = <<>>, n.at \in {"check", "exists"},
           n.at = "check" => n.todo # <<>> /\ n.kind # "remove",
           n.at = "exists" => n.kind = "remove",
           call' = [call EXCEPT ![c] = n], rpc' = rpc
    PROVE  StepOf(c) /\ Keeps(c)
<1>1. call'[c] = n /\ rpc'[c] = NoRpc /\ rpc' = [rpc EXCEPT ![c] = NoRpc]
  BY DEF RegistryInv, Types, Idle
<1>2. Fit(n, NoRpc) /\ Held(n, NoRpc) = {}
  BY DEF Fit, NoRpc, Held, Creating, Removing, IdsOf
<1>3. Apart(n, NoRpc)
  BY NothingHeld DEF Apart, Distinct
<1> QED
  BY <1>1, <1>2, <1>3, NothingHeld DEF StepOf, Keeps

\* register, add_node and remove_node begin.
LEMMA StartKeeps ==
    ASSUME RegistryInv, NEW c \in Call,
           \/ \E b \in Body : RegisterNodes(c, b)
           \/ \E e \in Entry : AddNode(c, e)
           \/ \E i \in Id : RemoveNode(c, i)
    PROVE  RegistryInv'
<1>0. NoCall \in CallRec /\ NoCall.made = <<>>
  BY NothingHeld DEF NoCall
<1>1. ASSUME NEW b \in Body, RegisterNodes(c, b)
      PROVE  RegistryInv'
  <2> DEFINE n == [NoCall EXCEPT !.at = "check", !.kind = "register", !.todo = b]
  <2>1. b \in Seq(Entry) /\ b # <<>>
    BY RegistryAssumption
  <2>2. n \in CallRec /\ n.made = <<>> /\ n.at = "check" /\ n.todo = b /\ n.kind = "register"
    BY <1>0, <2>1 DEF CallRec
  <2>3. Idle(c) /\ call' = [call EXCEPT ![c] = n] /\ rpc' = rpc
    BY <1>1 DEF RegisterNodes
  <2> HIDE DEF n
  <2>4. StepOf(c) /\ Keeps(c)
    BY <2>1, <2>2, <2>3, StartMoves
  <2>5. UNCHANGED <<chain, docs, dropped, engine>>
    BY <1>1 DEF RegisterNodes
  <2> QED
    BY <2>4, <2>5, HandlerStep
<1>2. ASSUME NEW e \in Entry, AddNode(c, e)
      PROVE  RegistryInv'
  <2> DEFINE n == [NoCall EXCEPT !.at = "check", !.kind = "add", !.todo = <<e>>]
  <2>1. <<e>> \in Seq(Entry) /\ <<e>> # <<>>
    OBVIOUS
  <2>2. n \in CallRec /\ n.made = <<>> /\ n.at = "check" /\ n.todo = <<e>> /\ n.kind = "add"
    BY <1>0, <2>1 DEF CallRec
  <2>3. Idle(c) /\ call' = [call EXCEPT ![c] = n] /\ rpc' = rpc
    BY <1>2 DEF AddNode
  <2> HIDE DEF n
  <2>4. StepOf(c) /\ Keeps(c)
    BY <2>1, <2>2, <2>3, StartMoves
  <2>5. UNCHANGED <<chain, docs, dropped, engine>>
    BY <1>2 DEF AddNode
  <2> QED
    BY <2>4, <2>5, HandlerStep
<1>3. ASSUME NEW i \in Id, RemoveNode(c, i)
      PROVE  RegistryInv'
  <2> DEFINE n == [NoCall EXCEPT !.at = "exists", !.kind = "remove", !.id = i]
  <2>1. n \in CallRec /\ n.made = <<>> /\ n.at = "exists" /\ n.kind = "remove"
    BY <1>0 DEF CallRec
  <2>2. Idle(c) /\ call' = [call EXCEPT ![c] = n] /\ rpc' = rpc
    BY <1>3 DEF RemoveNode
  <2> HIDE DEF n
  <2>3. StepOf(c) /\ Keeps(c)
    BY <2>1, <2>2, StartMoves
  <2>4. UNCHANGED <<chain, docs, dropped, engine>>
    BY <1>3 DEF RemoveNode
  <2> QED
    BY <2>3, <2>4, HandlerStep
<1> QED
  BY <1>1, <1>2, <1>3

\* A handler that gives up leaves the invariant as it is.
LEMMA FinishKeeps ==
    ASSUME RegistryInv, NEW c \in Call, call[c].at \notin {"idle", "engine"},
           Finish(c), UNCHANGED <<chain, docs, dropped, engine, rpc>>
    PROVE  RegistryInv'
<1>1. rpc' = rpc
  OBVIOUS
<1>2. StepOf(c) /\ Keeps(c)
  BY <1>1, FinishMoves
<1> QED
  BY <1>2, HandlerStep

\* The contract is asked: the entry may be created now, or is passed over.
LEMMA CheckKeeps ==
    ASSUME RegistryInv, NEW c \in Call, CheckNodeOnChain(c)
    PROVE  RegistryInv'
<1> DEFINE r == call[c]
           q == rpc[c]
<1>1. /\ r \in CallRec /\ q \in RpcRec /\ r.at = "check"
      /\ r.todo # <<>> /\ r.kind # "remove" /\ q.at = "none"
  BY DEF CheckNodeOnChain, At, RegistryInv, Types, Fitting, Fit
<1>2. UNCHANGED <<chain, docs, dropped, engine>>
  BY DEF CheckNodeOnChain
<1>3. ASSUME Head(r.todo).wallet \in chain,
             call' = [call EXCEPT ![c].at = "create"], rpc' = rpc
      PROVE  RegistryInv'
  <2> DEFINE n == [r EXCEPT !.at = "create"]
  <2>1. /\ call' = [call EXCEPT ![c] = n] /\ call'[c] = n
        /\ rpc'[c] = q /\ rpc' = [rpc EXCEPT ![c] = q]
    BY <1>3 DEF RegistryInv, Types
  <2>2. /\ n \in CallRec /\ n.at = "create" /\ n.made = r.made
        /\ n.todo = r.todo /\ n.kind = r.kind
    BY <1>1 DEF CallRec
  <2> HIDE DEF n, r, q
  <2>3. Fit(n, q) /\ Held(n, q) = Held(r, q) /\ (Apart(r, q) => Apart(n, q))
    BY <1>1, <2>2 DEF Fit, Held, Creating, Removing, Apart
  <2>4. StepOf(c) /\ Keeps(c)
    BY <1>1, <1>3, <2>1, <2>2, <2>3 DEF StepOf, Keeps, r, q
  <2> QED
    BY <1>2, <2>4, HandlerStep
<1>4. ASSUME r.kind # "add", Proceed(c, r.made)
      PROVE  RegistryInv'
  <2>1. r.made \in Seq(Entry)
    BY <1>1 DEF CallRec
  <2>2. /\ StepOf(c)
        /\ call'[c].at # "create"
        /\ Held(call'[c], rpc'[c]) = IdsOf(r.made)
        /\ Distinct(r.made) /\ Apart(r, q) => Apart(call'[c], rpc'[c])
    BY <1>1, <1>4, <2>1, ProceedMoves
  <2>3. IdsOf(r.made) = Held(r, q)
    BY <1>1 DEF Held, Creating, Removing
  <2>4. Apart(r, q) => Distinct(r.made)
    BY DEF Apart
  <2>5. Keeps(c)
    BY <2>2, <2>3, <2>4 DEF Keeps
  <2> QED
    BY <1>2, <2>2, <2>5, HandlerStep
<1>5. ASSUME Finish(c), rpc' = rpc
      PROVE  RegistryInv'
  BY <1>1, <1>2, <1>5, FinishKeeps
<1> QED
  BY <1>3, <1>4, <1>5 DEF CheckNodeOnChain

\* A document enters the collection under the unique index: its id is in nobody's
\* hands and not in the Engine, for whatever is has a document already.
LEMMA CreateKeeps ==
    ASSUME RegistryInv, NEW c \in Call, Create(c)
    PROVE  RegistryInv'
<1> DEFINE r == call[c]
           q == rpc[c]
           e == Head(r.todo)
<1>1. /\ r \in CallRec /\ q \in RpcRec /\ r.at = "create"
      /\ r.todo # <<>> /\ q.at = "none"
  BY DEF Create, At, RegistryInv, Types, Fitting, Fit
<1>2. /\ e \in Entry /\ r.made \in Seq(Entry) /\ e.wallet \in chain
  <2>1. r.todo \in Seq(Entry) /\ r.made \in Seq(Entry)
    BY <1>1 DEF CallRec
  <2>2. e.wallet \in chain
    BY <1>1 DEF RegistryInv, DocsInOrder, At
  <2> QED
    BY <1>1, <2>1, <2>2, TheRest
<1>3. /\ \A d \in docs : d.id # e.id
      /\ docs' = docs \cup {e}
      /\ chain' = chain /\ dropped' = dropped /\ mesh' = mesh /\ built' = built
  BY DEF Create, engine
<1>4. Held(r, q) = IdsOf(r.made)
  BY <1>1 DEF Held, Creating, Removing
<1>5. /\ StepOf(c)
      /\ call'[c].at # "create"
      /\ Held(call'[c], rpc'[c]) \subseteq Held(r, q) \cup {e.id}
      /\ Apart(r, q) /\ e.id \notin Held(r, q) => Apart(call'[c], rpc'[c])
  <2>1. CASE Proceed(c, Append(r.made, e))
    <3> DEFINE m == Append(r.made, e)
    <3>1. /\ m \in Seq(Entry) /\ m # <<>> /\ IdsOf(m) = IdsOf(r.made) \cup {e.id}
          /\ Distinct(r.made) /\ e.id \notin IdsOf(r.made) => Distinct(m)
      BY <1>2, OneMore
    <3> HIDE DEF m
    <3>2. Proceed(c, m)
      BY <2>1 DEF m
    <3>3. /\ StepOf(c)
          /\ call'[c].at # "create"
          /\ Held(call'[c], rpc'[c]) = IdsOf(m)
          /\ Distinct(m) /\ Apart(r, q) => Apart(call'[c], rpc'[c])
      BY <1>1, <3>1, <3>2, ProceedMoves
    <3>4. Apart(r, q) => Distinct(r.made)
      BY DEF Apart
    <3> QED
      BY <1>4, <3>1, <3>3, <3>4
  <2>2. CASE Finish(c) /\ rpc' = rpc
    <3>1. StepOf(c) /\ Keeps(c) /\ Held(call'[c], rpc'[c]) = {}
      BY <1>1, <2>2, FinishMoves
    <3>2. call'[c].at # "create"
      BY <2>2 DEF Finish, NoCall, RegistryInv, Types
    <3> QED
      BY <3>1, <3>2 DEF Keeps
  <2> QED
    BY <2>1, <2>2 DEF Create
<1> HIDE DEF r, q, e
<1>6. /\ call' \in [Call -> CallRec] /\ rpc' \in [Call -> RpcRec]
      /\ Fitting'
      /\ \A b \in Call : b # c => call'[b] = call[b] /\ rpc'[b] = rpc[b]
  BY <1>5, OneSteps
<1>7. Types'
  BY <1>2, <1>3, <1>6 DEF RegistryInv, Types
<1>8. DocsInOrder'
  BY <1>2, <1>3, <1>5, <1>6 DEF RegistryInv, DocsInOrder, At
<1>9. ASSUME ~dropped
      PROVE  HeldApart'
  <2>1. HeldApart
    BY <1>9 DEF RegistryInv
  <2>2. ~Stored(e.id) /\ \A i : Stored(i)' <=> Stored(i) \/ i = e.id
    BY <1>3 DEF Stored
  <2>3. e.id \notin mesh /\ \A b \in Call : e.id \notin Held(call[b], rpc[b])
    BY <2>1, <2>2 DEF HeldApart
  <2>4. \A i \in mesh' : Stored(i)'
    BY <1>3, <2>1, <2>2 DEF HeldApart
  <2>5. \A b \in Call : \A i \in Held(call'[b], rpc'[b]) :
            i \in Held(call[b], rpc[b]) \/ (b = c /\ i = e.id)
    BY <1>5, <1>6 DEF r, q
  <2>6. \A b \in Call : \A i \in Held(call'[b], rpc'[b]) : Stored(i)' /\ i \notin mesh'
    BY <1>3, <2>1, <2>2, <2>3, <2>5 DEF HeldApart
  <2>7. \A a, b \in Call : a # b =>
          Held(call'[a], rpc'[a]) \cap Held(call'[b], rpc'[b]) = {}
    BY <2>1, <2>3, <2>5 DEF HeldApart
  <2>8. \A b \in Call : Apart(call'[b], rpc'[b])
    BY <1>5, <1>6, <2>1, <2>3 DEF HeldApart, r, q
  <2> QED
    BY <2>4, <2>6, <2>7, <2>8 DEF HeldApart
<1> QED
  BY <1>3, <1>6, <1>7, <1>8, <1>9 DEF RegistryInv

\* remove_node goes on to the Engine.
LEMMA ExistsKeeps ==
    ASSUME RegistryInv, NEW c \in Call, Exists(c)
    PROVE  RegistryInv'
<1> DEFINE r == call[c]
           n == [r EXCEPT !.at = "engine", !.todo = <<>>, !.made = <<>>]
           s == [at |-> "sent", op |-> "remove", nodes |-> <<>>, id |-> r.id]
<1>1. r \in CallRec /\ r.at = "exists" /\ r.kind = "remove"
  BY DEF Exists, At, RegistryInv, Types, Fitting, Fit
<1>2. UNCHANGED <<chain, docs, dropped, engine>>
  BY DEF Exists
<1>3. ASSUME Send(c, <<>>, "remove", <<>>, r.id)
      PROVE  RegistryInv'
  <2>1. call' = [call EXCEPT ![c] = n] /\ rpc' = [rpc EXCEPT ![c] = s]
    BY <1>3 DEF Send, RegistryInv, Types
  <2>2. call'[c] = n /\ rpc'[c] = s
    BY <2>1 DEF RegistryInv, Types
  <2>3. <<>> \in Seq(Entry)
    OBVIOUS
  <2>4. /\ n \in CallRec /\ n.at = "engine" /\ n.made = <<>> /\ n.kind = "remove"
        /\ n.id = r.id
    BY <1>1, <2>3 DEF CallRec
  <2>5. r.id \in Id \cup {None}
    BY <1>1 DEF CallRec
  <2>6. /\ s \in RpcRec /\ s.at = "sent" /\ s.op = "remove" /\ s.nodes = <<>>
        /\ s.id = r.id
    BY <2>3, <2>5 DEF RpcRec
  <2> HIDE DEF n, s, r
  <2>7. Fit(n, s) /\ Held(n, s) = {} /\ Apart(n, s)
    BY <2>4, <2>6 DEF Fit, Held, Creating, Removing, Apart, Distinct
  <2>8. StepOf(c) /\ Keeps(c)
    BY <2>1, <2>2, <2>4, <2>6, <2>7 DEF StepOf, Keeps
  <2> QED
    BY <1>2, <2>8, HandlerStep
<1>4. ASSUME Finish(c), rpc' = rpc
      PROVE  RegistryInv'
  BY <1>1, <1>2, <1>4, FinishKeeps
<1> QED
  BY <1>3, <1>4 DEF Exists

\* The document that goes is the one the request has in its hands.
LEMMA DeleteKeeps ==
    ASSUME RegistryInv, NEW c \in Call, Delete(c)
    PROVE  RegistryInv'
<1> DEFINE r == call[c]
           q == rpc[c]
<1>1. r.at = "delete" /\ rpc' = rpc /\ Finish(c)
  BY DEF Delete, At
<1>2. /\ docs' = {d \in docs : d.id # r.id}
      /\ chain' = chain /\ dropped' = dropped /\ mesh' = mesh /\ built' = built
  BY DEF Delete, engine
<1>3. StepOf(c) /\ Keeps(c) /\ Held(call'[c], rpc'[c]) = {}
  BY <1>1, FinishMoves
<1>4. /\ call' \in [Call -> CallRec] /\ rpc' \in [Call -> RpcRec]
      /\ Fitting'
      /\ \A b \in Call : b # c => call'[b] = call[b] /\ rpc'[b] = rpc[b]
  BY <1>3, OneSteps
<1>5. Types'
  BY <1>2, <1>4 DEF RegistryInv, Types
<1>6. DocsInOrder'
  BY <1>2, <1>3, <1>4 DEF RegistryInv, DocsInOrder, Keeps, At
<1>7. ASSUME ~dropped
      PROVE  HeldApart'
  <2>1. HeldApart
    BY <1>7 DEF RegistryInv
  <2>2. r.id \in Held(r, q)
    BY <1>1 DEF Held, Removing
  <2>3. \A i : Stored(i)' <=> Stored(i) /\ i # r.id
    BY <1>2 DEF Stored
  <2>4. \A b \in Call : Held(call'[b], rpc'[b]) =
            IF b = c THEN {} ELSE Held(call[b], rpc[b])
    BY <1>3, <1>4
  <2>5. \A b \in Call : Apart(call'[b], rpc'[b])
    BY <1>3, <1>4, <2>1 DEF HeldApart, Keeps
  <2> HIDE DEF r, q
  <2>6. r.id \notin mesh /\ \A b \in Call : b # c => r.id \notin Held(call[b], rpc[b])
    BY <2>1, <2>2 DEF HeldApart, r, q
  <2>7. \A i \in mesh' : Stored(i)'
    BY <1>2, <2>1, <2>3, <2>6 DEF HeldApart
  <2>8. \A b \in Call : \A i \in Held(call'[b], rpc'[b]) : Stored(i)' /\ i \notin mesh'
    BY <1>2, <2>1, <2>3, <2>4, <2>6 DEF HeldApart
  <2>9. \A a, b \in Call : a # b =>
          Held(call'[a], rpc'[a]) \cap Held(call'[b], rpc'[b]) = {}
    BY <2>1, <2>4 DEF HeldApart
  <2> QED
    BY <2>5, <2>7, <2>8, <2>9 DEF HeldApart
<1> QED
  BY <1>2, <1>4, <1>5, <1>6, <1>7 DEF RegistryInv

\* The Engine's answer: what a removal has taken from the Engine is now the
\* handler's to delete.
LEMMA AnsweredKeeps ==
    ASSUME RegistryInv, NEW c \in Call, Answered(c)
    PROVE  RegistryInv'
<1> DEFINE r == call[c]
           q == rpc[c]
<1>1. /\ r \in CallRec /\ q \in RpcRec /\ r.at = "engine" /\ Fit(r, q)
  BY DEF Answered, At, RegistryInv, Types, Fitting
<1>2. UNCHANGED <<chain, docs, dropped, engine>>
  BY DEF Answered
<1>3. rpc' = [rpc EXCEPT ![c] = NoRpc] /\ rpc'[c] = NoRpc
  BY DEF Answered, RegistryInv, Types
<1>4. Apart(r, q) => Apart(r, NoRpc) /\ Apart(NoCall, NoRpc)
  BY NothingHeld DEF Apart
<1>5. CASE q.at = "ok" /\ r.kind = "remove"
  <2> DEFINE n == [r EXCEPT !.at = "delete"]
  <2>1. call' = [call EXCEPT ![c] = n] /\ call'[c] = n
    BY <1>5 DEF Answered, RegistryInv, Types
  <2>2. n \in CallRec /\ n.at = "delete" /\ n.made = r.made /\ n.id = r.id
    BY <1>1 DEF CallRec
  <2> HIDE DEF n, r, q
  <2>3. Fit(n, NoRpc) /\ Held(n, NoRpc) = {r.id}
    BY <2>2 DEF NoRpc, Fit, Held, Creating, Removing
  <2>4. Held(r, q) = {r.id}
    BY <1>1, <1>5 DEF Fit, Held, Creating, Removing
  <2>5. Apart(r, q) => Apart(n, NoRpc)
    BY <1>4, <2>2 DEF Apart
  <2>6. StepOf(c) /\ Keeps(c)
    BY <1>3, <2>1, <2>2, <2>3, <2>4, <2>5, NothingHeld DEF StepOf, Keeps, r, q
  <2> QED
    BY <1>2, <2>6, HandlerStep
<1>6. CASE ~(q.at = "ok" /\ r.kind = "remove")
  <2>1. call' = [call EXCEPT ![c] = NoCall] /\ call'[c] = NoCall
    BY <1>6 DEF Answered, Finish, RegistryInv, Types
  <2>2. NoCall.at # "create"
    BY DEF NoCall
  <2>3. StepOf(c) /\ Keeps(c)
    BY <1>3, <2>1, <2>2, NothingHeld DEF StepOf, Keeps
  <2> QED
    BY <1>2, <2>3, HandlerStep
<1> QED
  BY <1>5, <1>6

\* The handler goes; what it has sent stays in the hands of the call.
LEMMA DisconnectKeeps ==
    ASSUME RegistryInv, NEW c \in Call, Disconnect(c)
    PROVE  RegistryInv'
<1> DEFINE r == call[c]
           q == rpc[c]
<1>1. r \in CallRec /\ q \in RpcRec /\ r.at = "engine" /\ Fit(r, q)
  BY DEF Disconnect, At, RegistryInv, Types, Fitting
<1>2. UNCHANGED <<chain, docs, dropped, engine>>
  BY DEF Disconnect
<1>3. call' = [call EXCEPT ![c] = NoCall] /\ call'[c] = NoCall
  BY DEF Disconnect, Finish, RegistryInv, Types
<1>4. NoCall.at # "create"
  BY DEF NoCall
<1>5. CASE rpc' = [rpc EXCEPT ![c] = NoRpc]
  <2>1. rpc'[c] = NoRpc
    BY <1>5 DEF RegistryInv, Types
  <2>2. StepOf(c) /\ Keeps(c)
    BY <1>3, <1>4, <1>5, <2>1, NothingHeld DEF StepOf, Keeps
  <2> QED
    BY <1>2, <2>2, HandlerStep
<1>6. CASE q.at = "sent" /\ rpc' = rpc
  <2>1. rpc'[c] = q /\ rpc' = [rpc EXCEPT ![c] = q]
    BY <1>6 DEF RegistryInv, Types
  <2>2. Fit(NoCall, q) /\ Held(NoCall, q) = Held(r, q)
    BY <1>1, <1>6, NothingHeld
  <2>3. Apart(r, q) => Apart(NoCall, q)
    BY NothingHeld DEF Apart
  <2>4. StepOf(c) /\ Keeps(c)
    BY <1>1, <1>3, <1>4, <2>1, <2>2, <2>3, NothingHeld DEF StepOf, Keeps
  <2> QED
    BY <1>2, <2>4, HandlerStep
<1> QED
  BY <1>5, <1>6 DEF Disconnect

-----------------------------------------------------------------------------
(* The Engine's side. *)

\* An answer leaves the handler as it is, and at most the id of a removal that
\* has succeeded in its hands.
LEMMA ReplyMoves ==
    ASSUME RegistryInv, NEW c \in Call, NEW outcome \in {"ok", "failed"},
           rpc[c].at = "sent", Reply(c, outcome), call' = call
    PROVE  /\ StepOf(c)
           /\ call'[c].at = "create" => Head(call'[c].todo).wallet \in chain
           /\ Held(call'[c], rpc'[c]) \subseteq
                IF outcome = "ok" /\ rpc[c].op = "remove" THEN {rpc[c].id} ELSE {}
           /\ Apart(call[c], rpc[c]) => Apart(call'[c], rpc'[c])
<1> DEFINE r == call[c]
           q == rpc[c]
           s == IF r.at = "engine" THEN [q EXCEPT !.at = outcome] ELSE NoRpc
<1>1. /\ r \in CallRec /\ q \in RpcRec /\ Fit(r, q)
      /\ r.at = "create" => Head(r.todo).wallet \in chain
  BY DEF RegistryInv, Types, Fitting, DocsInOrder, At
<1>2. /\ call'[c] = r /\ call' = [call EXCEPT ![c] = r]
      /\ rpc' = [rpc EXCEPT ![c] = s] /\ rpc'[c] = s
  BY DEF Reply, At, RegistryInv, Types
<1>3. r.at \in {"engine", "idle"}
  BY <1>1 DEF Fit, CallRec
<1>4. CASE r.at = "engine"
  <2> DEFINE n == [q EXCEPT !.at = outcome]
  <2>1. s = n
    BY <1>4
  <2>2. /\ n \in RpcRec /\ n.at = outcome /\ n.op = q.op /\ n.nodes = q.nodes
        /\ n.id = q.id
    BY <1>1 DEF RpcRec
  <2> HIDE DEF n, s, r, q
  <2>3. Fit(r, n)
    BY <1>1, <1>4, <2>2 DEF Fit
  <2>4. Held(r, n) \subseteq IF outcome = "ok" /\ q.op = "remove" THEN {q.id} ELSE {}
    BY <1>1, <1>4, <2>2 DEF Fit, Held, Creating, Removing
  <2>5. Apart(r, q) => Apart(r, n)
    BY <2>2 DEF Apart
  <2> QED
    BY <1>1, <1>2, <2>1, <2>2, <2>3, <2>4, <2>5 DEF StepOf, r, q
<1>5. CASE r.at = "idle"
  <2>1. s = NoRpc
    BY <1>5
  <2>2. Fit(r, NoRpc) /\ Held(r, NoRpc) = {}
    BY <1>5 DEF NoRpc, Fit, Held, Creating, Removing
  <2>3. Apart(r, q) => Apart(r, NoRpc)
    BY NothingHeld DEF Apart
  <2> HIDE DEF s
  <2> QED
    BY <1>1, <1>2, <1>5, <2>1, <2>2, <2>3, NothingHeld DEF StepOf
<1> QED
  BY <1>3, <1>4, <1>5

\* The Engine refuses: nothing changes but the call.
LEMMA RefusalKeeps ==
    ASSUME RegistryInv, NEW c \in Call, rpc[c].at = "sent", Reply(c, "failed"),
           UNCHANGED <<chain, docs, dropped, call>>,
           mesh' = mesh, built' \in BOOLEAN
    PROVE  RegistryInv'
<1>1. /\ call' = call /\ chain' = chain /\ docs' = docs /\ dropped' = dropped
      /\ mesh' \subseteq mesh
  OBVIOUS
<1>2. StepOf(c) /\ Keeps(c)
  BY <1>1, ReplyMoves DEF Keeps
<1> QED
  BY <1>1, <1>2, QuietStep

\* What the Engine takes was in the hands of the call that delivers it.
LEMMA DeliveryKeeps ==
    ASSUME RegistryInv, NEW c \in Call, NEW outcome \in {"ok", "failed"},
           rpc[c].at = "sent", rpc[c].op # "remove", Reply(c, outcome),
           UNCHANGED <<chain, docs, dropped, call>>,
           mesh' \subseteq mesh \cup Held(call[c], rpc[c]), mesh' \subseteq Id,
           built' \in BOOLEAN
    PROVE  RegistryInv'
<1>1. call' = call /\ chain' = chain /\ docs' = docs /\ dropped' = dropped
  OBVIOUS
<1>2. StepOf(c) /\ Keeps(c) /\ Held(call'[c], rpc'[c]) = {}
  BY <1>1, ReplyMoves DEF Keeps
<1>3. /\ call' \in [Call -> CallRec] /\ rpc' \in [Call -> RpcRec]
      /\ Fitting'
      /\ \A b \in Call : b # c => call'[b] = call[b] /\ rpc'[b] = rpc[b]
  BY <1>2, OneSteps
<1>4. Types'
  BY <1>1, <1>3 DEF RegistryInv, Types
<1>5. DocsInOrder'
  BY <1>1 DEF RegistryInv, DocsInOrder, At
<1>6. ASSUME ~dropped
      PROVE  HeldApart'
  <2>1. HeldApart
    BY <1>6 DEF RegistryInv
  <2>2. \A i : Stored(i)' <=> Stored(i)
    BY <1>1 DEF Stored
  <2>3. \A b \in Call : Held(call'[b], rpc'[b]) =
            IF b = c THEN {} ELSE Held(call[b], rpc[b])
    BY <1>2, <1>3
  <2>4. \A b \in Call : Apart(call'[b], rpc'[b])
    BY <1>2, <1>3, <2>1 DEF HeldApart, Keeps
  <2>5. \A i \in mesh' : Stored(i)'
    BY <2>1, <2>2 DEF HeldApart
  <2>6. \A b \in Call : \A i \in Held(call'[b], rpc'[b]) : Stored(i)' /\ i \notin mesh'
    BY <2>1, <2>2, <2>3 DEF HeldApart
  <2>7. \A a, b \in Call : a # b =>
          Held(call'[a], rpc'[a]) \cap Held(call'[b], rpc'[b]) = {}
    BY <2>1, <2>3 DEF HeldApart
  <2> QED
    BY <2>4, <2>5, <2>6, <2>7 DEF HeldApart
<1> QED
  BY <1>1, <1>3, <1>4, <1>5, <1>6 DEF RegistryInv

\* InitialReboot: the new mesh is a part of the batch.
LEMMA RebootKeeps ==
    ASSUME RegistryInv, NEW c \in Call, EngineReboots(c)
    PROVE  RegistryInv'
<1> DEFINE q == rpc[c]
<1>1. /\ call[c] \in CallRec /\ q \in RpcRec /\ Fit(call[c], q)
      /\ q.at = "sent" /\ q.op = "reboot" /\ built \in BOOLEAN
  BY DEF EngineReboots, Arrives, RegistryInv, Types, Fitting
<1>2. UNCHANGED <<chain, docs, dropped, call>>
  BY DEF EngineReboots
<1>3. ASSUME Reply(c, "failed"), UNCHANGED engine
      PROVE  RegistryInv'
  <2>1. mesh' = mesh /\ built' \in BOOLEAN
    BY <1>1, <1>3 DEF engine
  <2> QED
    BY <1>1, <1>2, <1>3, <2>1, RefusalKeeps
<1>4. ASSUME NEW n \in 0 .. Len(q.nodes),
             mesh' = {q.nodes[k].id : k \in 1 .. n},
             Reply(c, IF n = Len(q.nodes) THEN "ok" ELSE "failed"),
             built' = TRUE
      PROVE  RegistryInv'
  <2>1. q.nodes \in Seq(Entry)
    BY <1>1 DEF RpcRec
  <2>2. DOMAIN q.nodes = 1 .. Len(q.nodes) /\ Len(q.nodes) \in Nat
    BY <2>1
  <2>3. \A k \in DOMAIN q.nodes : q.nodes[k] \in Entry /\ q.nodes[k].id \in Id
    BY <2>1, RegistryAssumption
  <2>4. 1 .. n \subseteq DOMAIN q.nodes
    BY <2>2
  <2>5. mesh' \subseteq Id /\ mesh' \subseteq IdsOf(q.nodes)
    BY <1>4, <2>3, <2>4 DEF IdsOf
  <2>6. IdsOf(q.nodes) \subseteq Held(call[c], q)
    BY <1>1 DEF Fit, Held, Creating
  <2> QED
    BY <1>1, <1>2, <1>4, <2>5, <2>6, DeliveryKeeps
<1> QED
  BY <1>3, <1>4 DEF EngineReboots

\* AddNodeMethod.
LEMMA AddKeeps ==
    ASSUME RegistryInv, NEW c \in Call, EngineAdds(c)
    PROVE  RegistryInv'
<1> DEFINE q == rpc[c]
           e == q.nodes[1]
<1>1. /\ call[c] \in CallRec /\ q \in RpcRec /\ Fit(call[c], q)
      /\ q.at = "sent" /\ q.op = "add" /\ built' \in BOOLEAN /\ mesh \subseteq Id
  BY DEF EngineAdds, Arrives, RegistryInv, Types, Fitting
<1>2. UNCHANGED <<chain, docs, dropped, call>>
  BY DEF EngineAdds
<1>3. ASSUME Reply(c, "failed"), mesh' = mesh
      PROVE  RegistryInv'
  BY <1>1, <1>2, <1>3, RefusalKeeps
<1>4. ASSUME Reply(c, "ok"), mesh' = mesh \cup {e.id}
      PROVE  RegistryInv'
  <2>1. q.nodes \in Seq(Entry) /\ q.nodes # <<>>
    BY <1>1 DEF RpcRec, Fit
  <2>2. 1 \in DOMAIN q.nodes /\ e \in Entry
    BY <2>1
  <2>3. e.id \in Id /\ e.id \in IdsOf(q.nodes)
    BY <2>2, RegistryAssumption DEF IdsOf
  <2>4. IdsOf(q.nodes) \subseteq Held(call[c], q)
    BY <1>1 DEF Fit, Held, Creating
  <2>5. mesh' \subseteq Id /\ mesh' \subseteq mesh \cup Held(call[c], q)
    BY <1>1, <1>4, <2>3, <2>4
  <2> QED
    BY <1>1, <1>2, <1>4, <2>5, DeliveryKeeps
<1> QED
  BY <1>3, <1>4 DEF EngineAdds

\* RemoveNodeMethod: the id goes from the Engine into the handler's hands, and
\* was in nobody's before.
LEMMA RemoveKeeps ==
    ASSUME RegistryInv, NEW c \in Call, EngineRemoves(c)
    PROVE  RegistryInv'
<1> DEFINE q == rpc[c]
           i == q.id
<1>1. q.at = "sent" /\ q.op = "remove" /\ built' \in BOOLEAN
  BY DEF EngineRemoves, Arrives, RegistryInv, Types
<1>2. UNCHANGED <<chain, docs, dropped, call>>
  BY DEF EngineRemoves
<1>3. ASSUME Reply(c, "failed"), mesh' = mesh
      PROVE  RegistryInv'
  BY <1>1, <1>2, <1>3, RefusalKeeps
<1>4. ASSUME i \in mesh, mesh' = mesh \ {i}, Reply(c, "ok")
      PROVE  RegistryInv'
  <2>1. call' = call /\ chain' = chain /\ docs' = docs /\ dropped' = dropped
    BY <1>2
  <2>2. /\ StepOf(c)
        /\ Held(call'[c], rpc'[c]) \subseteq {i}
        /\ Apart(call[c], rpc[c]) => Apart(call'[c], rpc'[c])
    BY <1>1, <1>4, <2>1, ReplyMoves
  <2>3. /\ call' \in [Call -> CallRec] /\ rpc' \in [Call -> RpcRec]
        /\ Fitting'
        /\ \A b \in Call : b # c => call'[b] = call[b] /\ rpc'[b] = rpc[b]
    BY <2>2, OneSteps
  <2> HIDE DEF i, q
  <2>4. Types'
    BY <1>1, <1>4, <2>1, <2>3 DEF RegistryInv, Types
  <2>5. DocsInOrder'
    BY <2>1 DEF RegistryInv, DocsInOrder, At
  <2>6. ASSUME ~dropped
        PROVE  HeldApart'
    <3>1. HeldApart
      BY <2>6 DEF RegistryInv
    <3>2. \A j : Stored(j)' <=> Stored(j)
      BY <2>1 DEF Stored
    <3>3. \A b \in Call : \A j \in Held(call'[b], rpc'[b]) :
              IF b = c THEN j = i ELSE j \in Held(call[b], rpc[b])
      BY <2>2, <2>3
    <3>4. \A b \in Call : i \notin Held(call[b], rpc[b])
      BY <1>4, <3>1 DEF HeldApart
    <3>5. \A b \in Call : Apart(call'[b], rpc'[b])
      BY <2>2, <2>3, <3>1 DEF HeldApart
    <3>6. \A j \in mesh' : Stored(j)'
      BY <1>4, <3>1, <3>2 DEF HeldApart
    <3>7. \A b \in Call : \A j \in Held(call'[b], rpc'[b]) : Stored(j)' /\ j \notin mesh'
      BY <1>4, <3>1, <3>2, <3>3 DEF HeldApart
    <3>8. \A a, b \in Call : a # b =>
            Held(call'[a], rpc'[a]) \cap Held(call'[b], rpc'[b]) = {}
      BY <3>1, <3>3, <3>4 DEF HeldApart
    <3> QED
      BY <3>5, <3>6, <3>7, <3>8 DEF HeldApart
  <2> QED
    BY <2>1, <2>3, <2>4, <2>5, <2>6 DEF RegistryInv
<1> QED
  BY <1>3, <1>4 DEF EngineRemoves

-----------------------------------------------------------------------------
(* Ends and beginnings of the processes. *)

\* A wallet registers itself.
LEMMA ChainKeeps ==
    ASSUME RegistryInv, NEW w \in Wallet, RegisterOnChain(w)
    PROVE  RegistryInv'
<1>1. /\ chain' = chain \cup {w} /\ docs' = docs /\ dropped' = dropped
      /\ mesh' = mesh /\ built' = built /\ call' = call /\ rpc' = rpc
  BY DEF RegisterOnChain, engine
<1>2. Types'
  BY <1>1 DEF RegistryInv, Types
<1>3. Fitting' /\ DocsInOrder'
  BY <1>1 DEF RegistryInv, Fitting, DocsInOrder, At
<1>4. ~dropped => HeldApart'
  BY <1>1 DEF RegistryInv, HeldApart, Stored
<1> QED
  BY <1>1, <1>2, <1>3, <1>4 DEF RegistryInv

\* The Orchestrator dies: what has been sent is in the hands of the call.
LEMMA CrashKeeps ==
    ASSUME RegistryInv, OrchestratorCrash
    PROVE  RegistryInv'
<1>1. /\ chain' = chain /\ docs' = docs /\ dropped' = dropped
      /\ mesh' \subseteq mesh /\ built' \in BOOLEAN
  BY DEF OrchestratorCrash, engine, RegistryInv, Types
<1>2. \A c \in Call :
        /\ call'[c] = NoCall
        /\ rpc'[c] = IF rpc[c].at = "sent" THEN rpc[c] ELSE NoRpc
  BY DEF OrchestratorCrash
<1>3. call' \in [Call -> CallRec] /\ rpc' \in [Call -> RpcRec]
  BY NothingHeld DEF OrchestratorCrash, RegistryInv, Types
<1>4. \A c \in Call : Fit(call'[c], rpc'[c]) /\ Keeps(c)
  <2> SUFFICES ASSUME NEW c \in Call
               PROVE  Fit(call'[c], rpc'[c]) /\ Keeps(c)
    OBVIOUS
  <2> DEFINE r == call[c]
             q == rpc[c]
  <2>1. r \in CallRec /\ q \in RpcRec /\ Fit(r, q)
    BY DEF RegistryInv, Types, Fitting
  <2>2. NoCall.at # "create"
    BY DEF NoCall
  <2>3. CASE q.at = "sent"
    <3>1. r.at \in {"engine", "idle"}
      BY <2>1, <2>3 DEF Fit, CallRec
    <3>2. Fit(NoCall, q)
      BY <2>1, <2>3 DEF Fit, NoCall
    <3>3. Held(NoCall, q) \subseteq Held(r, q)
      BY <2>3, <3>1 DEF Held, Creating, Removing, NoCall
    <3>4. Apart(r, q) => Apart(NoCall, q)
      BY NothingHeld DEF Apart
    <3> QED
      BY <1>2, <2>2, <2>3, <3>2, <3>3, <3>4 DEF Keeps
  <2>4. CASE q.at # "sent"
    BY <1>2, <2>2, <2>4, NothingHeld DEF Keeps
  <2> QED
    BY <2>3, <2>4
<1> QED
  BY <1>1, <1>3, <1>4, KeepingStep DEF Fitting

\* The Engine restarts: calls on their way to it fail.
LEMMA RestartKeeps ==
    ASSUME RegistryInv, EngineRestart
    PROVE  RegistryInv'
<1>1. /\ chain' = chain /\ docs' = docs /\ dropped' = dropped
      /\ mesh' \subseteq mesh /\ built' \in BOOLEAN /\ call' = call
  BY DEF EngineRestart
<1>2. \A c \in Call :
        rpc'[c] = IF rpc[c].at # "sent" THEN rpc[c]
                  ELSE IF call[c].at = "engine" THEN [rpc[c] EXCEPT !.at = "failed"]
                  ELSE NoRpc
  BY DEF EngineRestart, At
<1>3. \A c \in Call : rpc'[c] \in RpcRec /\ Fit(call[c], rpc'[c]) /\ Keeps(c)
  <2> SUFFICES ASSUME NEW c \in Call
               PROVE  rpc'[c] \in RpcRec /\ Fit(call[c], rpc'[c]) /\ Keeps(c)
    OBVIOUS
  <2> DEFINE r == call[c]
             q == rpc[c]
             n == [q EXCEPT !.at = "failed"]
  <2>1. /\ r \in CallRec /\ q \in RpcRec /\ Fit(r, q)
        /\ r.at = "create" => Head(r.todo).wallet \in chain
    BY DEF RegistryInv, Types, Fitting, DocsInOrder, At
  <2>2. CASE q.at # "sent"
    BY <1>1, <1>2, <2>1, <2>2 DEF Keeps
  <2>3. CASE q.at = "sent" /\ r.at = "engine"
    <3>1. rpc'[c] = n
      BY <1>2, <2>3
    <3>2. /\ n \in RpcRec /\ n.at = "failed" /\ n.op = q.op /\ n.nodes = q.nodes
          /\ n.id = q.id
      BY <2>1 DEF RpcRec
    <3> HIDE DEF n, r, q
    <3>3. Fit(r, n) /\ Held(r, n) = {} /\ (Apart(r, q) => Apart(r, n))
      BY <2>1, <2>3, <3>2 DEF Fit, Held, Creating, Removing, Apart
    <3> QED
      BY <1>1, <2>1, <3>1, <3>2, <3>3 DEF Keeps, r, q
  <2>4. CASE q.at = "sent" /\ r.at # "engine"
    <3>1. rpc'[c] = NoRpc /\ r.at = "idle"
      BY <1>2, <2>1, <2>4 DEF Fit, CallRec
    <3>2. Fit(r, NoRpc) /\ Held(r, NoRpc) = {}
      BY <3>1 DEF NoRpc, Fit, Held, Creating, Removing
    <3>3. Apart(r, q) => Apart(r, NoRpc)
      BY NothingHeld DEF Apart
    <3> QED
      BY <1>1, <2>1, <3>1, <3>2, <3>3, NothingHeld DEF Keeps
  <2> QED
    BY <2>2, <2>3, <2>4
<1>4. call' \in [Call -> CallRec] /\ rpc' \in [Call -> RpcRec]
  BY <1>1, <1>3 DEF EngineRestart, RegistryInv, Types
<1>5. Fitting'
  BY <1>1, <1>3 DEF Fitting
<1> QED
  BY <1>1, <1>3, <1>4, <1>5, KeepingStep

\* The collection is dropped.
LEMMA ShutdownKeeps ==
    ASSUME RegistryInv, Shutdown
    PROVE  RegistryInv'
<1>1. /\ docs' = {} /\ dropped' = TRUE /\ chain' = chain
      /\ mesh' = mesh /\ built' = built /\ call' = call /\ rpc' = rpc
  BY DEF Shutdown, engine
<1>2. Types'
  BY <1>1 DEF RegistryInv, Types
<1>3. Fitting' /\ DocsInOrder'
  BY <1>1 DEF RegistryInv, Fitting, DocsInOrder, At
<1> QED
  BY <1>1, <1>2, <1>3 DEF RegistryInv

-----------------------------------------------------------------------------
(* The results. *)

\* The invariant holds at first.
LEMMA RegistryInit == Init => RegistryInv
<1> SUFFICES ASSUME Init
             PROVE  RegistryInv
  OBVIOUS
<1> USE NothingHeld DEF Init
<1>1. Types
  BY DEF Types
<1>2. Fitting
  BY DEF Fitting
<1>3. DocsInOrder
  BY DEF DocsInOrder, At, NoCall
<1>4. HeldApart
  BY DEF HeldApart
<1> QED
  BY <1>1, <1>2, <1>3, <1>4 DEF RegistryInv

\* Every step keeps it.
LEMMA RegistryStep == RegistryInv /\ [Next]_vars => RegistryInv'
<1> SUFFICES ASSUME RegistryInv, [Next]_vars
             PROVE  RegistryInv'
  OBVIOUS
<1>1. ASSUME NEW w \in Wallet, RegisterOnChain(w)
      PROVE  RegistryInv'
  BY <1>1, ChainKeeps
<1>2. ASSUME NEW c \in Call,
             \/ \E b \in Body : RegisterNodes(c, b)
             \/ \E e \in Entry : AddNode(c, e)
             \/ \E i \in Id : RemoveNode(c, i)
      PROVE  RegistryInv'
  BY <1>2, StartKeeps
<1>3. ASSUME NEW c \in Call, Handle(c)
      PROVE  RegistryInv'
  <2>1. CASE CheckNodeOnChain(c)
    BY <2>1, CheckKeeps
  <2>2. CASE Create(c)
    BY <2>2, CreateKeeps
  <2>3. CASE CreateFails(c) \/ DeleteFails(c)
    <3>1. /\ call[c].at \notin {"idle", "engine"} /\ Finish(c)
          /\ UNCHANGED <<chain, docs, dropped, engine, rpc>>
      BY <2>3 DEF CreateFails, DeleteFails, At
    <3> QED
      BY <3>1, FinishKeeps
  <2>4. CASE Exists(c)
    BY <2>4, ExistsKeeps
  <2>5. CASE Delete(c)
    BY <2>5, DeleteKeeps
  <2>6. CASE Answered(c)
    BY <2>6, AnsweredKeeps
  <2>7. CASE Disconnect(c)
    BY <2>7, DisconnectKeeps
  <2> QED
    BY <1>3, <2>1, <2>2, <2>3, <2>4, <2>5, <2>6, <2>7 DEF Handle
<1>4. ASSUME NEW c \in Call, Serve(c)
      PROVE  RegistryInv'
  BY <1>4, RebootKeeps, AddKeeps, RemoveKeeps DEF Serve
<1>5. CASE OrchestratorCrash
  BY <1>5, CrashKeeps
<1>6. CASE Shutdown
  BY <1>6, ShutdownKeeps
<1>7. CASE EngineRestart
  BY <1>7, RestartKeeps
<1>8. CASE UNCHANGED vars
  <2>1. /\ chain' = chain /\ docs' = docs /\ dropped' = dropped
        /\ mesh' = mesh /\ built' = built /\ call' = call /\ rpc' = rpc
    BY <1>8 DEF vars, engine
  <2>2. Types' /\ Fitting' /\ DocsInOrder'
    BY <2>1 DEF RegistryInv, Types, Fitting, DocsInOrder, At
  <2>3. ~dropped => HeldApart'
    BY <2>1 DEF RegistryInv, HeldApart, Stored
  <2> QED
    BY <2>1, <2>2, <2>3 DEF RegistryInv
<1> QED
  BY <1>1, <1>2, <1>3, <1>4, <1>5, <1>6, <1>7, <1>8 DEF Next

LEMMA RegistryInvariant == Spec => []RegistryInv
  BY RegistryInit, RegistryStep, PTL DEF Spec

\* Every variable keeps its type, for any routers, records and requests; a
\* handler that is at an entry has one.
THEOREM RegistryTypes == Spec => []TypeOK
<1>1. RegistryInv => TypeOK
  BY DEF RegistryInv, Types, Fitting, Fit, TypeOK, CallRec, RpcRec
<1> QED
  BY <1>1, RegistryInvariant, PTL

\* Whatever register, add_node and remove_node requests overlap, break off or
\* arrive late, the Engine routes over nodes only that have a document with a
\* wallet on the contract.
THEOREM RoutersCanBePaid == Spec => []NodesArePayable
<1>1. RegistryInv => NodesArePayable
  BY DEF RegistryInv, DocsInOrder, HeldApart, Stored, NodesArePayable, DocOf
<1> QED
  BY <1>1, RegistryInvariant, PTL

\* No batch that createQuadtree is handed names an id twice: what MeshEngine
\* assumes of its caller.
THEOREM BatchesNameNodesOnce == Spec => []BatchesAreDistinct
<1>1. RegistryInv => BatchesAreDistinct
  BY DEF RegistryInv, HeldApart, Apart, Distinct, BatchesAreDistinct
<1> QED
  BY <1>1, RegistryInvariant, PTL

\* The wallet that is paid for a node is fixed as long as the Engine has it.
THEOREM PayeesAreFixed == Spec => PayeeIsStable
<1> DEFINE Stable == ~dropped' => \A d \in docs : d.id \in mesh \cap mesh' => d \in docs'
<1>1. RegistryInv /\ [Next]_vars => [Stable]_vars
  <2> SUFFICES ASSUME RegistryInv, Next
               PROVE  Stable
    OBVIOUS
  <2>1. CASE \E c \in Call : Delete(c)
    <3>1. PICK c \in Call : Delete(c)
      BY <2>1
    <3>2. docs' = {d \in docs : d.id # call[c].id} /\ dropped' = dropped
      BY <3>1 DEF Delete
    <3>3. call[c].id \in Held(call[c], rpc[c])
      BY <3>1 DEF Delete, At, Held, Removing
    <3>4. ~dropped => call[c].id \notin mesh
      BY <3>3 DEF RegistryInv, HeldApart
    <3> QED
      BY <3>2, <3>4
  <2>2. CASE Shutdown
    BY <2>2 DEF Shutdown
  <2>3. CASE ~(\E c \in Call : Delete(c)) /\ ~Shutdown
    <3>1. docs \subseteq docs'
      BY <2>3 DEF Next, Handle, Serve, RegisterOnChain, RegisterNodes, AddNode,
           RemoveNode, CheckNodeOnChain, Create, CreateFails, Exists, DeleteFails,
           Answered, Disconnect, EngineReboots, EngineAdds, EngineRemoves,
           OrchestratorCrash, EngineRestart
    <3> QED
      BY <3>1
  <2> QED
    BY <2>1, <2>2, <2>3
<1> QED
  BY <1>1, RegistryInvariant, PTL DEF Spec, PayeeIsStable

=============================================================================
