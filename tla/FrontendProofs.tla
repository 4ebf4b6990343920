---------------------------- MODULE FrontendProofs ----------------------------
(***************************************************************************)
(* The browser's side of a connection, proved for any number of tabs,      *)
(* wallets, sessions and requests under way.                               *)
(*                                                                         *)
(* Types alone are not inductive: that the page of an answer exists, and   *)
(* that a successful get_connection brings a token, follows from how the   *)
(* request got there.  RequestsOK says so.                                 *)
(***************************************************************************)
EXTENDS FrontendStore, TLAPS

\* A request has a page; one that was let in has its wallet, and a successful
\* answer its token.
RequestsOK ==
    \A c \in Slot :
        /\ call[c].kind # "none" => call[c].page \in Page
        /\ (At(c, "connect", "sent") /\ call[c].ok) => call[c].wallet \in Wallet
        /\ (At(c, "connect", "body") /\ call[c].ok) => call[c].token \in Token

StoreInv == TypeOK /\ RequestsOK /\ ShownIsTimed /\ LoadingMeansSettling

-----------------------------------------------------------------------------
\* A new request is a well-formed one.
LEMMA NewCall ==
    ASSUME NEW p \in Page, NEW kind \in {"connect", "end", "logout"},
           NEW place \in {"approve", "sent"}, NEW ok \in BOOLEAN,
           NEW active \in BOOLEAN
    PROVE  [NoCall EXCEPT !.kind = kind, !.at = place, !.page = p, !.ok = ok,
                          !.active = active] \in CallState
  BY DEF NoCall, CallState

\* No request and a fresh page are well-formed.
LEMMA IdleIsACall == NoCall \in CallState /\ Loaded \in Store
  BY DEF NoCall, CallState, Loaded, Store

\* What the reducers make of a store is a store, timed if it shows a
\* connection.
LEMMA Reducers ==
    ASSUME NEW store \in Store
    PROVE  /\ Disconnected(store) \in Store /\ ~Disconnected(store).active
           /\ Disconnected(store).transition = store.transition
           /\ Pending(store) \in Store /\ Pending(store).active = store.active
           /\ login(store) \in Store /\ login(store).active = store.active
           /\ login(store).timer = store.timer
           /\ login(store).transition = store.transition
           /\ logout(store) \in Store /\ logout(store).active = store.active
           /\ logout(store).timer = store.timer
           /\ logout(store).transition = store.transition
  BY DEF Store, Disconnected, SetActiveStatus, Pending, login, logout

\* setActiveStatus(true) starts the timer.
LEMMA ReducersShow ==
    ASSUME NEW store \in Store, NEW s \in Session
    PROVE  /\ Connected(store, s) \in Store /\ Connected(store, s).timer
           /\ Connected(store, s).transition = store.transition
  BY DEF Store, Connected, SetActiveStatus

\* fulfilled and rejected both end the loading state.
LEMMA ReducersSettle ==
    ASSUME NEW store \in Store, NEW ok \in BOOLEAN
    PROVE  /\ Settled(store, ok) \in Store /\ ~Settled(store, ok).active
           /\ ~Settled(store, ok).transition
  BY DEF Store, Settled

-----------------------------------------------------------------------------
\* Every page is loaded and nothing is under way.
LEMMA StoreInit == Init => StoreInv
<1> SUFFICES ASSUME Init PROVE StoreInv
  OBVIOUS
<1>1. TypeOK
  <2>1. page \in [Page -> Store] /\ call \in [Slot -> CallState]
    BY IdleIsACall DEF Init
  <2>2. /\ access \in Wallet \cup {None} /\ jar \in Token \cup {None}
        /\ orphaned \in BOOLEAN /\ mixed \in BOOLEAN
    BY Zenon DEF Init
  <2>3. asked \in 0 .. 2
    BY DEF Init
  <2>4. QED
    BY <2>1, <2>2, <2>3 DEF TypeOK
<1>2. RequestsOK
  BY DEF Init, RequestsOK, NoCall, At
<1>3. ShownIsTimed /\ LoadingMeansSettling
  BY DEF Init, ShownIsTimed, LoadingMeansSettling, Loaded
<1>4. QED
  BY <1>1, <1>2, <1>3 DEF StoreInv

-----------------------------------------------------------------------------
\* A page changes its store for a timed one that waits for nothing new, and no
\* request of kind "end" goes away: nothing else can break the invariant.
LEMMA PageChanges ==
    ASSUME StoreInv, NEW p \in Page, NEW store \in Store,
           page' = [page EXCEPT ![p] = store],
           store.active => store.timer,
           store.transition => \E c \in Slot : call'[c].kind = "end" /\ call'[c].page = p,
           \A c \in Slot : /\ call[c].kind = "end" /\ call[c].page # p
                           => call'[c].kind = "end" /\ call'[c].page = call[c].page
    PROVE  page' \in [Page -> Store] /\ ShownIsTimed' /\ LoadingMeansSettling'
<1>1. page \in [Page -> Store] /\ ShownIsTimed /\ LoadingMeansSettling
  BY DEF StoreInv, TypeOK
<1>2. /\ page' \in [Page -> Store] /\ page'[p] = store
      /\ \A q \in Page : q # p => page'[q] = page[q]
  BY <1>1
<1>3. ShownIsTimed'
  BY <1>1, <1>2 DEF ShownIsTimed
<1>4. LoadingMeansSettling'
  BY <1>1, <1>2 DEF LoadingMeansSettling
<1>5. QED
  BY <1>2, <1>3, <1>4

\* A request changes for another well-formed one.
LEMMA CallChanges ==
    ASSUME StoreInv, NEW c \in Slot, NEW new \in CallState,
           call' = [call EXCEPT ![c] = new],
           new.kind # "none" => new.page \in Page,
           (new.kind = "connect" /\ new.at = "sent" /\ new.ok) => new.wallet \in Wallet,
           (new.kind = "connect" /\ new.at = "body" /\ new.ok) => new.token \in Token
    PROVE  /\ call' \in [Slot -> CallState] /\ RequestsOK'
           /\ call'[c] = new /\ \A d \in Slot : d # c => call'[d] = call[d]
<1>1. call \in [Slot -> CallState] /\ RequestsOK
  BY DEF StoreInv, TypeOK
<1>2. /\ call' \in [Slot -> CallState] /\ call'[c] = new
      /\ \A d \in Slot : d # c => call'[d] = call[d]
  BY <1>1
<1>3. RequestsOK'
  BY <1>1, <1>2 DEF RequestsOK, At
<1>4. QED
  BY <1>2, <1>3

\* The end_connection of page p, in a slot of its own.
LEMMA EndSent ==
    ASSUME StoreInv, NEW p \in Page, NEW c \in Slot, SendEnd(p, c), UNCHANGED jar
    PROVE  /\ call' \in [Slot -> CallState] /\ RequestsOK'
           /\ call'[c].kind = "end" /\ call'[c].page = p
           /\ \A d \in Slot : d # c => call'[d] = call[d]
           /\ asked' \in 0 .. 2 /\ orphaned' \in BOOLEAN /\ mixed' \in BOOLEAN
<1> DEFINE accepted == access # None /\ jar # None /\ jar.wallet = access
           new == [NoCall EXCEPT !.kind = "end", !.at = "sent", !.page = p,
                                 !.ok = accepted]
<1>1. new \in CallState /\ new.kind = "end" /\ new.page = p
  BY DEF NoCall, CallState
<1>2. call' = [call EXCEPT ![c] = new]
  BY DEF SendEnd
<1>3. /\ call' \in [Slot -> CallState] /\ RequestsOK' /\ call'[c] = new
      /\ \A d \in Slot : d # c => call'[d] = call[d]
  <2> HIDE DEF new
  <2> QED
    BY <1>1, <1>2, CallChanges
<1>4. asked' \in 0 .. 2 /\ orphaned' \in BOOLEAN /\ mixed' \in BOOLEAN
  BY DEF SendEnd, StoreInv, TypeOK
<1> HIDE DEF new
<1>5. QED
  BY <1>1, <1>3, <1>4

-----------------------------------------------------------------------------
\* SetToken keeps the types of what it changes.
LEMMA TokenSet ==
    ASSUME TypeOK, NEW token \in Token \cup {None}, SetToken(token)
    PROVE  jar' \in Token \cup {None} /\ asked' \in 0 .. 2 /\ orphaned' \in BOOLEAN
  BY DEF SetToken, TypeOK

\* Disconnect and the timer: the page is reset and waits for an answer that is
\* under way.
LEMMA EndingKeeps ==
    ASSUME StoreInv, NEW p \in Page, NEW c \in Slot, SendEnd(p, c), Idle(c),
           page' = [page EXCEPT ![p] = Pending(Disconnected(@))],
           UNCHANGED cookies
    PROVE  StoreInv'
<1> DEFINE store == Pending(Disconnected(page[p]))
<1>1. page[p] \in Store /\ page' = [page EXCEPT ![p] = store]
  BY DEF StoreInv, TypeOK
<1>2. store \in Store /\ ~store.active
  BY <1>1, Reducers
<1>3. /\ call' \in [Slot -> CallState] /\ RequestsOK'
      /\ call'[c].kind = "end" /\ call'[c].page = p
      /\ \A d \in Slot : d # c => call'[d] = call[d]
      /\ asked' \in 0 .. 2 /\ orphaned' \in BOOLEAN /\ mixed' \in BOOLEAN
  BY EndSent DEF cookies
<1>4. call[c].kind # "end"
  BY DEF Idle, NoCall
<1> HIDE DEF store
<1>5. page' \in [Page -> Store] /\ ShownIsTimed' /\ LoadingMeansSettling'
  BY <1>1, <1>2, <1>3, <1>4, PageChanges
<1>6. TypeOK'
  BY <1>3, <1>5 DEF TypeOK, StoreInv, cookies
<1>7. QED
  BY <1>3, <1>5, <1>6 DEF StoreInv

\* A step that leaves the pages alone and no end_connection out.
LEMMA CallKeeps ==
    ASSUME StoreInv, NEW c \in Slot, NEW new \in CallState,
           call' = [call EXCEPT ![c] = new],
           new.kind # "none" => new.page \in Page,
           (new.kind = "connect" /\ new.at = "sent" /\ new.ok) => new.wallet \in Wallet,
           (new.kind = "connect" /\ new.at = "body" /\ new.ok) => new.token \in Token,
           call[c].kind = "end" => new.kind = "end" /\ new.page = call[c].page,
           UNCHANGED page,
           access' \in Wallet \cup {None}, jar' \in Token \cup {None},
           asked' \in 0 .. 2, orphaned' \in BOOLEAN, mixed' \in BOOLEAN
    PROVE  StoreInv'
<1>1. /\ call' \in [Slot -> CallState] /\ RequestsOK'
      /\ call'[c] = new /\ \A d \in Slot : d # c => call'[d] = call[d]
  BY CallChanges
<1>2. ShownIsTimed'
  BY DEF StoreInv, ShownIsTimed
<1>3. LoadingMeansSettling'
  BY <1>1 DEF StoreInv, LoadingMeansSettling
<1>4. TypeOK'
  BY <1>1 DEF StoreInv, TypeOK
<1>5. QED
  BY <1>1, <1>2, <1>3, <1>4 DEF StoreInv

\* The end of a request that is no end_connection, with a new store for its
\* page.
LEMMA ForgetKeeps ==
    ASSUME StoreInv, NEW c \in Slot, call[c].kind \notin {"none", "end"}, Forget(c),
           NEW store \in Store, page' = [page EXCEPT ![call[c].page] = store],
           store.active => store.timer,
           store.transition => page[call[c].page].transition,
           UNCHANGED <<cookies, asked, mixed>>, orphaned' \in BOOLEAN
    PROVE  StoreInv'
<1>1. call[c].page \in Page
  BY DEF StoreInv, RequestsOK
<1>2. /\ call' \in [Slot -> CallState] /\ RequestsOK'
      /\ call'[c] = NoCall /\ \A d \in Slot : d # c => call'[d] = call[d]
  <2>1. /\ NoCall.kind = "none" /\ call' = [call EXCEPT ![c] = NoCall]
    BY DEF NoCall, Forget
  <2>2. QED
    BY <2>1, IdleIsACall, CallChanges
<1>3. store.transition =>
          \E d \in Slot : call'[d].kind = "end" /\ call'[d].page = call[c].page
  BY <1>1, <1>2 DEF StoreInv, LoadingMeansSettling
<1>4. page' \in [Page -> Store] /\ ShownIsTimed' /\ LoadingMeansSettling'
  BY <1>1, <1>2, <1>3, PageChanges
<1>5. TypeOK'
  BY <1>2, <1>4 DEF StoreInv, TypeOK, cookies
<1>6. QED
  BY <1>2, <1>4, <1>5 DEF StoreInv

-----------------------------------------------------------------------------
\* What starts on a page.
LEMMA StartingKeeps ==
    ASSUME StoreInv, NEW p \in Page, NEW c \in Slot, Submit(p, c) \/ Logout(p, c)
    PROVE  StoreInv'
<1>1. /\ call[c].kind = "none" /\ TypeOK
      /\ page[p].active \in BOOLEAN
  BY DEF Submit, Logout, Idle, NoCall, StoreInv, TypeOK, Store
<1>2. CASE Submit(p, c)
  <2> DEFINE new == [NoCall EXCEPT !.kind = "connect", !.at = "approve", !.page = p]
  <2>1. /\ new \in CallState /\ new.kind = "connect" /\ new.at = "approve"
        /\ new.page = p
    BY DEF NoCall, CallState
  <2>2. call' = [call EXCEPT ![c] = new] /\ UNCHANGED <<cookies, page, asked, orphaned>>
    BY <1>2 DEF Submit
  <2>3. mixed' \in BOOLEAN
    BY <1>1, <1>2, Zenon DEF Submit, TypeOK
  <2> HIDE DEF new
  <2>4. QED
    BY <1>1, <2>1, <2>2, <2>3, CallKeeps DEF TypeOK, cookies
<1>3. CASE Logout(p, c)
  <2> DEFINE new == [NoCall EXCEPT !.kind = "logout", !.at = "sent", !.page = p,
                                   !.ok = (access # None),
                                   !.active = page[p].active]
  <2>1. new \in CallState /\ new.kind = "logout" /\ new.page = p
    BY <1>1 DEF NoCall, CallState
  <2>2. call' = [call EXCEPT ![c] = new] /\ UNCHANGED <<cookies, page, history>>
    BY <1>3 DEF Logout
  <2> HIDE DEF new
  <2>3. QED
    BY <1>1, <2>1, <2>2, CallKeeps DEF TypeOK, cookies, history
<1>4. QED
  BY <1>2, <1>3

\* The fetches and their headers.
LEMMA ApprovedKeeps ==
    ASSUME StoreInv, NEW c \in Slot, Approved(c)
    PROVE  StoreInv'
<1> DEFINE new == [call[c] EXCEPT !.at = "sent", !.wallet = access,
                                  !.ok = (access # None)]
<1>1. TypeOK /\ RequestsOK /\ call[c] \in CallState /\ call[c].kind = "connect"
  BY DEF StoreInv, TypeOK, Approved, At
<1>2. /\ new \in CallState /\ new.kind = "connect" /\ new.at = "sent"
      /\ new.page = call[c].page /\ new.wallet = access /\ new.ok = (access # None)
  BY <1>1 DEF CallState, TypeOK
<1>3. call' = [call EXCEPT ![c] = new] /\ UNCHANGED <<cookies, page, history>>
  BY <1>1 DEF Approved, TypeOK
<1>4. new.page \in Page /\ (new.ok => new.wallet \in Wallet)
  BY <1>1, <1>2 DEF RequestsOK, TypeOK
<1> HIDE DEF new
<1>5. QED
  BY <1>1, <1>2, <1>3, <1>4, CallKeeps DEF TypeOK, cookies, history

\* An answer's headers, with the token they bring.
LEMMA AnswerKeeps ==
    ASSUME StoreInv, NEW c \in Slot, NEW token \in Token \cup {None},
           call[c].kind # "none", call[c].kind = "connect" => token \in Token,
           Arrives(c, token), UNCHANGED <<page, mixed>>,
           access' \in Wallet \cup {None}, jar' \in Token \cup {None},
           asked' \in 0 .. 2, orphaned' \in BOOLEAN
    PROVE  StoreInv'
<1> DEFINE new == [call[c] EXCEPT !.at = "body", !.token = token, !.wallet = None]
<1>1. TypeOK /\ RequestsOK /\ call[c] \in CallState
  BY DEF StoreInv, TypeOK
<1>2. /\ new \in CallState /\ new.kind = call[c].kind /\ new.at = "body"
      /\ new.page = call[c].page /\ new.token = token
  BY <1>1 DEF CallState
<1>3. call' = [call EXCEPT ![c] = new]
  BY <1>1 DEF Arrives, TypeOK
<1>4. new.page \in Page /\ mixed' \in BOOLEAN
  BY <1>1, <1>2 DEF RequestsOK, TypeOK
<1> HIDE DEF new
<1>5. QED
  BY <1>1, <1>2, <1>3, <1>4, CallKeeps

\* The answers' headers.
LEMMA HeadersKeep ==
    ASSUME StoreInv, NEW c \in Slot,
           \/ ConnectionToken(c) \/ ConnectionTokenCleared(c)
           \/ AccessTokenCleared(c) \/ Fails(c)
    PROVE  StoreInv'
<1>1. TypeOK /\ RequestsOK /\ call[c] \in CallState
  BY DEF StoreInv, TypeOK
<1>2. CASE ConnectionToken(c)
  <2>1. PICK s \in Session :
            LET token == [session |-> s, wallet |-> call[c].wallet]
            IN SetToken(token) /\ Arrives(c, token)
    BY <1>2 DEF ConnectionToken
  <2> DEFINE token == [session |-> s, wallet |-> call[c].wallet]
  <2>2. call[c].kind = "connect" /\ token \in Token
    BY <1>1, <1>2 DEF ConnectionToken, At, RequestsOK, Token
  <2>3. SetToken(token) /\ Arrives(c, token) /\ UNCHANGED <<access, page, mixed>>
    BY <1>2, <2>1 DEF ConnectionToken
  <2> HIDE DEF token
  <2>4. access' \in Wallet \cup {None}
    BY <1>1, <2>3 DEF TypeOK
  <2>5. QED
    BY <1>1, <2>2, <2>3, <2>4, TokenSet, AnswerKeeps
<1>3. CASE ConnectionTokenCleared(c)
  <2>1. /\ call[c].kind = "end" /\ SetToken(None) /\ Arrives(c, None)
        /\ UNCHANGED <<access, page, mixed>>
    BY <1>3 DEF ConnectionTokenCleared, At
  <2>2. access' \in Wallet \cup {None}
    BY <1>1, <2>1 DEF TypeOK
  <2>3. QED
    BY <1>1, <2>1, <2>2, TokenSet, AnswerKeeps
<1>4. CASE AccessTokenCleared(c)
  <2>1. /\ call[c].kind = "logout" /\ access' = None /\ Arrives(c, None)
        /\ UNCHANGED <<jar, page, history>>
    BY <1>4 DEF AccessTokenCleared, At
  <2>2. QED
    BY <1>1, <2>1, AnswerKeeps DEF TypeOK, history
<1>5. CASE Fails(c)
  <2> DEFINE new == [call[c] EXCEPT !.at = "body", !.ok = FALSE, !.wallet = None]
  <2>1. /\ new \in CallState /\ new.kind = call[c].kind /\ new.at = "body"
        /\ new.page = call[c].page /\ ~new.ok
    BY <1>1 DEF CallState
  <2>2. call' = [call EXCEPT ![c] = new] /\ UNCHANGED <<cookies, page, history>>
    BY <1>1, <1>5 DEF Fails, TypeOK
  <2>3. new.kind # "none" => new.page \in Page
    BY <1>1, <2>1 DEF RequestsOK
  <2> HIDE DEF new
  <2>4. QED
    BY <1>1, <2>1, <2>2, <2>3, CallKeeps DEF TypeOK, cookies, history
<1>6. QED
  BY <1>2, <1>3, <1>4, <1>5

\* Back in the page.
LEMMA AttemptEnds ==
    ASSUME StoreInv, NEW c \in Slot, Show(c) \/ ShowFailure(c)
    PROVE  StoreInv'
<1> DEFINE p == call[c].page
<1>1. /\ TypeOK /\ call[c].kind = "connect" /\ p \in Page /\ page[p] \in Store
      /\ ShownIsTimed
  BY DEF StoreInv, TypeOK, Show, ShowFailure, At, RequestsOK
<1>2. CASE Show(c)
  <2> DEFINE store == Connected(page[p], call[c].token.session)
  <2>1. call[c].token.session \in Session
    BY <1>2 DEF Show, StoreInv, RequestsOK, Token
  <2>2. /\ store \in Store /\ store.timer
        /\ store.transition = page[p].transition
    BY <1>1, <2>1, ReducersShow
  <2>3. /\ page' = [page EXCEPT ![p] = store]
        /\ Forget(c) /\ UNCHANGED <<cookies, history>>
    BY <1>2 DEF Show
  <2> HIDE DEF store
  <2>4. QED
    BY <1>1, <2>2, <2>3, ForgetKeeps DEF history, TypeOK
<1>3. CASE ShowFailure(c)
  <2> DEFINE store == Disconnected(page[p])
  <2>1. /\ store \in Store /\ ~store.active
        /\ store.transition = page[p].transition
    BY <1>1, Reducers
  <2>2. /\ page' = [page EXCEPT ![p] = store]
        /\ Forget(c) /\ UNCHANGED <<cookies, asked, mixed>>
    BY <1>3 DEF ShowFailure
  <2>3. orphaned' \in BOOLEAN
    BY <1>1, <1>3, Zenon DEF ShowFailure, TypeOK
  <2> HIDE DEF store
  <2>4. QED
    BY <1>1, <2>1, <2>2, <2>3, ForgetKeeps
<1>4. QED
  BY <1>2, <1>3

\* terminateConnection is settled.
LEMMA EndAnsweredKeeps ==
    ASSUME StoreInv, NEW c \in Slot, EndAnswered(c)
    PROVE  StoreInv'
<1> DEFINE p == call[c].page
<1>1. /\ TypeOK /\ call[c].kind = "end" /\ p \in Page /\ page[p] \in Store
      /\ call[c] \in CallState
  BY DEF StoreInv, TypeOK, EndAnswered, At, RequestsOK
<1>2. PICK ok \in {FALSE, call[c].ok} :
          page' = [page EXCEPT ![p] = Settled(@, ok)]
  BY DEF EndAnswered
<1> DEFINE store == Settled(page[p], ok)
<1>3. /\ store \in Store /\ ~store.active /\ ~store.transition
      /\ page' = [page EXCEPT ![p] = store]
  <2>1. ok \in BOOLEAN
    BY <1>1, <1>2 DEF CallState
  <2>2. QED
    BY <1>1, <1>2, <2>1, ReducersSettle
<1>4. /\ call' \in [Slot -> CallState] /\ RequestsOK'
      /\ call'[c] = NoCall /\ \A d \in Slot : d # c => call'[d] = call[d]
  <2>1. /\ NoCall.kind = "none" /\ call' = [call EXCEPT ![c] = NoCall]
    BY DEF NoCall, Forget, EndAnswered
  <2>2. QED
    BY <2>1, IdleIsACall, CallChanges
<1> HIDE DEF store
<1>5. page' \in [Page -> Store] /\ ShownIsTimed' /\ LoadingMeansSettling'
  BY <1>1, <1>3, <1>4, PageChanges
<1>6. TypeOK'
  BY <1>1, <1>4, <1>5 DEF EndAnswered, TypeOK, cookies, history
<1>7. QED
  BY <1>4, <1>5, <1>6 DEF StoreInv

\* The logout handler goes on, with or without a connection to end.
LEMMA LogoutEnds ==
    ASSUME StoreInv, NEW c \in Slot, LoggedOut(c) \/ LogoutFails(c)
    PROVE  StoreInv'
<1> DEFINE p == call[c].page
           out == logout(page[p])
<1>1. /\ TypeOK /\ call[c].kind = "logout" /\ p \in Page /\ page[p] \in Store
      /\ ShownIsTimed /\ LoadingMeansSettling
  BY DEF StoreInv, TypeOK, LoggedOut, LogoutFails, At, RequestsOK
<1>2. /\ out \in Store /\ out.active = page[p].active /\ out.timer = page[p].timer
      /\ out.transition = page[p].transition
  BY <1>1, Reducers
<1> HIDE DEF out
<1>3. CASE LoggedOut(c) /\ call[c].active
  <2> DEFINE store == Pending(Disconnected(out))
  <2>1. store \in Store /\ ~store.active
    BY <1>2, Reducers
  <2>2. page' = [page EXCEPT ![p] = store] /\ SendEnd(p, c) /\ UNCHANGED cookies
    BY <1>3 DEF LoggedOut, out
  <2>3. /\ call' \in [Slot -> CallState] /\ RequestsOK'
        /\ call'[c].kind = "end" /\ call'[c].page = p
        /\ \A d \in Slot : d # c => call'[d] = call[d]
        /\ asked' \in 0 .. 2 /\ orphaned' \in BOOLEAN /\ mixed' \in BOOLEAN
    BY <1>1, <2>2, EndSent DEF cookies
  <2> HIDE DEF store
  <2>4. page' \in [Page -> Store] /\ ShownIsTimed' /\ LoadingMeansSettling'
    BY <1>1, <2>1, <2>2, <2>3, PageChanges
  <2>5. TypeOK'
    BY <1>1, <2>2, <2>3, <2>4 DEF TypeOK, cookies
  <2>6. QED
    BY <2>3, <2>4, <2>5 DEF StoreInv
<1>4. CASE LoggedOut(c) /\ ~call[c].active
  <2>1. /\ page' = [page EXCEPT ![p] = out] /\ Forget(c)
        /\ UNCHANGED <<cookies, history>>
    BY <1>4 DEF LoggedOut, out
  <2>2. QED
    BY <1>1, <1>2, <2>1, ForgetKeeps DEF ShownIsTimed, history, TypeOK
<1>5. CASE LogoutFails(c)
  <2>1. Forget(c) /\ UNCHANGED <<cookies, page, history>>
    BY <1>5 DEF LogoutFails
  <2>2. page' = [page EXCEPT ![p] = page[p]]
    BY <1>1, <2>1 DEF TypeOK
  <2>3. QED
    BY <1>1, <2>1, <2>2, ForgetKeeps DEF ShownIsTimed, history, TypeOK
<1>6. QED
  BY <1>3, <1>4, <1>5

-----------------------------------------------------------------------------
\* The user and the browser.
LEMMA LoginKeeps ==
    ASSUME StoreInv, NEW p \in Page, NEW w \in Wallet, Login(p, w)
    PROVE  StoreInv'
<1>1. /\ TypeOK /\ RequestsOK /\ page[p] \in Store /\ ShownIsTimed
      /\ LoadingMeansSettling
  BY DEF StoreInv, TypeOK
<1>2. /\ access' = w /\ UNCHANGED <<jar, call, asked, orphaned>>
      /\ mixed' \in BOOLEAN
  <2>1. access' = w /\ UNCHANGED <<jar, call, asked, orphaned>>
    BY DEF Login, SignIn
  <2>2. mixed' \in BOOLEAN
    BY <1>1, Zenon DEF Login, TypeOK
  <2>3. QED
    BY <2>1, <2>2
<1>3. PICK store \in {login(page[p]), page[p]} : page' = [page EXCEPT ![p] = store]
  BY <1>1 DEF Login, TypeOK
<1>4. /\ store \in Store /\ store.active = page[p].active
      /\ store.timer = page[p].timer /\ store.transition = page[p].transition
  BY <1>1, <1>3, Reducers
<1>5. page' \in [Page -> Store] /\ ShownIsTimed' /\ LoadingMeansSettling'
  BY <1>1, <1>2, <1>3, <1>4, PageChanges DEF ShownIsTimed, LoadingMeansSettling
<1>6. TypeOK' /\ RequestsOK'
  BY <1>1, <1>2, <1>5 DEF TypeOK, RequestsOK, At
<1>7. QED
  BY <1>5, <1>6 DEF StoreInv

\* A cookie is gone.
LEMMA ExpireKeeps ==
    ASSUME StoreInv, Expire
    PROVE  StoreInv'
<1>1. TypeOK /\ UNCHANGED <<page, call, mixed>>
  BY DEF StoreInv, Expire
<1>2. TypeOK'
  <2>1. CASE access' = None /\ UNCHANGED <<jar, asked, orphaned>>
    BY <1>1, <2>1 DEF TypeOK
  <2>2. CASE SetToken(None) /\ UNCHANGED access
    BY <1>1, <2>2, TokenSet DEF TypeOK
  <2>3. QED
    BY <2>1, <2>2 DEF Expire
<1>3. QED
  BY <1>1, <1>2 DEF StoreInv, RequestsOK, At, ShownIsTimed, LoadingMeansSettling

\* A page forgets its store and its requests.
LEMMA ReloadKeeps ==
    ASSUME StoreInv, NEW p \in Page, Reload(p)
    PROVE  StoreInv'
<1>1. TypeOK /\ RequestsOK
  BY DEF StoreInv
<1>2. PICK store \in CurrentUser : page' = [page EXCEPT ![p] = store]
  BY DEF Reload
<1>3. store \in Store /\ ~store.active /\ ~store.transition
  <2>1. Loaded \in Store /\ ~Loaded.active /\ ~Loaded.transition
    BY IdleIsACall DEF Loaded
  <2>2. store = Loaded \/ store = login(Loaded)
    BY DEF CurrentUser
  <2>3. QED
    BY <2>1, <2>2, Reducers
<1>4. /\ call' = [c \in Slot |-> IF call[c].page = p THEN NoCall ELSE call[c]]
      /\ UNCHANGED <<cookies, asked, mixed>>
  BY DEF Reload
<1>5. orphaned' \in BOOLEAN
  BY <1>1, Zenon DEF Reload, TypeOK
<1>6. /\ call' \in [Slot -> CallState]
      /\ \A c \in Slot : call'[c] = NoCall \/ call'[c] = call[c]
      /\ \A c \in Slot : call[c].page # p => call'[c] = call[c]
  BY <1>1, <1>4, IdleIsACall DEF TypeOK
<1>7. RequestsOK'
  <2>1. NoCall.kind = "none"
    BY DEF NoCall
  <2>2. QED
    BY <1>1, <1>6, <2>1 DEF RequestsOK, At
<1>8. page' \in [Page -> Store] /\ ShownIsTimed' /\ LoadingMeansSettling'
  BY <1>2, <1>3, <1>6, PageChanges
<1>9. QED
  BY <1>1, <1>4, <1>5, <1>6, <1>7, <1>8 DEF StoreInv, TypeOK, cookies

-----------------------------------------------------------------------------
\* Every step keeps the invariant.
LEMMA StoreStep == StoreInv /\ [Next]_vars => StoreInv'
<1> SUFFICES ASSUME StoreInv, [Next]_vars PROVE StoreInv'
  OBVIOUS
<1>1. CASE \E p \in Page, c \in Click :
               EndConnection(p, c) \/ Submit(p, c) \/ Logout(p, c)
  <2>1. PICK p \in Page, c \in Slot :
            EndConnection(p, c) \/ Submit(p, c) \/ Logout(p, c)
    BY <1>1 DEF Slot
  <2>2. CASE EndConnection(p, c)
    BY <2>2, EndingKeeps DEF EndConnection
  <2>3. CASE Submit(p, c) \/ Logout(p, c)
    BY <2>3, StartingKeeps
  <2>4. QED
    BY <2>1, <2>2, <2>3
<1>2. CASE \E p \in Page, w \in Wallet : Login(p, w)
  BY <1>2, LoginKeeps
<1>3. CASE \E p \in Page : Timer(p) \/ Reload(p)
  <2>1. PICK p \in Page : Timer(p) \/ Reload(p)
    BY <1>3
  <2>2. CASE Timer(p)
    <3>1. PICK t \in Slot : Idle(t) /\ SendEnd(p, t)
      BY <2>2 DEF Timer, Slot
    <3>2. QED
      BY <2>2, <3>1, EndingKeeps DEF Timer
  <2>3. CASE Reload(p)
    BY <2>3, ReloadKeeps
  <2>4. QED
    BY <2>1, <2>2, <2>3
<1>4. CASE \E c \in Slot : Approved(c) \/ ShowFailure(c) \/ Progress(c)
  <2>1. PICK c \in Slot : Approved(c) \/ ShowFailure(c) \/ Progress(c)
    BY <1>4
  <2>2. CASE Approved(c)
    BY <2>2, ApprovedKeeps
  <2>3. CASE \/ ConnectionToken(c) \/ ConnectionTokenCleared(c)
             \/ AccessTokenCleared(c) \/ Fails(c)
    BY <2>3, HeadersKeep
  <2>4. CASE Show(c) \/ ShowFailure(c)
    BY <2>4, AttemptEnds
  <2>5. CASE EndAnswered(c)
    BY <2>5, EndAnsweredKeeps
  <2>6. CASE LoggedOut(c) \/ LogoutFails(c)
    BY <2>6, LogoutEnds
  <2>7. QED
    BY <2>1, <2>2, <2>3, <2>4, <2>5, <2>6 DEF Progress
<1>5. CASE Expire
  BY <1>5, ExpireKeeps
<1>6. CASE UNCHANGED vars
  BY <1>6 DEF StoreInv, TypeOK, RequestsOK, At, ShownIsTimed,
              LoadingMeansSettling, vars, cookies, history
<1>7. QED
  BY <1>1, <1>2, <1>3, <1>4, <1>5, <1>6 DEF Next

\* The invariant of every behaviour.
LEMMA StoreInvariant == Spec => []StoreInv
  BY StoreInit, StoreStep, PTL DEF Spec

\* Every variable keeps its type, with however many tabs and requests.
THEOREM TypeCorrect == Spec => []TypeOK
<1>1. StoreInv => TypeOK
  BY DEF StoreInv
<1>2. QED
  BY <1>1, StoreInvariant, PTL

\* A page never shows a connection without a timer that will end it, whatever
\* the order of clicks, answers, logouts and timers in whatever tabs.
THEOREM ShownConnectionsAreTimed == Spec => []ShownIsTimed
<1>1. StoreInv => ShownIsTimed
  BY DEF StoreInv
<1>2. QED
  BY <1>1, StoreInvariant, PTL

\* transitionStatus is on only while an end_connection of that page is under
\* way: no order of answers leaves the loading state behind.
THEOREM LoadingEnds == Spec => []LoadingMeansSettling
<1>1. StoreInv => LoadingMeansSettling
  BY DEF StoreInv
<1>2. QED
  BY <1>1, StoreInvariant, PTL

-----------------------------------------------------------------------------
(* Whose token is in the jar, and who is going to end it. *)

\* A connection that has been made, and whose answer has not reached the page.
Arrived(c) == At(c, "connect", "body") /\ call[c].ok

\* One attempt at a time: a timer, or a request to connect, is the only one.
OneAttempt ==
    /\ \A p, q \in Page : page[p].timer /\ page[q].timer => p = q
    /\ \A c, d \in Slot :
          call[c].kind = "connect" /\ call[d].kind = "connect" => c = d
    /\ \A p \in Page, c \in Slot : page[p].timer => call[c].kind # "connect"

\* It knows the token in the jar, if there is one, and nobody has ended it; a
\* logout that succeeded has left no AccessToken to end it with.
NotYetEnded ==
    /\ \A p \in Page : page[p].timer =>
          asked = 0 /\ (jar # None => jar.session = page[p].map)
    /\ \A c \in Slot : Arrived(c) =>
          asked = 0 /\ (jar # None => call[c].token = jar)
    /\ \A c \in Slot : At(c, "logout", "body") /\ call[c].ok => access = None

\* The inductive invariant behind RouteIsTheTokens and EndedOnce.
AttemptInv ==
    /\ jar = None => asked = 0
    /\ \A p \in Page : page[p].timer => page[p].map # None
    /\ ~mixed => OneAttempt /\ NotYetEnded /\ asked <= 1

\* A step that starts no attempt keeps it, if it leaves the token alone or
\* takes it away, and asks for no second end.
LEMMA NoNewAttempt ==
    ASSUME AttemptInv,
           \A p \in Page : page'[p].timer =>
               page[p].timer /\ page'[p].map = page[p].map,
           \A c \in Slot : call'[c].kind = "connect" => call[c].kind = "connect",
           \A c \in Slot : Arrived(c)' =>
               Arrived(c) /\ call'[c].token = call[c].token,
           mixed => mixed',
           jar' \in {jar, None}, jar' = None => asked' = 0,
           ~mixed' => /\ \A c \in Slot : (At(c, "logout", "body") /\ call[c].ok)' => access' = None
                      /\ asked' <= 1
                      /\ (\E p \in Page : page'[p].timer) => asked' = 0
                      /\ (\E c \in Slot : Arrived(c)') => asked' = 0
    PROVE  AttemptInv'
<1>1. \A p \in Page : page'[p].timer => page'[p].map # None
  BY DEF AttemptInv
<1>2. ASSUME ~mixed' PROVE OneAttempt'
  BY <1>2 DEF AttemptInv, OneAttempt
<1>3. ASSUME ~mixed' PROVE NotYetEnded'
  <2>1. \A p \in Page : page'[p].timer =>
            asked' = 0 /\ (jar' # None => jar'.session = page'[p].map)
    BY <1>3 DEF AttemptInv, NotYetEnded
  <2>2. \A c \in Slot : Arrived(c)' =>
            asked' = 0 /\ (jar' # None => call'[c].token = jar')
    BY <1>3 DEF AttemptInv, NotYetEnded
  <2> QED BY <1>3, <2>1, <2>2 DEF NotYetEnded
<1> QED BY <1>1, <1>2, <1>3 DEF AttemptInv

\* Disconnect and the timer, which end what the page shows.
LEMMA EndingKeepsAttempt ==
    ASSUME StoreInv, AttemptInv, NEW p \in Page, NEW c \in Slot,
           page[p].timer, Idle(c), SendEnd(p, c),
           page' = [page EXCEPT ![p] = Pending(Disconnected(@))],
           UNCHANGED cookies
    PROVE  AttemptInv'
<1>1. page \in [Page -> Store] /\ call \in [Slot -> CallState] /\ asked \in 0 .. 2
  BY DEF StoreInv, TypeOK
<1>2. ~page'[p].timer /\ \A q \in Page : q # p => page'[q] = page[q]
  BY <1>1 DEF Pending, Disconnected, SetActiveStatus, Store
<1>3. call'[c].kind = "end" /\ \A d \in Slot : d # c => call'[d] = call[d]
  BY EndSent DEF cookies
<1>4. jar' = jar /\ access' = access /\ mixed' = mixed
  BY DEF cookies, SendEnd
<1>5. jar' = None => asked' = 0
  BY <1>4 DEF SendEnd, AttemptInv
<1>6. ASSUME ~mixed'
      PROVE  /\ \A d \in Slot : (At(d, "logout", "body") /\ call[d].ok)' => access' = None
             /\ asked' <= 1
             /\ ~\E q \in Page : page'[q].timer
             /\ ~\E d \in Slot : Arrived(d)'
  <2>1. OneAttempt /\ NotYetEnded /\ asked = 0
    BY <1>4, <1>6 DEF AttemptInv, NotYetEnded
  <2>2. asked' <= 1
    BY <2>1 DEF SendEnd
  <2>3. ~\E q \in Page : page'[q].timer
    BY <1>2, <2>1 DEF OneAttempt
  <2>4. ~\E d \in Slot : Arrived(d)'
    BY <1>3, <2>1 DEF OneAttempt, Arrived, At
  <2>5. \A d \in Slot : (At(d, "logout", "body") /\ call[d].ok)' => access' = None
    BY <1>3, <1>4, <2>1 DEF NotYetEnded, At
  <2> QED BY <2>2, <2>3, <2>4, <2>5
<1>7. \A q \in Page : page'[q].timer => page[q].timer /\ page'[q].map = page[q].map
  BY <1>2
<1>8. \A d \in Slot : /\ call'[d].kind = "connect" => call[d].kind = "connect"
                      /\ Arrived(d)' => Arrived(d) /\ call'[d].token = call[d].token
  BY <1>3 DEF Arrived, At
<1> QED BY <1>4, <1>5, <1>6, <1>7, <1>8, NoNewAttempt

\* A request changes and starts no attempt, the pages and cookies stay.
LEMMA OtherCallKeepsAttempt ==
    ASSUME StoreInv, AttemptInv, NEW c \in Slot, NEW new \in CallState,
           call' = [call EXCEPT ![c] = new],
           new.kind = "connect" => call[c].kind = "connect" /\ ~(new.at = "body" /\ new.ok),
           (new.kind = "logout" /\ new.at = "body" /\ new.ok) => access' = None,
           access' \in {access, None}, UNCHANGED <<jar, page, asked, mixed>>
    PROVE  AttemptInv'
<1>1. call \in [Slot -> CallState]
  BY DEF StoreInv, TypeOK
<1>2. call'[c] = new /\ \A d \in Slot : d # c => call'[d] = call[d]
  BY <1>1
<1>3. \A d \in Slot : /\ call'[d].kind = "connect" => call[d].kind = "connect"
                      /\ Arrived(d)' => Arrived(d) /\ call'[d].token = call[d].token
  BY <1>2 DEF Arrived, At
<1>4. ASSUME ~mixed'
      PROVE  /\ \A d \in Slot : (At(d, "logout", "body") /\ call[d].ok)' => access' = None
             /\ asked' <= 1
             /\ (\E q \in Page : page'[q].timer) => asked' = 0
             /\ (\E d \in Slot : Arrived(d)') => asked' = 0
  <2>1. NotYetEnded /\ asked <= 1
    BY <1>4 DEF AttemptInv
  <2>2. \A d \in Slot : (At(d, "logout", "body") /\ call[d].ok)' => access' = None
    BY <1>2, <2>1 DEF NotYetEnded, At
  <2>3. (\E d \in Slot : Arrived(d)') => asked' = 0
    BY <1>3, <2>1 DEF NotYetEnded
  <2> QED BY <2>1, <2>2, <2>3 DEF NotYetEnded
<1> QED BY <1>3, <1>4, NoNewAttempt DEF AttemptInv

\* A request is over, and its page may lose its timer.
LEMMA ForgottenKeepsAttempt ==
    ASSUME StoreInv, AttemptInv, NEW c \in Slot, Forget(c),
           NEW p \in Page, NEW store \in Store, page' = [page EXCEPT ![p] = store],
           store.timer => page[p].timer /\ store.map = page[p].map,
           UNCHANGED <<cookies, asked, mixed>>
    PROVE  AttemptInv'
<1>1. call \in [Slot -> CallState] /\ page \in [Page -> Store]
  BY DEF StoreInv, TypeOK
<1>2. /\ call'[c] = NoCall /\ \A d \in Slot : d # c => call'[d] = call[d]
      /\ NoCall.kind = "none"
  BY <1>1 DEF Forget, NoCall
<1>3. \A q \in Page : page'[q].timer => page[q].timer /\ page'[q].map = page[q].map
  BY <1>1
<1>4. \A d \in Slot : /\ call'[d].kind = "connect" => call[d].kind = "connect"
                      /\ Arrived(d)' => Arrived(d) /\ call'[d].token = call[d].token
  BY <1>2 DEF Arrived, At
<1>5. ASSUME ~mixed'
      PROVE  /\ \A d \in Slot : (At(d, "logout", "body") /\ call[d].ok)' => access' = None
             /\ asked' <= 1
             /\ (\E q \in Page : page'[q].timer) => asked' = 0
             /\ (\E d \in Slot : Arrived(d)') => asked' = 0
  <2>1. NotYetEnded /\ asked <= 1
    BY <1>5 DEF AttemptInv
  <2>2. \A d \in Slot : (At(d, "logout", "body") /\ call[d].ok)' => access' = None
    BY <1>2, <2>1 DEF NotYetEnded, At, cookies
  <2>3. (\E d \in Slot : Arrived(d)') => asked' = 0
    BY <1>4, <2>1 DEF NotYetEnded
  <2>4. (\E q \in Page : page'[q].timer) => asked' = 0
    BY <1>3, <2>1 DEF NotYetEnded
  <2> QED BY <2>1, <2>2, <2>3, <2>4
<1> QED BY <1>3, <1>4, <1>5, NoNewAttempt DEF AttemptInv, cookies

\* The only way in for an attempt: another one under way sets mixed.
LEMMA SubmitKeepsAttempt ==
    ASSUME StoreInv, AttemptInv, NEW p \in Page, NEW c \in Slot, Submit(p, c)
    PROVE  AttemptInv'
<1>1. call \in [Slot -> CallState]
  BY DEF StoreInv, TypeOK
<1>2. /\ call'[c].kind = "connect" /\ call'[c].at = "approve"
      /\ \A d \in Slot : d # c => call'[d] = call[d]
  BY <1>1 DEF Submit, NoCall
<1>3. UNCHANGED <<access, jar, page, asked>> /\ mixed' = (mixed \/ ~Quiet)
  BY DEF Submit, cookies
<1>4. ASSUME ~mixed' PROVE OneAttempt' /\ NotYetEnded' /\ asked' <= 1
  <2>1. NotYetEnded /\ asked <= 1 /\ Quiet
    BY <1>3, <1>4 DEF AttemptInv
  <2>2. /\ \A q \in Page : ~page'[q].timer
        /\ \A d \in Slot : call'[d].kind = "connect" => d = c
    BY <1>2, <1>3, <2>1 DEF Quiet, UnderWay
  <2>3. \A d \in Slot : ~Arrived(d)'
    BY <1>2, <2>2 DEF Arrived, At
  <2>4. \A d \in Slot : (At(d, "logout", "body") /\ call[d].ok)' => access' = None
    BY <1>2, <1>3, <2>1 DEF NotYetEnded, At
  <2>5. OneAttempt' /\ NotYetEnded'
    BY <2>2, <2>3, <2>4 DEF OneAttempt, NotYetEnded
  <2> QED BY <1>3, <2>1, <2>5
<1> QED BY <1>3, <1>4 DEF AttemptInv

\* A logout, an approval and an answer that brings no token.
LEMMA CallsKeepAttempt ==
    ASSUME StoreInv, AttemptInv, NEW c \in Slot,
           \/ \E p \in Page : Logout(p, c)
           \/ Approved(c) \/ AccessTokenCleared(c) \/ Fails(c)
    PROVE  AttemptInv'
<1>1. TypeOK /\ call[c] \in CallState
  BY DEF StoreInv, TypeOK
<1>2. ASSUME NEW p \in Page, Logout(p, c) PROVE AttemptInv'
  <2> DEFINE new == [NoCall EXCEPT !.kind = "logout", !.at = "sent", !.page = p,
                                   !.ok = (access # None),
                                   !.active = page[p].active]
  <2>1. page[p].active \in BOOLEAN
    BY <1>1 DEF TypeOK, Store
  <2>2. new \in CallState /\ new.kind = "logout" /\ new.at = "sent"
    BY <2>1 DEF NoCall, CallState
  <2>3. call' = [call EXCEPT ![c] = new]
        /\ UNCHANGED <<access, jar, page, asked, mixed>>
    BY <1>2 DEF Logout, cookies, history
  <2> HIDE DEF new
  <2> QED BY <2>2, <2>3, OtherCallKeepsAttempt
<1>3. CASE Approved(c)
  <2> DEFINE new == [call[c] EXCEPT !.at = "sent", !.wallet = access,
                                    !.ok = (access # None)]
  <2>1. new \in CallState /\ new.kind = call[c].kind /\ new.at = "sent"
    BY <1>1 DEF CallState, TypeOK
  <2>2. call' = [call EXCEPT ![c] = new]
        /\ UNCHANGED <<access, jar, page, asked, mixed>>
    BY <1>1, <1>3 DEF Approved, TypeOK, cookies, history
  <2> HIDE DEF new
  <2> QED BY <2>1, <2>2, OtherCallKeepsAttempt
<1>4. CASE AccessTokenCleared(c)
  <2> DEFINE new == [call[c] EXCEPT !.at = "body", !.token = None, !.wallet = None]
  <2>1. new \in CallState /\ new.kind = "logout"
    BY <1>1, <1>4 DEF CallState, AccessTokenCleared, At
  <2>2. call' = [call EXCEPT ![c] = new] /\ access' = None
        /\ UNCHANGED <<jar, page, asked, mixed>>
    BY <1>1, <1>4 DEF AccessTokenCleared, Arrives, TypeOK, history
  <2> HIDE DEF new
  <2> QED BY <2>1, <2>2, OtherCallKeepsAttempt
<1>5. CASE Fails(c)
  <2> DEFINE new == [call[c] EXCEPT !.at = "body", !.ok = FALSE, !.wallet = None]
  <2>1. new \in CallState /\ new.kind = call[c].kind /\ ~new.ok
    BY <1>1 DEF CallState
  <2>2. call' = [call EXCEPT ![c] = new]
        /\ UNCHANGED <<access, jar, page, asked, mixed>>
    BY <1>1, <1>5 DEF Fails, TypeOK, cookies, history
  <2> HIDE DEF new
  <2> QED BY <2>1, <2>2, OtherCallKeepsAttempt
<1> QED BY <1>2, <1>3, <1>4, <1>5

\* A new token is nobody else's, and its request is the only attempt.
LEMMA TokenKeepsAttempt ==
    ASSUME StoreInv, AttemptInv, NEW c \in Slot, ConnectionToken(c)
    PROVE  AttemptInv'
<1>1. call \in [Slot -> CallState] /\ call[c].kind = "connect" /\ RequestsOK
  BY DEF StoreInv, TypeOK, ConnectionToken, At
<1>2. PICK s \in Session :
        LET token == [session |-> s, wallet |-> call[c].wallet]
        IN Unknown(s) /\ SetToken(token) /\ Arrives(c, token)
  BY DEF ConnectionToken
<1> DEFINE token == [session |-> s, wallet |-> call[c].wallet]
<1>3. token # None /\ token # jar
  <2>1. token \in Token
    BY <1>1 DEF ConnectionToken, RequestsOK, Token
  <2>2. token # None
    BY <2>1, BrowserAssumption
  <2> QED BY <1>2, <2>2 DEF Unknown
<1>4. jar' = token /\ asked' = 0
  BY <1>2, <1>3 DEF SetToken
<1>5. /\ call'[c].kind = "connect" /\ call'[c].token = token
      /\ \A d \in Slot : d # c => call'[d] = call[d]
  BY <1>1, <1>2 DEF Arrives
<1>6. UNCHANGED <<access, page, mixed>>
  BY DEF ConnectionToken
<1> HIDE DEF token
<1>7. ASSUME ~mixed' PROVE OneAttempt' /\ NotYetEnded'
  <2>1. OneAttempt /\ NotYetEnded
    BY <1>6, <1>7 DEF AttemptInv
  <2>2. OneAttempt'
    BY <1>1, <1>5, <1>6, <2>1 DEF OneAttempt
  <2>3. \A p \in Page : ~page'[p].timer
    BY <1>1, <1>6, <2>1 DEF OneAttempt
  <2>4. \A d \in Slot : Arrived(d)' => call'[d].token = jar'
    BY <1>4, <1>5, <2>2 DEF OneAttempt, Arrived, At
  <2>5. \A d \in Slot : (At(d, "logout", "body") /\ call[d].ok)' => access' = None
    BY <1>5, <1>6, <2>1 DEF NotYetEnded, At
  <2>6. NotYetEnded'
    BY <1>4, <2>3, <2>4, <2>5 DEF NotYetEnded
  <2> QED BY <2>2, <2>6
<1> QED BY <1>3, <1>4, <1>6, <1>7 DEF AttemptInv

\* The token is taken away by the answer to an end, or by its age.
LEMMA TokenGoneKeepsAttempt ==
    ASSUME StoreInv, AttemptInv,
           Expire \/ \E c \in Slot : ConnectionTokenCleared(c)
    PROVE  AttemptInv'
<1>1. call \in [Slot -> CallState] /\ TypeOK
  BY DEF StoreInv, TypeOK
<1>2. /\ UNCHANGED <<page, mixed>>
      /\ access' \in {access, None}
      /\ (jar' = None /\ asked' = 0) \/ UNCHANGED <<jar, asked>>
  BY DEF Expire, ConnectionTokenCleared, SetToken, AttemptInv
<1>3. \A d \in Slot : call'[d] = call[d] \/ call'[d].kind = "end"
  <2>1. CASE Expire
    BY <2>1 DEF Expire
  <2>2. ASSUME NEW c \in Slot, ConnectionTokenCleared(c)
        PROVE  \A d \in Slot : call'[d] = call[d] \/ call'[d].kind = "end"
    <3>1. call[c] \in CallState /\ call[c].kind = "end"
      BY <1>1, <2>2 DEF ConnectionTokenCleared, At
    <3>2. call' = [call EXCEPT ![c].at = "body", ![c].token = None,
                               ![c].wallet = None]
      BY <2>2 DEF ConnectionTokenCleared, Arrives
    <3>3. /\ call'[c].kind = "end"
          /\ \A d \in Slot : d # c => call'[d] = call[d]
      BY <1>1, <3>1, <3>2 DEF CallState
    <3> QED BY <3>3
  <2> QED BY <2>1, <2>2
<1>4. \A d \in Slot : /\ call'[d].kind = "connect" => call[d].kind = "connect"
                      /\ Arrived(d)' => Arrived(d) /\ call'[d].token = call[d].token
  BY <1>3 DEF Arrived, At
<1>5. ASSUME ~mixed'
      PROVE  /\ \A d \in Slot : (At(d, "logout", "body") /\ call[d].ok)' => access' = None
             /\ asked' <= 1
             /\ (\E q \in Page : page'[q].timer) => asked' = 0
             /\ (\E d \in Slot : Arrived(d)') => asked' = 0
  <2>1. NotYetEnded /\ asked <= 1
    BY <1>2, <1>5 DEF AttemptInv
  <2>2. \A d \in Slot : (At(d, "logout", "body") /\ call[d].ok)' => access' = None
    BY <1>2, <1>3, <2>1 DEF NotYetEnded, At
  <2>3. (\E d \in Slot : Arrived(d)') => asked' = 0
    BY <1>2, <1>4, <2>1 DEF NotYetEnded
  <2>4. (\E q \in Page : page'[q].timer) => asked' = 0
    BY <1>2, <2>1 DEF NotYetEnded
  <2> QED BY <1>2, <2>1, <2>2, <2>3, <2>4
<1> QED BY <1>2, <1>4, <1>5, NoNewAttempt DEF AttemptInv

\* The connection that is shown is the attempt, and its route the token's.
LEMMA ShowKeepsAttempt ==
    ASSUME StoreInv, AttemptInv, NEW c \in Slot, Show(c)
    PROVE  AttemptInv'
<1> DEFINE p == call[c].page
           store == Connected(page[p], call[c].token.session)
<1>1. /\ page \in [Page -> Store] /\ call \in [Slot -> CallState]
      /\ call[c].kind = "connect" /\ Arrived(c)
      /\ p \in Page /\ call[c].token \in Token
  BY DEF StoreInv, TypeOK, Show, RequestsOK, At, Arrived
<1>2. /\ call' = [call EXCEPT ![c] = NoCall]
      /\ page' = [page EXCEPT ![p] = store]
      /\ UNCHANGED <<access, jar, asked, mixed>>
  BY DEF Show, Forget, cookies, history
<1>3. /\ call'[c].kind = "none" /\ \A d \in Slot : d # c => call'[d] = call[d]
  BY <1>1, <1>2 DEF NoCall
<1>4. call[c].token.session \in Session /\ call[c].token.session # None
  <2>1. call[c].token.session \in Session
    BY <1>1 DEF Token
  <2> QED BY <2>1, BrowserAssumption
<1>5. store.timer /\ store.map = call[c].token.session
  BY <1>1 DEF Connected, SetActiveStatus, Store
<1> HIDE DEF store
<1>6. page'[p] = store /\ \A q \in Page : q # p => page'[q] = page[q]
  BY <1>1, <1>2
<1>7. \A q \in Page : page'[q].timer => page'[q].map # None
  BY <1>4, <1>5, <1>6 DEF AttemptInv
<1>8. ASSUME ~mixed' PROVE OneAttempt' /\ NotYetEnded' /\ asked' <= 1
  <2>1. OneAttempt /\ NotYetEnded /\ asked <= 1
    BY <1>2, <1>8 DEF AttemptInv
  <2>2. /\ \A q \in Page : page'[q].timer => q = p
        /\ \A d \in Slot : call'[d].kind # "connect"
    BY <1>1, <1>3, <1>6, <2>1 DEF OneAttempt
  <2>3. asked' = 0 /\ (jar' # None => jar'.session = page'[p].map)
    BY <1>1, <1>2, <1>5, <1>6, <2>1 DEF NotYetEnded
  <2>4. \A d \in Slot : (At(d, "logout", "body") /\ call[d].ok)' => access' = None
    BY <1>2, <1>3, <2>1 DEF NotYetEnded, At
  <2>5. OneAttempt'
    BY <2>2 DEF OneAttempt
  <2>6. NotYetEnded'
    BY <2>2, <2>3, <2>4 DEF NotYetEnded, Arrived, At
  <2> QED BY <2>3, <2>5, <2>6
<1> QED BY <1>2, <1>7, <1>8 DEF AttemptInv

\* What else a page may do with an answer starts no timer.
LEMMA AnswersKeepAttempt ==
    ASSUME StoreInv, AttemptInv, NEW c \in Slot,
           ShowFailure(c) \/ EndAnswered(c) \/ LogoutFails(c)
    PROVE  AttemptInv'
<1> DEFINE p == call[c].page
<1>1. /\ page \in [Page -> Store] /\ call[c] \in CallState /\ p \in Page
      /\ page[p] \in Store
  BY DEF StoreInv, TypeOK, ShowFailure, EndAnswered, LogoutFails, RequestsOK, At
<1>2. CASE ShowFailure(c)
  <2> DEFINE store == Disconnected(page[p])
  <2>1. /\ page' = [page EXCEPT ![p] = store] /\ Forget(c)
        /\ UNCHANGED <<cookies, asked, mixed>>
    BY <1>2 DEF ShowFailure
  <2>2. store \in Store
    BY <1>1, Reducers
  <2>3. ~store.timer
    BY <1>1 DEF Disconnected, SetActiveStatus, Store
  <2> HIDE DEF store
  <2> QED BY <1>1, <2>1, <2>2, <2>3, ForgottenKeepsAttempt
<1>3. CASE EndAnswered(c)
  <2>1. PICK ok \in {FALSE, call[c].ok} :
            page' = [page EXCEPT ![p] = Settled(@, ok)]
    BY <1>3 DEF EndAnswered
  <2> DEFINE store == Settled(page[p], ok)
  <2>2. /\ page' = [page EXCEPT ![p] = store] /\ Forget(c)
        /\ UNCHANGED <<cookies, asked, mixed>>
    BY <1>3, <2>1 DEF EndAnswered, history
  <2>3. ok \in BOOLEAN
    BY <1>1 DEF CallState
  <2>4. store \in Store
    BY <1>1, <2>3, ReducersSettle
  <2>5. store.timer = page[p].timer /\ store.map = page[p].map
    BY <1>1 DEF Settled, Store
  <2> HIDE DEF store
  <2> QED BY <1>1, <2>2, <2>4, <2>5, ForgottenKeepsAttempt
<1>4. CASE LogoutFails(c)
  <2>1. /\ page' = [page EXCEPT ![p] = page[p]] /\ Forget(c)
        /\ UNCHANGED <<cookies, asked, mixed>>
    BY <1>1, <1>4 DEF LogoutFails, history
  <2> QED BY <1>1, <2>1, ForgottenKeepsAttempt
<1> QED BY <1>2, <1>3, <1>4

\* The end_connection of a logout comes without an AccessToken: unless somebody
\* has logged in meanwhile, the Orchestrator accepts none.
LEMMA LoggedOutKeepsAttempt ==
    ASSUME StoreInv, AttemptInv, NEW c \in Slot, LoggedOut(c)
    PROVE  AttemptInv'
<1> DEFINE p == call[c].page
           out == logout(page[p])
<1>1. /\ page \in [Page -> Store] /\ call \in [Slot -> CallState] /\ p \in Page
      /\ page[p] \in Store /\ asked \in 0 .. 2
      /\ At(c, "logout", "body") /\ call[c].ok
      /\ out \in Store /\ out.timer = page[p].timer /\ out.map = page[p].map
  <2>1. /\ page \in [Page -> Store] /\ call \in [Slot -> CallState] /\ p \in Page
        /\ asked \in 0 .. 2
        /\ At(c, "logout", "body") /\ call[c].ok
    BY DEF StoreInv, TypeOK, LoggedOut, RequestsOK, At
  <2>2. page[p] \in Store
    BY <2>1
  <2>3. out \in Store /\ out.timer = page[p].timer /\ out.map = page[p].map
    BY <2>2 DEF logout, Store
  <2> QED BY <2>1, <2>2, <2>3
<1>2. CASE ~call[c].active
  <2>1. /\ page' = [page EXCEPT ![p] = out] /\ Forget(c)
        /\ UNCHANGED <<cookies, asked, mixed>>
    BY <1>2 DEF LoggedOut, history
  <2> HIDE DEF out
  <2> QED BY <1>1, <2>1, ForgottenKeepsAttempt
<1>3. CASE call[c].active
  <2>1. /\ page' = [page EXCEPT ![p] = Pending(Disconnected(out))]
        /\ SendEnd(p, c) /\ UNCHANGED cookies
    BY <1>3 DEF LoggedOut
  <2>2. ~Pending(Disconnected(out)).timer
    BY <1>1 DEF Pending, Disconnected, SetActiveStatus, Store
  <2> HIDE DEF out
  <2>3. ~page'[p].timer /\ \A q \in Page : q # p => page'[q] = page[q]
    BY <1>1, <2>1, <2>2
  <2>4. call'[c].kind = "end" /\ \A d \in Slot : d # c => call'[d] = call[d]
    BY <1>1, <2>1, EndSent DEF cookies
  <2>5. jar' = jar /\ access' = access /\ mixed' = mixed
    BY <2>1 DEF cookies, SendEnd
  <2>6. jar' = None => asked' = 0
    BY <2>1, <2>5 DEF SendEnd, AttemptInv
  <2>7. \A d \in Slot : /\ call'[d].kind = "connect" => call[d].kind = "connect"
                        /\ Arrived(d)' => Arrived(d) /\ call'[d].token = call[d].token
    BY <2>4 DEF Arrived, At
  <2>8. ASSUME ~mixed'
        PROVE  /\ \A d \in Slot : (At(d, "logout", "body") /\ call[d].ok)' => access' = None
               /\ asked' <= 1
               /\ (\E q \in Page : page'[q].timer) => asked' = 0
               /\ (\E d \in Slot : Arrived(d)') => asked' = 0
    <3>1. NotYetEnded /\ asked <= 1
      BY <2>5, <2>8 DEF AttemptInv
    <3>2. access = None
      BY <1>1, <3>1 DEF NotYetEnded
    <3>3. asked' = asked
      BY <2>1, <3>2 DEF SendEnd
    <3>4. (\E q \in Page : page'[q].timer) => asked' = 0
      BY <2>3, <3>1, <3>3 DEF NotYetEnded
    <3>5. (\E d \in Slot : Arrived(d)') => asked' = 0
      BY <2>7, <3>1, <3>3 DEF NotYetEnded
    <3> QED BY <2>5, <3>1, <3>2, <3>3, <3>4, <3>5
  <2>9. \A q \in Page : page'[q].timer => page[q].timer /\ page'[q].map = page[q].map
    BY <2>3
  <2> QED BY <2>5, <2>6, <2>7, <2>8, <2>9, NoNewAttempt
<1> QED BY <1>2, <1>3

\* A login while a logout is under way sets mixed.
LEMMA LoginKeepsAttempt ==
    ASSUME StoreInv, AttemptInv, NEW p \in Page, NEW w \in Wallet, Login(p, w)
    PROVE  AttemptInv'
<1>1. page \in [Page -> Store]
  BY DEF StoreInv, TypeOK
<1>2. \A q \in Page : page'[q].timer = page[q].timer /\ page'[q].map = page[q].map
  <2>1. CASE UNCHANGED page
    BY <2>1
  <2>2. CASE page' = [page EXCEPT ![p] = login(@)]
    <3>1. login(page[p]).timer = page[p].timer /\ login(page[p]).map = page[p].map
      BY <1>1 DEF login, Store
    <3>2. page'[p] = login(page[p]) /\ \A q \in Page : q # p => page'[q] = page[q]
      BY <1>1, <2>2
    <3> QED BY <3>1, <3>2
  <2> QED BY <2>1, <2>2 DEF Login
<1>3. UNCHANGED <<jar, call, asked>> /\ mixed' = (mixed \/ UnderWay("logout"))
  BY DEF Login, SignIn
<1>4. ASSUME ~mixed' PROVE OneAttempt' /\ NotYetEnded' /\ asked' <= 1
  <2>1. OneAttempt /\ NotYetEnded /\ asked <= 1 /\ ~UnderWay("logout")
    BY <1>3, <1>4 DEF AttemptInv
  <2>2. OneAttempt'
    BY <1>2, <1>3, <2>1 DEF OneAttempt
  <2>3. NotYetEnded'
    BY <1>2, <1>3, <2>1 DEF NotYetEnded, UnderWay, Arrived, At
  <2> QED BY <1>3, <2>1, <2>2, <2>3
<1> QED BY <1>2, <1>3, <1>4 DEF AttemptInv

\* A reload forgets the timer and the requests of the page.
LEMMA ReloadKeepsAttempt ==
    ASSUME StoreInv, AttemptInv, NEW p \in Page, Reload(p)
    PROVE  AttemptInv'
<1>1. page \in [Page -> Store] /\ call \in [Slot -> CallState]
  BY DEF StoreInv, TypeOK
<1>2. PICK store \in CurrentUser : page' = [page EXCEPT ![p] = store]
  BY DEF Reload
<1>3. ~store.timer
  BY DEF CurrentUser, Loaded, login
<1>4. ~page'[p].timer /\ \A q \in Page : q # p => page'[q] = page[q]
  BY <1>1, <1>2, <1>3
<1>5. \A d \in Slot : call'[d] = call[d] \/ call'[d] = NoCall
  BY DEF Reload
<1>6. UNCHANGED <<access, jar, asked, mixed>>
  BY DEF Reload, cookies
<1>7. \A d \in Slot : /\ call'[d].kind = "connect" => call[d].kind = "connect"
                      /\ Arrived(d)' => Arrived(d) /\ call'[d].token = call[d].token
  BY <1>5 DEF Arrived, At, NoCall
<1>8. ASSUME ~mixed'
      PROVE  /\ \A d \in Slot : (At(d, "logout", "body") /\ call[d].ok)' => access' = None
             /\ asked' <= 1
             /\ (\E q \in Page : page'[q].timer) => asked' = 0
             /\ (\E d \in Slot : Arrived(d)') => asked' = 0
  <2>1. NotYetEnded /\ asked <= 1
    BY <1>6, <1>8 DEF AttemptInv
  <2>2. \A d \in Slot : (At(d, "logout", "body") /\ call[d].ok)' => access' = None
    BY <1>5, <1>6, <2>1 DEF NotYetEnded, At, NoCall
  <2> QED BY <1>4, <1>6, <1>7, <2>1, <2>2 DEF NotYetEnded
<1> QED BY <1>4, <1>6, <1>7, <1>8, NoNewAttempt DEF AttemptInv

-----------------------------------------------------------------------------
\* Nothing has been asked for.
LEMMA AttemptInit == Init => AttemptInv
  BY DEF Init, AttemptInv, OneAttempt, NotYetEnded, Arrived, At, NoCall, Loaded

\* Every step keeps it.
LEMMA AttemptStep == StoreInv /\ AttemptInv /\ [Next]_vars => AttemptInv'
<1> SUFFICES ASSUME StoreInv, AttemptInv, [Next]_vars PROVE AttemptInv'
  OBVIOUS
<1>1. ASSUME NEW p \in Page, NEW c \in Slot, EndConnection(p, c) PROVE AttemptInv'
  <2>1. page[p].timer
    BY <1>1 DEF EndConnection, MayDisconnect, StoreInv, ShownIsTimed
  <2> QED BY <1>1, <2>1, EndingKeepsAttempt DEF EndConnection
<1>2. ASSUME NEW p \in Page, Timer(p) PROVE AttemptInv'
  <2>1. PICK t \in Slot : Idle(t) /\ SendEnd(p, t)
    BY <1>2 DEF Timer, Slot
  <2> QED BY <1>2, <2>1, EndingKeepsAttempt DEF Timer
<1>3. ASSUME NEW c \in Slot, Approved(c) \/ ShowFailure(c) \/ Progress(c)
      PROVE  AttemptInv'
  <2>1. CASE Approved(c) \/ AccessTokenCleared(c) \/ Fails(c)
    BY <2>1, CallsKeepAttempt
  <2>2. CASE ConnectionToken(c)
    BY <2>2, TokenKeepsAttempt
  <2>3. CASE ConnectionTokenCleared(c)
    BY <2>3, TokenGoneKeepsAttempt
  <2>4. CASE Show(c)
    BY <2>4, ShowKeepsAttempt
  <2>5. CASE ShowFailure(c) \/ EndAnswered(c) \/ LogoutFails(c)
    BY <2>5, AnswersKeepAttempt
  <2>6. CASE LoggedOut(c)
    BY <2>6, LoggedOutKeepsAttempt
  <2> QED BY <1>3, <2>1, <2>2, <2>3, <2>4, <2>5, <2>6 DEF Progress
<1>4. CASE \E p \in Page, c \in Click :
               EndConnection(p, c) \/ Submit(p, c) \/ Logout(p, c)
  <2>1. PICK p \in Page, c \in Slot :
            EndConnection(p, c) \/ Submit(p, c) \/ Logout(p, c)
    BY <1>4 DEF Slot
  <2> QED BY <1>1, <2>1, SubmitKeepsAttempt, CallsKeepAttempt
<1>5. CASE UNCHANGED vars
  BY <1>5 DEF vars, cookies, history, AttemptInv, OneAttempt, NotYetEnded,
              Arrived, At
<1> QED
  BY <1>1, <1>2, <1>3, <1>4, <1>5, LoginKeepsAttempt, ReloadKeepsAttempt,
     TokenGoneKeepsAttempt DEF Next

\* The invariant of every behaviour.
LEMMA AttemptInvariant == Spec => [](StoreInv /\ AttemptInv)
<1>1. Init => StoreInv /\ AttemptInv
  BY StoreInit, AttemptInit
<1>2. StoreInv /\ AttemptInv /\ [Next]_vars => (StoreInv /\ AttemptInv)'
  BY StoreStep, AttemptStep
<1> QED BY <1>1, <1>2, PTL DEF Spec

\* A page that shows a connection shows a route, and, one attempt at a time,
\* the route of the reservation whose token is in the jar: the one the user
\* will be charged for.
THEOREM RouteIsTheTokensAlways == Spec => []RouteIsTheTokens
<1>1. StoreInv /\ AttemptInv => RouteIsTheTokens
  BY DEF StoreInv, ShownIsTimed, AttemptInv, NotYetEnded, RouteIsTheTokens
<1> QED BY <1>1, AttemptInvariant, PTL

\* One attempt at a time, no session is ended twice, whatever the buttons, the
\* timer and the logout do in whatever tabs: the second end would give back
\* bandwidth that the Engine has given back already.
THEOREM SessionsEndOnce == Spec => []EndedOnce
<1>1. AttemptInv => EndedOnce
  BY DEF AttemptInv, EndedOnce
<1> QED BY <1>1, AttemptInvariant, PTL

-----------------------------------------------------------------------------
(* The token in the jar has somebody to use it. *)

\* A step that keeps the token keeps it watched, if it takes a timer or a
\* delivered answer away only by using the token or giving it up.
LEMMA WatchKept ==
    ASSUME TokenIsWatched, jar' = jar, asked' = 0 => asked = 0,
           orphaned => orphaned',
           jar # None /\ asked' = 0 /\ ~orphaned' =>
               /\ \A p \in Page : page[p].timer => page'[p].timer
               /\ \A c \in Slot : Delivered(c) =>
                     Delivered(c)' \/ \E p \in Page : page'[p].timer
    PROVE  TokenIsWatched'
<1> SUFFICES ASSUME jar' # None, asked' = 0, ~orphaned'
             PROVE  (\E p \in Page : page'[p].timer) \/ \E c \in Slot : Delivered(c)'
  BY DEF TokenIsWatched
<1>1. (\E p \in Page : page[p].timer) \/ \E c \in Slot : Delivered(c)
  BY DEF TokenIsWatched
<1> QED BY <1>1

\* Somebody uses it, or cannot.
LEMMA UseKeepsWatched ==
    ASSUME StoreInv, TokenIsWatched, NEW p \in Page, NEW c \in Slot,
           SendEnd(p, c), UNCHANGED cookies
    PROVE  TokenIsWatched'
<1> DEFINE accepted == access # None /\ jar # None /\ jar.wallet = access
<1>1. /\ jar' = jar
      /\ asked' = IF ~accepted THEN asked ELSE
                  IF mixed \/ asked = 0 THEN 1 ELSE 2
      /\ orphaned' = (orphaned \/ (jar # None /\ ~accepted))
  BY DEF SendEnd, cookies
<1>2. jar # None => asked' # 0 \/ orphaned'
  <2>1. CASE accepted
    BY <1>1, <2>1
  <2>2. CASE ~accepted
    <3> HIDE DEF accepted
    <3> QED BY <1>1, <2>2, Zenon
  <2> QED BY <2>1, <2>2
<1> QED BY <1>1, <1>2 DEF TokenIsWatched

\* A request goes on, and it has not brought the token.
LEMMA OtherCallKeepsWatched ==
    ASSUME StoreInv, TokenIsWatched, NEW c \in Slot,
           ~At(c, "connect", "body"),
           \A d \in Slot : d # c => call'[d] = call[d],
           \A p \in Page : page[p].timer => page'[p].timer,
           UNCHANGED <<jar, asked, orphaned>>
    PROVE  TokenIsWatched'
<1>1. \A d \in Slot : Delivered(d) => Delivered(d)'
  BY DEF Delivered, At
<1> QED BY <1>1, WatchKept

\* The steps of one request that leave the timers and the token alone.
LEMMA CallsKeepWatched ==
    ASSUME StoreInv, TokenIsWatched, NEW c \in Slot,
           \/ \E p \in Page : Submit(p, c) \/ Logout(p, c)
           \/ Approved(c) \/ AccessTokenCleared(c) \/ Fails(c)
           \/ EndAnswered(c) \/ LogoutFails(c)
    PROVE  TokenIsWatched'
<1>1. page \in [Page -> Store] /\ call \in [Slot -> CallState]
  BY DEF StoreInv, TypeOK
<1>2. /\ ~At(c, "connect", "body")
      /\ \A d \in Slot : d # c => call'[d] = call[d]
      /\ UNCHANGED <<jar, asked, orphaned>>
  <2>1. ~At(c, "connect", "body")
    <3>1. \/ Idle(c) \/ At(c, "connect", "approve") \/ call[c].at = "sent"
          \/ call[c].kind \in {"end", "logout"}
      BY DEF Submit, Logout, Approved, AccessTokenCleared, Fails, EndAnswered,
             LogoutFails, At
    <3> QED BY <3>1 DEF Idle, NoCall, At
  <2>2. UNCHANGED <<jar, asked, orphaned>>
    <3>1. ASSUME NEW p \in Page, Submit(p, c) \/ Logout(p, c)
          PROVE  UNCHANGED <<jar, asked, orphaned>>
      BY <3>1 DEF Submit, Logout, cookies, history
    <3>2. CASE Approved(c) \/ AccessTokenCleared(c) \/ Fails(c)
      BY <3>2 DEF Approved, AccessTokenCleared, Fails, cookies, history
    <3>3. CASE EndAnswered(c) \/ LogoutFails(c)
      BY <3>3 DEF EndAnswered, LogoutFails, cookies, history
    <3> QED BY <3>1, <3>2, <3>3
  <2>3. \A d \in Slot : d # c => call'[d] = call[d]
    BY <1>1 DEF Submit, Logout, Approved, AccessTokenCleared, Fails, EndAnswered,
                LogoutFails, Arrives, Forget
  <2> QED BY <2>1, <2>2, <2>3
<1>3. \A p \in Page : page[p].timer => page'[p].timer
  <2>1. CASE EndAnswered(c)
    <3>1. PICK ok \in {FALSE, call[c].ok} :
              page' = [page EXCEPT ![call[c].page] = Settled(@, ok)]
      BY <2>1 DEF EndAnswered
    <3>2. call[c].page \in Page
      BY <2>1 DEF EndAnswered, StoreInv, RequestsOK, At
    <3>3. Settled(page[call[c].page], ok).timer = page[call[c].page].timer
      BY <1>1, <3>2 DEF Settled, Store
    <3> QED BY <1>1, <3>1, <3>2, <3>3
  <2>2. CASE UNCHANGED page
    BY <2>2
  <2> QED BY <2>1, <2>2 DEF Submit, Logout, Approved, AccessTokenCleared, Fails,
                            LogoutFails
<1> QED BY <1>2, <1>3, OtherCallKeepsWatched

\* A new token is the one just delivered; without a token there is nothing to
\* watch.
LEMMA TokenKeepsWatched ==
    ASSUME StoreInv, TokenIsWatched,
           Expire \/ \E c \in Slot : ConnectionToken(c) \/ ConnectionTokenCleared(c)
    PROVE  TokenIsWatched'
<1>1. ASSUME NEW c \in Slot, ConnectionToken(c) PROVE TokenIsWatched'
  <2>1. call \in [Slot -> CallState] /\ call[c] \in CallState
        /\ call[c].kind = "connect"
    BY <1>1 DEF StoreInv, TypeOK, ConnectionToken, At
  <2>2. PICK s \in Session :
          LET token == [session |-> s, wallet |-> call[c].wallet]
          IN Unknown(s) /\ SetToken(token) /\ Arrives(c, token)
    BY <1>1 DEF ConnectionToken
  <2> DEFINE token == [session |-> s, wallet |-> call[c].wallet]
  <2>3. jar' = token /\ Arrives(c, token)
    BY <2>2 DEF SetToken
  <2> HIDE DEF token
  <2>4. Delivered(c)'
    BY <2>1, <2>3 DEF Arrives, Delivered, At, CallState
  <2> QED BY <2>4 DEF TokenIsWatched
<1>2. ASSUME NEW c \in Slot, ConnectionTokenCleared(c) PROVE TokenIsWatched'
  BY <1>2 DEF ConnectionTokenCleared, SetToken, TokenIsWatched
<1>3. CASE Expire
  <2>1. CASE jar' = None
    BY <2>1 DEF TokenIsWatched
  <2>2. CASE jar' # None
    <3>1. UNCHANGED <<jar, asked, orphaned, page, call>>
      BY <1>3, <2>2 DEF Expire, SetToken
    <3> QED BY <3>1 DEF TokenIsWatched, Delivered, At
  <2> QED BY <2>1, <2>2
<1> QED BY <1>1, <1>2, <1>3

\* Where its timer starts, and where it is lost.
LEMMA PagesKeepWatched ==
    ASSUME StoreInv, TokenIsWatched,
           \/ \E c \in Slot : Show(c) \/ ShowFailure(c)
           \/ \E p \in Page : Reload(p)
           \/ \E p \in Page, w \in Wallet : Login(p, w)
    PROVE  TokenIsWatched'
<1>1. page \in [Page -> Store] /\ call \in [Slot -> CallState]
  BY DEF StoreInv, TypeOK
<1>2. ASSUME NEW c \in Slot, Show(c) PROVE TokenIsWatched'
  <2>1. call[c].page \in Page
    BY <1>2 DEF Show, StoreInv, RequestsOK, At
  <2>2. page'[call[c].page].timer
    BY <1>1, <1>2, <2>1 DEF Show, Connected, SetActiveStatus, Store
  <2> QED BY <2>1, <2>2 DEF TokenIsWatched
<1>3. ASSUME NEW c \in Slot, ShowFailure(c) PROVE TokenIsWatched'
  <2>1. call[c].page \in Page
    BY <1>3 DEF ShowFailure, StoreInv, RequestsOK, At
  <2>2. /\ \A q \in Page : q # call[c].page => page'[q] = page[q]
        /\ \A d \in Slot : d # c => call'[d] = call[d]
        /\ UNCHANGED <<jar, asked>>
        /\ orphaned' = (orphaned \/ (jar # None /\
                           (page[call[c].page].timer \/ Delivered(c))))
    BY <1>1, <1>3 DEF ShowFailure, Forget, cookies
  <2>3. \A d \in Slot : d # c /\ Delivered(d) => Delivered(d)'
    BY <2>2 DEF Delivered, At
  <2> QED BY <2>2, <2>3, WatchKept
<1>4. ASSUME NEW p \in Page, Reload(p) PROVE TokenIsWatched'
  <2>1. /\ \A q \in Page : q # p => page'[q] = page[q]
        /\ \A d \in Slot : call[d].page # p => call'[d] = call[d]
        /\ UNCHANGED <<jar, asked>>
        /\ orphaned' = (orphaned \/ (jar # None /\
               (page[p].timer \/ \E c \in Slot : call[c].page = p /\ Delivered(c))))
    BY <1>1, <1>4 DEF Reload, cookies
  <2>2. \A d \in Slot : call[d].page # p /\ Delivered(d) => Delivered(d)'
    BY <2>1 DEF Delivered, At
  <2> QED BY <2>1, <2>2, WatchKept
<1>5. ASSUME NEW p \in Page, NEW w \in Wallet, Login(p, w) PROVE TokenIsWatched'
  <2>1. login(page[p]).timer = page[p].timer
    BY <1>1 DEF login, Store
  <2>2. \A q \in Page : page'[q].timer = page[q].timer
    BY <1>1, <1>5, <2>1 DEF Login
  <2>3. UNCHANGED <<jar, call, asked, orphaned>>
    BY <1>5 DEF Login, SignIn
  <2> QED BY <2>2, <2>3 DEF TokenIsWatched, Delivered, At
<1> QED BY <1>2, <1>3, <1>4, <1>5

\* The Log Out handler: the connection it ends is given up.
LEMMA LoggedOutKeepsWatched ==
    ASSUME StoreInv, TokenIsWatched, NEW c \in Slot, LoggedOut(c)
    PROVE  TokenIsWatched'
<1> DEFINE p == call[c].page
<1>1. /\ page \in [Page -> Store] /\ call \in [Slot -> CallState] /\ p \in Page
      /\ At(c, "logout", "body")
  BY DEF StoreInv, TypeOK, LoggedOut, RequestsOK, At
<1>2. CASE call[c].active
  BY <1>1, <1>2, UseKeepsWatched DEF LoggedOut
<1>3. CASE ~call[c].active
  <2>1. logout(page[p]).timer = page[p].timer
    BY <1>1 DEF logout, Store
  <2>2. page' = [page EXCEPT ![p] = logout(page[p])] /\ Forget(c)
        /\ UNCHANGED <<jar, asked, orphaned>>
    BY <1>3 DEF LoggedOut, cookies, history
  <2>3. \A q \in Page : page[q].timer => page'[q].timer
    BY <1>1, <2>1, <2>2
  <2>4. ~At(c, "connect", "body") /\ \A d \in Slot : d # c => call'[d] = call[d]
    BY <1>1, <2>2 DEF At, Forget
  <2> QED BY <2>2, <2>3, <2>4, OtherCallKeepsWatched
<1> QED BY <1>2, <1>3

\* Every step keeps the token watched.
LEMMA WatchedStep == StoreInv /\ TokenIsWatched /\ [Next]_vars => TokenIsWatched'
<1> SUFFICES ASSUME StoreInv, TokenIsWatched, [Next]_vars PROVE TokenIsWatched'
  OBVIOUS
<1>1. CASE \E p \in Page, c \in Click :
               EndConnection(p, c) \/ Submit(p, c) \/ Logout(p, c)
  <2>1. PICK p \in Page, c \in Slot :
            EndConnection(p, c) \/ Submit(p, c) \/ Logout(p, c)
    BY <1>1 DEF Slot
  <2>2. CASE EndConnection(p, c)
    BY <2>2, UseKeepsWatched DEF EndConnection
  <2> QED BY <2>1, <2>2, CallsKeepWatched
<1>2. ASSUME NEW p \in Page, Timer(p) PROVE TokenIsWatched'
  <2>1. PICK t \in Slot : SendEnd(p, t)
    BY <1>2 DEF Timer, Slot
  <2> QED BY <1>2, <2>1, UseKeepsWatched DEF Timer
<1>3. ASSUME NEW c \in Slot, Approved(c) \/ ShowFailure(c) \/ Progress(c)
      PROVE  TokenIsWatched'
  <2>1. CASE \/ Approved(c) \/ AccessTokenCleared(c) \/ Fails(c)
             \/ EndAnswered(c) \/ LogoutFails(c)
    BY <2>1, CallsKeepWatched
  <2>2. CASE ConnectionToken(c) \/ ConnectionTokenCleared(c)
    BY <2>2, TokenKeepsWatched
  <2>3. CASE Show(c) \/ ShowFailure(c)
    BY <2>3, PagesKeepWatched
  <2>4. CASE LoggedOut(c)
    BY <2>4, LoggedOutKeepsWatched
  <2> QED BY <1>3, <2>1, <2>2, <2>3, <2>4 DEF Progress
<1>4. CASE UNCHANGED vars
  BY <1>4 DEF vars, cookies, history, TokenIsWatched, Delivered, At
<1> QED
  BY <1>1, <1>2, <1>3, <1>4, TokenKeepsWatched, PagesKeepWatched DEF Next

\* Whatever the order of clicks, answers, timers and reloads, a token whose end
\* has not been asked for has a timer, or an answer about to start one, unless
\* it was lost in one of the four ways that set orphaned: there is no fifth.
THEOREM TokenIsWatchedAlways == Spec => []TokenIsWatched
<1>1. Init => TokenIsWatched
  BY DEF Init, TokenIsWatched
<1>2. Init => StoreInv
  BY StoreInit
<1>3. StoreInv /\ TokenIsWatched /\ [Next]_vars => (StoreInv /\ TokenIsWatched)'
  BY StoreStep, WatchedStep
<1> QED BY <1>1, <1>2, <1>3, PTL DEF Spec

=============================================================================
