---------------------------- MODULE FrontendStore ----------------------------
(***************************************************************************)
(* The browser's side of a connection: tabs that run the single-page       *)
(* application, each with its own Redux store and connection timer, over   *)
(* one cookie jar.                                                         *)
(*                                                                         *)
(* A component's handler and a thunk run from one await to the next in one *)
(* step.  A fetch is three steps: it is sent with the cookies of that      *)
(* moment, the headers of the answer change the cookies, the body reaches  *)
(* the code that waits for it.  It may fail before each of the last two.   *)
(*                                                                         *)
(* Of the Orchestrator a tab learns whether a request succeeded, and no    *)
(* more; what a request does there is SessionSettlement's.                 *)
(***************************************************************************)
EXTENDS Naturals, FiniteSets

CONSTANTS
    Page,      \* tabs of one browser
    Wallet,
    Session,   \* reservations the browser knows of; bound: so many at a time
    Click,     \* requests started by the user; bound: so many at a time
    Tick,      \* requests started by timers; bound: so many at a time
    PageOf,    \* the page to whose timers such a request belongs
    None

Slot == Click \cup Tick

\* What a ConnectionToken says: which reservation, and whose.
Token == [session : Session, wallet : Wallet]

ASSUME BrowserAssumption ==
    /\ Click \cap Tick = {}
    /\ PageOf \in [Tick -> Page]
    /\ None \notin Page \cup Wallet \cup Session \cup Token

VARIABLES
    access,   \* AccessToken cookie: the wallet logged in
    jar,      \* ConnectionToken cookie
    page,     \* the store of each tab
    call,     \* the requests under way
    asked,    \* history: end_connection requests for the token in the jar
              \* that the Orchestrator accepts; 2 stands for more, and once
              \* mixed, 1 does
    orphaned, \* history: the token in the jar was left without anybody to
              \* use it
    mixed     \* history: an attempt to connect began while another
              \* connection, attempt or logout was under way, or a login
              \* while a logout was

cookies == <<access, jar>>
history == <<asked, orphaned, mixed>>
vars == <<cookies, page, call, history>>

\* authSlice's status; connectionSlice's activeStatus, transitionStatus and
\* connectionMap (the session whose route it is); the listener that waits in
\* its delay.
Loaded == [status |-> FALSE, active |-> FALSE, transition |-> FALSE,
           map |-> None, timer |-> FALSE]

\* A request: its page, the cookies it was sent with or is answered with,
\* whether it is authorised and then whether it succeeded, and activeStatus
\* as it was when the user clicked.
NoCall == [kind |-> "none", at |-> "idle", page |-> None, wallet |-> None,
           token |-> None, ok |-> FALSE, active |-> FALSE]

Idle(c) == call[c] = NoCall
At(c, kind, place) == call[c].kind = kind /\ call[c].at = place
Advance(c, place) == call' = [call EXCEPT ![c].at = place]
Forget(c) == call' = [call EXCEPT ![c] = NoCall]

Init ==
    /\ access = None /\ jar = None
    /\ page = [p \in Page |-> Loaded]
    /\ call = [c \in Slot |-> NoCall]
    /\ asked = 0 /\ orphaned = FALSE /\ mixed = FALSE

\* Set-Cookie for the ConnectionToken, or its end.
SetToken(token) ==
    /\ jar' = token
    /\ asked' = IF token = jar THEN asked ELSE 0
    /\ orphaned' = (token = jar /\ orphaned)

-----------------------------------------------------------------------------
(* The store. *)

\* Mutant: the listener does not react to setActiveStatus.
SetActiveStatusUntimed(store, status) == [store EXCEPT !.active = status]

\* setActiveStatus, and the listener it triggers: a timer that runs is
\* cancelled, and started again for TRUE.
SetActiveStatus(store, status) ==
    [store EXCEPT !.active = status, !.timer = status]

Connected(store, s) == [SetActiveStatus(store, TRUE) EXCEPT !.map = s]

\* Mutant: setActiveStatus() without an argument.
DisconnectedUndefined(store) ==
    [store EXCEPT !.active = None, !.timer = FALSE, !.map = None]

Disconnected(store) == [SetActiveStatus(store, FALSE) EXCEPT !.map = None]

\* terminateConnection.pending, and .fulfilled or .rejected.
Pending(store) == [store EXCEPT !.transition = TRUE]

\* Mutant: rejected leaves the loading state alone.
SettledIfFulfilled(store, ok) ==
    [store EXCEPT !.transition = @ /\ ~ok, !.active = FALSE]

Settled(store, ok) == [store EXCEPT !.transition = FALSE, !.active = FALSE]

\* authSlice's reducers.
login(store) == [store EXCEPT !.status = TRUE]
logout(store) == [store EXCEPT !.status = FALSE]

\* What the route guards and the header offer.
LoggedIn(p) == page[p].status
MayConnect(p) == LoggedIn(p) /\ ~page[p].active
MayDisconnect(p) == LoggedIn(p) /\ page[p].active

-----------------------------------------------------------------------------
(* Ending a connection. *)

\* The fetch of terminateConnection, in slot c, with the cookies as they are.
\* The Orchestrator accepts it from the token's owner only.
SendEnd(p, c) ==
    LET accepted == access # None /\ jar # None /\ jar.wallet = access
    IN /\ call' = [call EXCEPT ![c] =
                     [NoCall EXCEPT !.kind = "end", !.at = "sent", !.page = p,
                                    !.ok = accepted]]
       /\ asked' = IF ~accepted THEN asked ELSE
                   IF mixed \/ asked = 0 THEN 1 ELSE 2
       /\ orphaned' = (orphaned \/ (jar # None /\ ~accepted))
       /\ UNCHANGED mixed

\* Mutant: the Disconnect button leaves activeStatus to the answer.
EndConnectionUnreset(p, c) ==
    /\ MayDisconnect(p) /\ Idle(c)
    /\ page' = [page EXCEPT ![p] = Pending(@)]
    /\ SendEnd(p, c)
    /\ UNCHANGED cookies

\* The Disconnect button.
EndConnection(p, c) ==
    /\ MayDisconnect(p) /\ Idle(c)
    /\ page' = [page EXCEPT ![p] = Pending(Disconnected(@))]
    /\ SendEnd(p, c)
    /\ UNCHANGED cookies

\* Mutant: the timer clears the page and ends nothing.
TimerClears(p) ==
    /\ page[p].timer
    /\ page' = [page EXCEPT ![p] = Disconnected(@)]
    /\ UNCHANGED <<cookies, call, history>>

\* Mutant: the timer leaves activeStatus to the answer.
TimerUnreset(p) ==
    /\ page[p].timer
    /\ page' = [page EXCEPT ![p] = [Pending(@) EXCEPT !.timer = FALSE]]
    /\ \E t \in Tick : PageOf[t] = p /\ Idle(t) /\ SendEnd(p, t)
    /\ UNCHANGED cookies

\* The timer of the listener runs out.  The end_connection of an earlier timer
\* of the page may still be under way.
Timer(p) ==
    /\ page[p].timer
    /\ page' = [page EXCEPT ![p] = Pending(Disconnected(@))]
    /\ \E t \in Tick : PageOf[t] = p /\ Idle(t) /\ SendEnd(p, t)
    /\ UNCHANGED cookies

-----------------------------------------------------------------------------
(* Connecting, logging in and out. *)

UnderWay(kind) == \E c \in Slot : call[c].kind = kind

\* Nothing under way that may set, replace or end a connection.
Quiet == /\ \A p \in Page : ~page[p].timer
         /\ ~UnderWay("connect") /\ ~UnderWay("logout")

\* The form is sent: getConnection asks the wallet for its approval first.
Submit(p, c) ==
    /\ MayConnect(p) /\ Idle(c)
    /\ call' = [call EXCEPT ![c] = [NoCall EXCEPT !.kind = "connect",
                                    !.at = "approve", !.page = p]]
    /\ mixed' = (mixed \/ ~Quiet)
    /\ UNCHANGED <<cookies, page, asked, orphaned>>

\* The approval is mined; get_connection is sent.
Approved(c) ==
    /\ At(c, "connect", "approve")
    /\ call' = [call EXCEPT ![c].at = "sent", ![c].wallet = access,
                            ![c].ok = (access # None)]
    /\ UNCHANGED <<cookies, page, history>>

\* The user signs the challenge for w; failing that, nothing changes.
SignIn(w) == access' = w /\ UNCHANGED jar

\* The page shows him logged in if the answer's body arrives.
Login(p, w) ==
    /\ ~LoggedIn(p)
    /\ SignIn(w)
    /\ page' = [page EXCEPT ![p] = login(@)] \/ UNCHANGED page
    /\ mixed' = (mixed \/ UnderWay("logout"))
    /\ UNCHANGED <<call, asked, orphaned>>

\* The Log Out button; activeStatus is the one of the last rendering.
Logout(p, c) ==
    /\ LoggedIn(p) /\ Idle(c)
    /\ call' = [call EXCEPT ![c] = [NoCall EXCEPT !.kind = "logout",
                                    !.at = "sent", !.page = p,
                                    !.ok = (access # None),
                                    !.active = page[p].active]]
    /\ UNCHANGED <<cookies, page, history>>

\* A cookie outlives its maxAge.
Expire ==
    /\ \/ access # None /\ access' = None /\ UNCHANGED <<jar, asked, orphaned>>
       \/ jar # None /\ SetToken(None) /\ UNCHANGED access
    /\ UNCHANGED <<page, call, mixed>>

\* The token in the jar has come with the answer to c.
Delivered(c) == At(c, "connect", "body") /\ call[c].token = jar

\* getCurrentUser, with the stores it may lead to: it needs the cookie, and may
\* fail.
CurrentUser == {Loaded} \cup {login(Loaded) : w \in {access} \ {None}}

\* The page is loaded anew: its store, its timer and whatever waits for an
\* answer are gone.  App asks for the current user.
Reload(p) ==
    /\ \E store \in CurrentUser : page' = [page EXCEPT ![p] = store]
    /\ call' = [c \in Slot |-> IF call[c].page = p THEN NoCall ELSE call[c]]
    /\ orphaned' = (orphaned \/ (jar # None /\
                       (page[p].timer \/ \E c \in Slot : /\ call[c].page = p
                                                         /\ Delivered(c))))
    /\ UNCHANGED <<cookies, asked, mixed>>

-----------------------------------------------------------------------------
(* Answers. *)

Arrives(c, token) == call' = [call EXCEPT ![c].at = "body", ![c].token = token,
                                          ![c].wallet = None]

\* Nobody in the browser refers to session s.
Unknown(s) ==
    /\ jar # None => jar.session # s
    /\ \A p \in Page : page[p].map # s
    /\ \A c \in Slot : call[c].token # None => call[c].token.session # s

\* The headers of a success: the cookies change, whatever they are by now.
ConnectionToken(c) ==
    /\ At(c, "connect", "sent") /\ call[c].ok
    /\ \E s \in Session :
         LET token == [session |-> s, wallet |-> call[c].wallet]
         IN Unknown(s) /\ SetToken(token) /\ Arrives(c, token)
    /\ UNCHANGED <<access, page, mixed>>

ConnectionTokenCleared(c) ==
    /\ At(c, "end", "sent") /\ call[c].ok
    /\ SetToken(None)
    /\ Arrives(c, None)
    /\ UNCHANGED <<access, page, mixed>>

AccessTokenCleared(c) ==
    /\ At(c, "logout", "sent") /\ call[c].ok
    /\ access' = None
    /\ Arrives(c, None)
    /\ UNCHANGED <<jar, page, history>>

\* Any request may be refused, fail on the way, or get no answer.
Fails(c) ==
    /\ call[c].at = "sent"
    /\ call' = [call EXCEPT ![c].at = "body", ![c].ok = FALSE,
                            ![c].wallet = None]
    /\ UNCHANGED <<cookies, page, history>>

-----------------------------------------------------------------------------
(* Back in the page. *)

\* getConnected goes on: the connection is shown.
Show(c) ==
    /\ At(c, "connect", "body") /\ call[c].ok
    /\ page' = [page EXCEPT ![call[c].page] = Connected(@, call[c].token.session)]
    /\ Forget(c)
    /\ UNCHANGED <<cookies, history>>

\* getConnected throws: no approval, no connection, no body.  The page is reset
\* and with it the timer of a connection it has already.
ShowFailure(c) ==
    /\ At(c, "connect", "approve") \/ At(c, "connect", "body")
    /\ LET p == call[c].page
       IN /\ page' = [page EXCEPT ![p] = Disconnected(@)]
          /\ orphaned' = (orphaned \/ (jar # None /\
                             (page[p].timer \/ Delivered(c))))
    /\ Forget(c)
    /\ UNCHANGED <<cookies, asked, mixed>>

\* terminateConnection.fulfilled or .rejected.
EndAnswered(c) ==
    /\ At(c, "end", "body")
    /\ \E ok \in {FALSE, call[c].ok} :
           page' = [page EXCEPT ![call[c].page] = Settled(@, ok)]
    /\ Forget(c)
    /\ UNCHANGED <<cookies, history>>

\* The Log Out handler goes on, and ends the connection it saw when the button
\* was pressed, now without an AccessToken.
LoggedOut(c) ==
    /\ At(c, "logout", "body") /\ call[c].ok
    /\ LET p == call[c].page
           out == logout(page[p])
       IN IF call[c].active
          THEN /\ page' = [page EXCEPT ![p] = Pending(Disconnected(out))]
               /\ SendEnd(p, c)
          ELSE /\ page' = [page EXCEPT ![p] = out]
               /\ Forget(c)
               /\ UNCHANGED history
    /\ UNCHANGED cookies

LogoutFails(c) ==
    /\ At(c, "logout", "body")
    /\ Forget(c)
    /\ UNCHANGED <<cookies, page, history>>

\* What happens to request c once it has been sent.
Progress(c) ==
    \/ ConnectionToken(c) \/ ConnectionTokenCleared(c)
    \/ AccessTokenCleared(c) \/ Fails(c)
    \/ Show(c) \/ (ShowFailure(c) /\ call[c].at = "body")
    \/ EndAnswered(c) \/ LoggedOut(c) \/ LogoutFails(c)

\* What becomes of an end_connection.
Ending(c) == ConnectionTokenCleared(c) \/ Fails(c) \/ EndAnswered(c)

Next ==
    \/ \E p \in Page, c \in Click :
           EndConnection(p, c) \/ Submit(p, c) \/ Logout(p, c)
    \/ \E p \in Page, w \in Wallet : Login(p, w)
    \/ \E p \in Page : Timer(p) \/ Reload(p)
    \/ \E c \in Slot : Approved(c) \/ ShowFailure(c) \/ Progress(c)
    \/ Expire

Spec == Init /\ [][Next]_vars

\* A delay ends and a fetch is answered or breaks: it is enough to assume it of
\* the timers and their requests.  What the user has started, his wallet and
\* the cookies' ages are under no obligation.
FairSpec ==
    /\ Spec
    /\ \A p \in Page : WF_vars(Timer(p))
    /\ \A t \in Tick : WF_vars(Ending(t))

-----------------------------------------------------------------------------
(* Correctness. *)

Store == [status : BOOLEAN, active : BOOLEAN, transition : BOOLEAN,
          map : Session \cup {None}, timer : BOOLEAN]
CallState == [kind : {"none", "connect", "end", "logout"},
              at : {"idle", "approve", "sent", "body"},
              page : Page \cup {None}, wallet : Wallet \cup {None},
              token : Token \cup {None}, ok : BOOLEAN, active : BOOLEAN]

\* Every variable keeps its type.
TypeOK ==
    /\ access \in Wallet \cup {None} /\ jar \in Token \cup {None}
    /\ page \in [Page -> Store]
    /\ call \in [Slot -> CallState]
    /\ asked \in 0 .. 2 /\ orphaned \in BOOLEAN /\ mixed \in BOOLEAN

\* A connection that a page shows has its timer running: neither a late answer
\* of an earlier end_connection nor a failed attempt, a logout or a second
\* timer leaves one on the screen that nothing will end.
ShownIsTimed == \A p \in Page : page[p].active => page[p].timer

\* The route on the screen is never empty (the error text of ConnectionMap),
\* and, one attempt at a time, it is the route of the token in the jar: the
\* user looks at the connection he will be charged for, unless that token is
\* gone.
RouteIsTheTokens ==
    \A p \in Page : page[p].active =>
        /\ page[p].map # None
        /\ ~mixed /\ jar # None => jar.session = page[p].map

\* connectionSlice.js: transitionStatus shows that a session is being settled.
\* So it is never left on with no end_connection of that page under way.
LoadingMeansSettling ==
    \A p \in Page : page[p].transition =>
        \E c \in Slot : call[c].kind = "end" /\ call[c].page = p

\* One attempt at a time, the buttons, the timer and the logout together send
\* one end_connection that the Orchestrator accepts per session: the repeated
\* release that MeshOverRelease finds needs overlapping attempts.
EndedOnce == ~mixed => asked <= 1

\* A ConnectionToken in the jar whose end has not been asked for has a timer
\* running, or is about to get one; it loses it only in the four ways that
\* set orphaned: a reload, an answer that breaks, an attempt that fails on a
\* page that is connected, an end_connection without its owner's AccessToken.
\* Nothing is said of a token that was overwritten or cleared.
TokenIsWatched ==
    jar # None /\ asked = 0 /\ ~orphaned =>
        (\E p \in Page : page[p].timer) \/ (\E c \in Slot : Delivered(c))

\* A connection does not stay on the screen for ever, whatever else is under
\* way and whatever becomes of the requests.
ShownEnds == \A p \in Page : page[p].active ~> ~page[p].active

\* A token that is watched is used to end its session, or leaves the jar, or is
\* orphaned in one of the ways above.
WatchedIsEnded ==
    \A s \in Session :
        (jar # None /\ jar.session = s /\ \E p \in Page : page[p].timer)
            ~> (asked > 0 \/ orphaned \/ jar = None \/ jar.session # s)

=============================================================================
