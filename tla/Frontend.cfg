\* Two tabs over one cookie jar; a user's request beside one per tab's timers.
SPECIFICATION FairSpec
CONSTANTS
    Page = {p1, p2}
    Wallet = {w1}
    Session = {s1, s2}
    Click = {c1}
    Tick = {t1, t2}
    PageOf <- TwoTabs
    p1 = p1
    p2 = p2
    t1 = t1
    t2 = t2
    None = None
INVARIANTS
    TypeOK
    ShownIsTimed
    RouteIsTheTokens
    LoadingMeansSettling
    EndedOnce
    TokenIsWatched
PROPERTIES
    ShownEnds
    WatchedIsEnded
