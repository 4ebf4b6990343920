\* Engine: route choice between two relays under every load and link direction.
SPECIFICATION IndexSpec
CONSTANTS
    A = A
    B = B
    C = C
    D = D
    E = E
    X = X
    NoAddr = NoAddr
    Blank = Blank
    NoRequest = NoRequest
    Id <- RouteId
    Loc <- RouteLoc
    OnEarth <- RouteOnEarth
    Near <- RouteNear
    Dist <- RouteDist
    Payload <- RoutePayload
    Batch <- RouteBatch
    Joining <- RouteJoining
    Request <- RouteRequest
    Addr = {a1, a2, a3, a4}
    HopLimit = 2
    Scale = 2
    MaxTokens = 2
    MaxSurplus = 0
    CAPACITY = 1
    HalfLat = 32
    HalfLon = 32
    Degree = 4
    Coordinate <- MCCoordinate
    Reach <- MCReach
SYMMETRY HeapSymmetry
INVARIANTS
    GrantedPathIsCheapest
    RefusalIsJustified
    FiledOnce
    QueryIsExact
