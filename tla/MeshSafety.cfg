\* Engine: every interleaving of the RPCs on a line of three nodes.
SPECIFICATION Spec
CONSTANTS
    A = A
    B = B
    C = C
    X = X
    NoAddr = NoAddr
    Blank = Blank
    NoRequest = NoRequest
    Id <- MCId
    Loc <- MCLoc
    OnEarth <- MCOnEarth
    Near <- MCNear
    Dist <- MCDist
    Payload <- MCPayload
    Batch <- MCBatch
    Joining <- MCJoining
    Request <- MCRequest
    Addr = {a1, a2, a3}
    HopLimit = 20
    Scale = 2
    MaxTokens = 2
    MaxSurplus = 0
SYMMETRY HeapSymmetry
INVARIANTS
    IndexMatchesTree
    NeighboursLinked
    BooksBalance
    ReservationSucceeds
    GrantedPathIsARoute
PROPERTY
    ImplementsService
