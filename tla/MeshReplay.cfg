\* Engine: searches over a mesh whose bandwidth was released twice.
SPECIFICATION FairSpec
CONSTANTS
    A = A
    B = B
    C = C
    X = X
    NoAddr = NoAddr
    Blank = Blank
    NoRequest = NoRequest
    Id <- MCId
    Loc <- MCLoc
    OnEarth <- MCOnEarth
    Near <- MCNear
    Dist <- MCDist
    Payload <- ReplayPayload
    Batch <- ReplayBatch
    Joining <- ReplayJoining
    Request <- ReplayRequest
    Addr = {a1, a2, a3}
    HopLimit = 3
    Scale = 2
    MaxTokens = 1
    MaxSurplus = 2
INVARIANT
    TypeOK
PROPERTY
    SearchEnds
