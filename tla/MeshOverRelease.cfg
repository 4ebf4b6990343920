\* Engine: end_connection repeated with the same token.
SPECIFICATION Spec
CONSTANTS
    A = A
    B = B
    C = C
    X = X
    NoAddr = NoAddr
    Blank = Blank
    NoRequest = NoRequest
    Id <- MCId
    Loc <- MCLoc
    OnEarth <- MCOnEarth
    Near <- MCNear
    Dist <- MCDist
    Payload <- ReplayPayload
    Batch <- ReplayBatch
    Joining <- ReplayJoining
    Request <- ReplayRequest
    Addr = {a1, a2, a3}
    HopLimit = 20
    Scale = 2
    MaxTokens = 2
    MaxSurplus = 2
INVARIANT
    ReleaseWithinTotal
