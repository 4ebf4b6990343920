\* Engine: pointers left in the adjacency lists after RemoveNodeMethod.
SPECIFICATION Spec
CONSTANTS
    A = A
    B = B
    C = C
    X = X
    NoAddr = NoAddr
    Blank = Blank
    NoRequest = NoRequest
    Id <- MCId
    Loc <- MCLoc
    OnEarth <- MCOnEarth
    Near <- MCNear
    Dist <- MCDist
    Payload <- MCPayload
    Batch <- MCBatch
    Joining <- MCJoining
    Request <- MCRequest
    Addr = {a1, a2, a3}
    HopLimit = 20
    Scale = 2
    MaxTokens = 2
    MaxSurplus = 0
INVARIANT
    NoDanglingLinks
