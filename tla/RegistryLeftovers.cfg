\* A document left behind by a deletion that fails.
SPECIFICATION FairSpec
CONSTANTS
    A = A
    B = B
    W1 = W1
    W2 = W2
    Id = {A, B}
    Wallet = {W1, W2}
    Entry <- LeftoverEntry
    Body <- LeftoverBody
    Call = {c1}
    None = None
PROPERTY
    LeftoversAreSynced
