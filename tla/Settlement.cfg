\* Two overlapping sessions and requests of one browser with two wallets.
SPECIFICATION Spec
CONSTANTS
    Browser = {b1}
    Wallet = {w1, w2}
    Session = {s1, s2}
    Call = {c1, c2}
    Node = {n1}
    Capacity = 2
    MaxReleases = 2
    None = None
SYMMETRY SettlementSymmetry
INVARIANTS
    TypeOK
    PayerIsOwner
    BooksInOrder
    ReceiptIsHonest
    CapacityKept
PROPERTY
    ImplementsLedger
