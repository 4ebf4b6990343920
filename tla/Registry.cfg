\* Two overlapping requests over two node ids and two wallets.
SPECIFICATION Spec
CONSTANTS
    A = A
    B = B
    W1 = W1
    W2 = W2
    Id = {A, B}
    Wallet = {W1, W2}
    Entry <- MCEntry
    Body <- MCBody
    Call = {c1, c2}
    None = None
INVARIANTS
    TypeOK
    NodesArePayable
    BatchesAreDistinct
PROPERTY
    PayeeIsStable
