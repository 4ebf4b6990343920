\* A session that is paid and leaves no row.
SPECIFICATION Spec
CONSTANTS
    Browser = {b1}
    Wallet = {w1, w2}
    Session = {s1, s2}
    Call = {c1, c2}
    Node = {n1}
    Capacity = 2
    MaxReleases = 2
    None = None
INVARIANT
    PaidSessionsAreStored
