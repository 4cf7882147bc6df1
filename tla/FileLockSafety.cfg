SPECIFICATION Spec
CONSTANTS
    t1 = t1
    t2 = t2
    t3 = t3
    p1 = p1
    p2 = p2
    a1 = a1
    a2 = a2
    a3 = a3
    a4 = a4
    a5 = a5
    b1 = b1
    b2 = b2
    b3 = b3
    b4 = b4
    host = host
    Unknown = Unknown
    NoNonce = NoNonce
    Thread = {t1, t2, t3}
    Nonce = {a1, a2, a3, a4, a5, b1, b2, b3, b4}
    Reused = {p2}
    DieMidRelease = TRUE
    Proc = {p1, p2}
    Home <- SharedHome
    Author <- MCAuthor
    Identity <- PartIdentity
    Space <- SharedSpace
    Mortal = {p2}
    RenameOverEmpty = TRUE
    MaxFaults = 1
SYMMETRY NonceSymmetry
INVARIANTS
    IInv
    MutualExclusion
    HolderKeepsRecord
PROPERTIES
    ExclusiveCallbacks
    OnlyRealmRecovers
