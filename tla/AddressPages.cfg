SPECIFICATION FairSpec
CONSTANTS
    a1 = a1
    a2 = a2
    a3 = a3
    a4 = a4
    None = None
    PageSize = 2
    Worker = {w1, w2}
    Address = {a1, a2, a3}
    Resource = {state}
    Reader = {s1}
    MaxAddresses = 3
    Cursors = {0, 1}
    Limits = {1, 2, 3}
    MaxFaults = 1
INVARIANTS
    ScanFaithful
    IndexInv
PROPERTIES
    AppendRecovered
