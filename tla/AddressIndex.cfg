SPECIFICATION Spec
CONSTANTS
    a1 = a1
    a2 = a2
    a3 = a3
    a4 = a4
    None = None
    PageSize = 2
    Worker = {w1, w2}
    Address = {a1, a2, a3, a4}
    Resource = {state, lock}
    Reader = {}
    MaxAddresses = 3
    Cursors = {0}
    Limits = {3}
    MaxFaults = 3
SYMMETRY AddressSymmetry
INVARIANTS
    TypeOK
    DataIndexed
    NeverCorrupt
    QuotaKept
PROPERTIES
    ImplementsLog
