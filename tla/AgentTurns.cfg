CONSTANTS
    Worker = {w1, w2}
    Call = {g, f}
    Gated = {g}
    Offers <- TestOffers
    Unserialisable = {g, f}
    MaxTalk = 3
    MaxRows = 5
    MaxFaults = 1
    None = None
    g = g
    f = f
SPECIFICATION FairSpec
CHECK_DEADLOCK FALSE
INVARIANTS
    TypeOK
    RunsBounded
    NoFalseRefusal
    ToldOnce
PROPERTIES
    NeverAgain
    ApprovedOnly
    Answered
    ApprovalsHonoured
