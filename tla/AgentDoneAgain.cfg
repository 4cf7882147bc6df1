CONSTANTS
    Worker = {w1, w2}
    Call = {g, f}
    Gated = {g}
    Offers <- TestOffers
    Unserialisable = {}
    MaxTalk = 3
    MaxRows = 5
    MaxFaults = 0
    None = None
    g = g
    f = f
SPECIFICATION Spec
CHECK_DEADLOCK FALSE
INVARIANTS
    DoneIsDone
