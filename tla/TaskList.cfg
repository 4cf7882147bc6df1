SPECIFICATION FairSpec
CONSTANTS
    w1 = w1
    w2 = w2
    x1 = x1
    x2 = x2
    x3 = x3
    NoWorker = NoWorker
    NoAsk = NoAsk
    Worker = {w1, w2}
    Id = {x1, x2, x3}
    AutoId <- MCAuto
    Explicit = {x2, x3}
    MaxTasks = 2
    TicksPerSecond = 2
    Leases = {1, 2}
    RunTicks = 4
    Capped = {w1}
INVARIANTS
    TaskTypeOK
    LeasesExclusive
    LeaseHonoured
    IdsUnique
PROPERTIES
    ImplementsContract
    ClaimsEnd
