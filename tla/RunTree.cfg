SPECIFICATION FairSpec
CONSTANTS
    NoCap = NoCap
    Never = Never
    Roots <- TestRoots
    Declared <- TestDeclared
    Ceiling = 3
    MaxDepth = 3
    Costs = {NoCap, 0, 1, 3}
    TicksPerSecond = 2
    MaxCalls = 2
    MaxTime = 5
CHECK_DEADLOCK FALSE
INVARIANTS
    TypeOK
    TreeWithinBudget
    CostCapHolds
    StopsWhenCancelled
PROPERTIES
    ChildMayStep
    TreeEnds
