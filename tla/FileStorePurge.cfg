CONSTANTS
    Worker = {w1, w2}
    Payload = {p1, p2}
    TTLs = {1, Never}
    Never = Never
    MaxClock = 2
    None = None
SPECIFICATION Spec
CHECK_DEADLOCK FALSE
INVARIANT PutKept
