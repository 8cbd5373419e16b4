SPECIFICATION Spec
CONSTANTS
    p1 = p1
    p2 = p2
    Procs = {p1, p2}
    None = None
    ConfigEarly = 0
    DefaultEarly = 3
    Fallback = 3
    TTLs = {0, 4}
    TripBound = 1
    MaxRefresh = 3
INVARIANT
    MarginKept
