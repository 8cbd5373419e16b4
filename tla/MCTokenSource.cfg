SPECIFICATION Spec
CONSTANTS
    p1 = p1
    p2 = p2
    Procs = {p1, p2}
    None = None
    Kinds = {"jwt", "cc"}
    Skew = 3
    Early = 1
    Fallback = 4
    TTLs = {0, 1, 3, 6}
    TripBound = 2
INVARIANTS
    TypeOK
    SingleFlight
    CachedTokenLive
PROPERTIES
    TokenReturns
    Implements
