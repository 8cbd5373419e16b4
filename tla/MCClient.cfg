SPECIFICATION Safe
SYMMETRY Symmetry
CONSTANTS
    c1 = c1
    c2 = c2
    Nil = Nil
    MaxInt = 3
    MaxAttempts = 2
    BaseDelay = 1
    MaxDelay = 1
    DefaultAttempts = 4
    DefaultBase = 1
    DefaultCap = 3
    RetryableStatuses = Nil
    RetryableMethods = Nil
    HonorRetryAfter = FALSE
    Calls = {c1, c2}
    Shapes <- MCShapes
    Keys = {"k1"}
    ReplyStatuses = {200, 503}
    Hints = {0}
    Policies = {"backoff"}
    RetryAfterUnit = 0
    DefaultUnit = 1
    AttemptBound = 2
    None = None
    Kinds = {"cc"}
    Skew = 0
    Early = 1
    Fallback = 3
    TTLs = {3}
    TripBound = 1
    DialBound = 1
INVARIANTS
    TypeOK
    NoHoldAndWait
PROPERTIES
    BearerLiveOnWire
    PartsHold
CHECK_DEADLOCK FALSE
