SPECIFICATION Spec
CONSTANTS
    c1 = c1
    Nil = Nil
    MaxInt = 3
    MaxAttempts = 3
    BaseDelay = 2
    MaxDelay = 3
    DefaultAttempts = 4
    DefaultBase = 1
    DefaultCap = 3
    RetryableStatuses = Nil
    RetryableMethods = Nil
    HonorRetryAfter = TRUE
    Calls = {c1}
    Shapes <- MCShapes
    Keys = {"k1", "k2"}
    ReplyStatuses = {200, 304, 503}
    Hints <- MCHints
    Policies = {"none", "backoff"}
    RetryAfterUnit = 0
    DefaultUnit = 1
    AttemptBound = 3
INVARIANTS
    TypeOK
    AttemptsWithinBudget
    SameRequestReplayed
    NoLeakedBody
    QuietPeriodHonoured
    SuccessIsFinal
    ResultMatchesWire
PROPERTIES
    NoHotRetry
    CancelEndsCall
    CallReturns
