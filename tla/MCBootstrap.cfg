SPECIFICATION Spec
CHECK_DEADLOCK FALSE
CONSTANTS
    r1 = r1
    r2 = r2
    r3 = r3
    Programs = {"auth", "ob"}
    Requests = {r1, r2, r3}
    Contents <- MCContents
    Server = Server
    Nobody = Nobody
    MaxSignals = 1
INVARIANTS
    TypeOK
    FileFromOwnConsent
    HangTakesOthers
PROPERTIES
    CaptureIsExchanged
