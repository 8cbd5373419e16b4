SPECIFICATION Spec
CHECK_DEADLOCK FALSE
CONSTANTS
    r1 = r1
    r2 = r2
    r3 = r3
    Programs = {"auth"}
    Requests = {r1, r2}
    Contents <- MCContents
    Server = Server
    Nobody = Nobody
    MaxSignals = 0
INVARIANTS
    AcknowledgedIsExchanged
