SPECIFICATION FairSpec
CONSTANTS
    Calls = {c1, c2}
    Roots = {r1, r2}
    Payloads = {p, q}
    Stamps = {t}
    Sentinel = Sentinel
    NoRequest = NoRequest
    MaxAttempts = 2
    LostAck = TRUE
INVARIANTS
    SuccessIsDurable
PROPERTIES
    ImplementsLog
    CallsReturn
CHECK_DEADLOCK FALSE
