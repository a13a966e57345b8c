SPECIFICATION Spec
CONSTANTS
    Calls = {c1, c2, c3}
    Roots = {r1, r2}
    Payloads = {p}
    Stamps = {t}
    Sentinel = Sentinel
    NoRequest = NoRequest
    MaxAttempts = 2
    LostAck = TRUE
SYMMETRY Symmetry
INVARIANTS
    TypeOK
    OneCommitPerRecord
    MovesAtMostOnce
    GivingUpNeedsContention
    ErrorsLeaveNoTrace
PROPERTIES
    AppendOnly
CHECK_DEADLOCK FALSE
