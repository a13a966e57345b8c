SPECIFICATION ReadSpec
CONSTANTS
    Calls = {c1, c2}
    Roots = {r1, r2}
    Payloads = {p, q}
    Stamps = {t}
    Sentinel = Sentinel
    NoRequest = NoRequest
    MaxAttempts = 1
    LostAck = FALSE
    Readers = {reader}
    All = All
SYMMETRY Symmetry
INVARIANTS
    AcknowledgedIsRead
    WalkIsSnapshot
    ReadsAreMonotonic
