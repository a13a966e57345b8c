SPECIFICATION BootSpec
CONSTANTS
    a = a  b = b  c = c
    P = P  Q = Q
    Tasks = {a, b, c}
    Procs = {P, Q}
    ProcOf <- MCProcOf
    PidOf <- MCPidOf
    NoPid = 0
    NoFile = NoFile
    MaxPolls = 0
    MaxCalls = 1
    Grace = 0  MaxPause = 0
    Stamps = {s1}
    Fetched = Fetched
    Foreign = Foreign
    Record = Record
    MaxHeight = 2
    LostAck = TRUE
SYMMETRY Symmetry
INVARIANTS
    BootTypeOK
    OkTipsAreOnTheBranch
    NoLeakedLock
    LockCoversCreation
CHECK_DEADLOCK FALSE
