SPECIFICATION FairBootSpec
CONSTANTS
    a = a  b = b  c = c
    P = P  Q = Q
    Tasks = {a, b}
    Procs = {P}
    ProcOf <- LiveProcOf
    PidOf <- MCPidOf
    NoPid = 0
    NoFile = NoFile
    MaxPolls = 1
    MaxCalls = 2
    Grace = 0  MaxPause = 2
    Stamps = {s1}
    Fetched = Fetched
    Foreign = Foreign
    Record = Record
    MaxHeight = 2
    LostAck = TRUE
PROPERTIES
    EnsureReturns
CHECK_DEADLOCK FALSE
