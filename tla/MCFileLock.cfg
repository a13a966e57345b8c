SPECIFICATION FairLockSpec
CONSTANTS
    a = a  b = b  c = c
    P = P  Q = Q  R = R
    Tasks = {a, b, c}
    Procs = {P, Q, R}
    ProcOf <- MCProcOf
    PidOf <- MCPidOf
    NoPid = 0
    NoFile = NoFile
    MaxPolls = 2
    MaxCalls = 1
    Grace = 2  MaxPause = 1
INVARIANTS
    HolderOwnsFile
    StaleIsNotHeld
PROPERTIES
    OthersFilesStay
    ImplementsMutex
    AcquireReturns
CHECK_DEADLOCK FALSE
