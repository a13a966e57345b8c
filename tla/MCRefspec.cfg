SPECIFICATION FairSpec
CONSTANTS
    a = a
    b = b
    Calls = {a, b}
    Nobody = Nobody
    Gone = Gone
    MaxEdits = 1
INVARIANTS
    LockCoversWrites
    OkMeansConfigured
    RefusalsWriteNothing
    OneExclusion
PROPERTIES
    UserLinesStay
    UnknownValuesStay
    ApplyReturns
CHECK_DEADLOCK FALSE
