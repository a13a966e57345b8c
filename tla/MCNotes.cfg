SPECIFICATION Spec
CONSTANTS
    a = a
    b = b
    t1 = t1
    t2 = t2
    t3 = t3
    s1 = s1
    s2 = s2
    x = x
    y = y
    Calls = {a, b}
    Targets = {t1, t2, t3}
    Shards = {s1, s2}
    ShardOf <- MCShardOf
    Contents = {x, y}
    Garbage = Garbage
    Absent = Absent
    Stamps = {0}
    User = User
    MaxAttempts = 2
    MaxEdits = 1
    LostAck = TRUE
SYMMETRY NoteSymmetry
INVARIANTS
    AckedNoteIsInHistory
    ListAgreesWithRead
    NoSecondPublishInARow
PROPERTIES OtherNotesSurvive
CHECK_DEADLOCK FALSE
