CONSTANTS
    Rows = {1, 2}
    Ids = {i1, i2}
    NoID = NoID
    MaxAttempts = 2
    MaxFaults = 1
    MaxRestarts = 1
    StallPoints = {}
SPECIFICATION FairSpec
CHECK_DEADLOCK FALSE
INVARIANTS
    TypeOK
    AtMostOnce
    SentWasShown
    MirrorFollowsStamp
    NoStrandedRow
PROPERTIES
    AckedIsFinished
    PacedInProcess
    KeepsPromise
    Drains
