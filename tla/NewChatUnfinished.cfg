CONSTANTS
    Rows = {1}
    Ids = {i1, i2}
    NoID = NoID
    MaxAttempts = 2
    MaxFaults = 1
    MaxRestarts = 0
    StallPoints = {}
SPECIFICATION Spec
CHECK_DEADLOCK FALSE
INVARIANT UnfinishedIsRetried
