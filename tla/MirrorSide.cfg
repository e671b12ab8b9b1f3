CONSTANTS
    Last = 2
    MaxSyncs = 1
    MaxFaults = 0
    MaxRestarts = 0
SPECIFICATION Spec
CHECK_DEADLOCK FALSE
INVARIANT TailSide
