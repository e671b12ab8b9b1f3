CONSTANTS
    Sides = {"them"}
    Last = 1
    MaxSyncs = 1
    MaxFaults = 0
    MaxRestarts = 0
SPECIFICATION Spec
CHECK_DEADLOCK FALSE
PROPERTY WithItsMessage
