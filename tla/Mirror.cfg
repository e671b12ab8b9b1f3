CONSTANTS
    Last = 3
    MaxSyncs = 1
    MaxFaults = 1
    MaxRestarts = 1
SPECIFICATION Spec
CHECK_DEADLOCK FALSE
INVARIANTS
    TypeOK
    TailIsNewest
    
PROPERTY NoWayBack
