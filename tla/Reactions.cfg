CONSTANTS
    Sides = {"us", "them"}
    Last = 2
    MaxSyncs = 1
    MaxFaults = 1
    MaxRestarts = 1
SPECIFICATION Spec
CHECK_DEADLOCK FALSE
INVARIANTS
    TypeOK
    OneReaction
    LastReactionCounts
    ChipsRefresh
