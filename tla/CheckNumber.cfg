CONSTANTS
    Callers = {"a", "b", "c"}
    MaxStops = 1
SPECIFICATION Spec
CHECK_DEADLOCK FALSE
INVARIANTS
    TypeOK
    
    LoneIsAnswered
