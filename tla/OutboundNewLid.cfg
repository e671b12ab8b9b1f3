CONSTANTS
    Rows = {1}
    Reacts = {}
    BatchSize = 2
    MaxAttempts = 2
    ChatKnown = FALSE
    MaxFaults = 0
SPECIFICATION Spec
CHECK_DEADLOCK FALSE
INVARIANT UiSeesMessage
