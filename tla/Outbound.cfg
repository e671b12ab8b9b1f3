CONSTANTS
    Rows = {1, 2, 3}
    Reacts = {2}
    BatchSize = 2
    MaxAttempts = 2
    ChatKnown = TRUE
    MaxFaults = 2
SPECIFICATION FairSpec
CHECK_DEADLOCK FALSE
INVARIANTS
    TypeOK
    RepeatsHaveCause
    SentWasShown
    NoStrandedRow
    UiSeesMessage
PROPERTIES
    InOrder
    Drains
