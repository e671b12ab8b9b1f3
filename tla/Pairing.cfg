CONSTANT MaxFaults = 3
SPECIFICATION FairSpec
INVARIANTS
    TypeOK
    NoStaleQR
    NoDeadAttempt
PROPERTIES
    
    ShowsQR
