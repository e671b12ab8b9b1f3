CONSTANTS
    Origins = {"theirs", "bridge"}
    Schemas = {{"location"}, {"quotes", "location", "edits"}}
    MaxSyncs = 1
    MaxFaults = 1
SPECIFICATION Spec
CHECK_DEADLOCK FALSE
INVARIANTS
    TypeOK
    UrlIsServed
    RightFeatureOff
    NeitherTextLost
    StatusIsHighest
    
PROPERTY StoredInFull
