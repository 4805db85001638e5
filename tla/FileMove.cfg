SPECIFICATION Spec
CONSTANTS
    MaxNum = 3
    Contents = {mine, theirs}
    Approved = mine
    Nothing = nothing
    Half = half
    PersonActs = "betweenRuns"
    MaxHands = 2
    MaxCrashes = 2
INVARIANTS
    TypeOK
    NoHalfFile
    ExactlyOnce
    TempsCleared
PROPERTIES
    RecordIsTrue
    LandedIsNotMissing
    Implements
