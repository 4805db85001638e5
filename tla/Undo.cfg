SPECIFICATION Spec
CONSTANTS
    Files = {fileA, fileB}
    Filed = {placeA, placeB}
    Held = {quarantine}
    MaxNum = 2
    Nothing = nothing
    Foreign = foreign
    MaxPlans = 2
    MaxPresses = 3
    MaxCrashes = 1
    MaxHands = 1
    MaxOutside = 2
SYMMETRY Alike
CHECK_DEADLOCK FALSE
INVARIANTS
    TypeOK
    JournalKnows
    StandingHolds
    IndexKnows
    ListedWhileHeld
PROPERTIES
    TrueReversal
    NewerStandsOnce
