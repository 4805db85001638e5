SPECIFICATION Spec
CONSTANTS
    Files = {fileA, fileB}
    Filed = {placeA, placeB}
    Held = {quarantine}
    MaxNum = 2
    Nothing = nothing
    Foreign = foreign
    MaxPlans = 2
    MaxPresses = 2
    MaxCrashes = 0
    MaxHands = 0
    MaxOutside = 0
SYMMETRY Alike
CHECK_DEADLOCK FALSE
INVARIANTS
    HeldIsInQuarantine
