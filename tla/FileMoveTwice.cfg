SPECIFICATION Spec
CONSTANTS
    MaxNum = 3
    Contents = {mine}
    Approved = mine
    Nothing = nothing
    Half = half
    PersonActs = "never"
    MaxHands = 0
    MaxCrashes = 1
INVARIANTS
    NoSecondCopy
