SPECIFICATION FairSpec
CONSTANTS
    N = 2
    MaxNum = 2
    Bases <- SwapBases
    SrcOf <- SwapSrc
    DestOf <- SwapDest
    Quarantines = {1}
    Filings = {2}
    Restores = {2}
    Crosses = {1, 2}
    Coherent = TRUE
    Settles = TRUE
    RowsAtDest = {}
    MaxCrashes = 2
    MaxHands = 2
INVARIANTS
    NoFileLost
    IndexFollows
    AllOrNothingUnkilled
    FollowedUp
PROPERTIES
    FinishesUntouched
