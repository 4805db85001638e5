SPECIFICATION Spec
CONSTANTS
    N = 2
    MaxNum = 2
    Bases <- SwapBases
    SrcOf <- SwapSrc
    DestOf <- SwapDest
    Quarantines = {1}
    Filings = {2}
    Restores = {2}
    Crosses = {}
    Coherent = TRUE
    Settles = TRUE
    RowsAtDest = {}
    MaxCrashes = 1
    MaxHands = 1
INVARIANTS
    AllOrNothing
