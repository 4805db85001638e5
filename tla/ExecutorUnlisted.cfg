SPECIFICATION Spec
CONSTANTS
    N = 1
    MaxNum = 2
    Bases <- OneBases
    SrcOf <- OneSrc
    DestOf <- OneDest
    Quarantines = {1}
    Filings = {}
    Restores = {}
    Crosses = {}
    Coherent = FALSE
    Settles = FALSE
    RowsAtDest = {}
    MaxCrashes = 1
    MaxHands = 0
INVARIANTS
    SetAsideIsListed
