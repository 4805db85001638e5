SPECIFICATION FairSpec
CONSTANTS
    N = 2
    MaxNum = 2
    Bases <- TwoBases
    SrcOf <- TwoSrc
    DestOf <- TwoDest
    Quarantines = {}
    Filings = {1, 2}
    Restores = {}
    Crosses = {1}
    Coherent = FALSE
    Settles = FALSE
    RowsAtDest = {1}
    MaxCrashes = 2
    MaxHands = 1
INVARIANTS
    TypeOK
    JournalledOnce
    NoFalseRecord
    JournalAgrees
PROPERTIES
    ClaimsSurvive
    Finishes
