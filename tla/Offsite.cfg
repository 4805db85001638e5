SPECIFICATION Spec
CONSTANTS
    Items = {original, result}
    MaxVersion = 1
    MaxEdits = 2
    MaxAttempts = 2
    MaxUpsets = 1
    MaxSends = 1
INVARIANTS
    TypeOK
    OneWaiting
    OnlyOurDrive
PROPERTIES
    DoneWasSent
    CommittedIsSettled
    DriveIsCompared
CHECK_DEADLOCK FALSE
