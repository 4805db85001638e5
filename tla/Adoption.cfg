SPECIFICATION Spec
CONSTANTS
    Sources = {film, song}
    SamePath = {film}
    MaxJobs = 2
    MaxEncoders = 2
    MaxUpsets = 1
    MaxPlans = 2
    MaxBeside = 1
INVARIANTS
    TypeOK
    OneActive
    RunningIsBacked
    VerifiedOnly
    NeitherVersionNever
    JournalIsDisk
    FailedStandsOnNothing
PROPERTY RunningSettles
CHECK_DEADLOCK FALSE
