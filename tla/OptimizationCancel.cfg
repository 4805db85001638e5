SPECIFICATION OSpec
CONSTANTS
    Sources = {film}
    MaxJobs = 1
    MaxEncoders = 1
    MaxUpsets = 0
PROPERTY CancelledIsStopped
CHECK_DEADLOCK FALSE
