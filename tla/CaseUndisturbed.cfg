SPECIFICATION FairSpec
CONSTANTS
    Perturbations <- EarlyStep
    Commands <- PauseAndResume
    MaxAbnormal = 2
    MaxRequests = 2
    Workers = {w1, w2}
    Steps = 2
CHECK_DEADLOCK FALSE
PROPERTIES CaseEnds SyncReturns
