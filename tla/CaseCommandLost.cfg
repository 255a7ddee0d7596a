SPECIFICATION Spec
CONSTANTS
    Perturbations <- EarlyStep
    Commands <- Everyone
    MaxAbnormal = 2
    MaxRequests = 2
    Workers = {w1}
    Steps = 1
CHECK_DEADLOCK FALSE
PROPERTY OnlyExecutedIsCleared
