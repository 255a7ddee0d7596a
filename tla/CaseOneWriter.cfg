SPECIFICATION Spec
CONSTANTS
    Perturbations <- OneWriter
    Commands <- Everyone
    MaxAbnormal = 2
    MaxRequests = 3
    Workers = {w1}
    Steps = 1
CHECK_DEADLOCK FALSE
INVARIANTS TypeOK CollectAfterUpload PausedIsParked
PROPERTY ImplementsStatus
