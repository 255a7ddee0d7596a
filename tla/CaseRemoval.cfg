SPECIFICATION FairSpec
CONSTANTS
    Perturbations <- Uninstallable
    Commands <- PauseAndCancel
    MaxAbnormal = 1
    MaxRequests = 1
    Workers = {w1}
    Steps = 1
CHECK_DEADLOCK FALSE
INVARIANTS NoOrphanPod RunnerIsKnown
PROPERTY QueueDrains
