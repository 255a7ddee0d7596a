SPECIFICATION FairSpec
CONSTANTS
    Names <- TwoMachines
    MaxPolls = 3
    MaxTries = 2
    Perturbations <- Everything
INVARIANTS PassedIsReal RefusalsAreForetold
PROPERTIES TestEnds EveryStepCounts
CHECK_DEADLOCK FALSE
