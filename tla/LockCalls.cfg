SPECIFICATION FairSpec
CONSTANTS
    Clients = {a, b}
    None = None
    Perturbations <- InTime
INVARIANT MutualExclusion
PROPERTIES ImplementsAtomic DeadLockFreed
CHECK_DEADLOCK FALSE
