SPECIFICATION Spec
CONSTANTS
    Clients = {a, b}
    None = None
    Perturbations <- Late
PROPERTY ReleasesOwn
CHECK_DEADLOCK FALSE
