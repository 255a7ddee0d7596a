SPECIFICATION FairSpec
CONSTANTS
    Cases = {u1, u2}
    MaxCommands = 1
    Frail = {u1, u2}
    Perturbations <- Disturbed
INVARIANTS OnlyOverLeave FoundUnlessShrunk
PROPERTY EndedLeave
CHECK_DEADLOCK FALSE
