SPECIFICATION FairSpec
CONSTANTS
    Handlers = {h1, h2}
    Cases = {u1, u2}
    MaxRunners = 1
    Commands <- PauseResume
    MaxRequests = 3
    Defects <- Where
    Overtime = {u1}
    Disturbed = FALSE
INVARIANTS QuotaKept OneCommandAtATime LockHeldInside
PROPERTY RequestsEnd
CHECK_DEADLOCK FALSE
