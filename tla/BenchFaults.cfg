SPECIFICATION FairSpec
CONSTANTS
    Rates <- UpTo130
    Threads <- UpTo3
    Sessions <- UpTo3
    Engines <- TwoEngines
    Followed <- TwoThreads
    Workers = {w1, w2}
    ChanSize = 1
    MaxExecs = 10
    Perturbations <- Unready
INVARIANTS LimiterWorks RateKept StartedTogether 
PROPERTIES WorkersGoOn EndsOnTime
CHECK_DEADLOCK FALSE
