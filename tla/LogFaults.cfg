SPECIFICATION FairSpec
CONSTANTS
    MaxPieces = 6
    MaxStored = 3
    MaxBroken = 1
    PageSize = 2
    ArchiveLines = 2
    Perturbations <- Failures
INVARIANTS NoGaps LogIsComplete ReadsTheLog
PROPERTY ReadsItAll
CHECK_DEADLOCK FALSE
