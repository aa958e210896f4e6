\* One pile, batches that are tried twice, one crash, between any two
\* transactions or in the middle of a sweep.
SPECIFICATION SpecCrash
CONSTANTS
    MaxCvs = 3
    MaxDrops = 1
    Capacity = 3
    InitialDeep = 2
    Tranche = 1
    MaxAttempts = 2
    MaxRestarts = 1
    MaxBatches = 4
    Person <- Everyone
    Address <- Everybody
INVARIANTS
    PileIsSound
CHECK_DEADLOCK FALSE
