\* The same with CVs being removed by the recruiter.
SPECIFICATION Spec
CONSTANTS
    MaxCvs = 3
    MaxDrops = 2
    Capacity = 3
    InitialDeep = 1
    Tranche = 1
    MaxAttempts = 1
    MaxRestarts = 0
    MaxBatches = 4
    Person <- Resent
    Address <- ResentPlain
INVARIANTS
    NobodyIsHidden
PROPERTIES
    RanksAreAhead
CHECK_DEADLOCK FALSE
