\* Three deliveries competing for capacity, one person sending a newer CV,
\* failures, one restart.
SPECIFICATION SpecKept
CONSTANTS
    MaxCvs = 3
    MaxDrops = 3
    Capacity = 2
    InitialDeep = 2
    Tranche = 1
    MaxAttempts = 1
    MaxRestarts = 1
    MaxBatches = 5
    Person <- Resent
    Address <- ResentPlain
INVARIANTS
    QueueIsSound
PROPERTIES
    FailedSessionRests
    ImplementsBilling
CHECK_DEADLOCK FALSE
