\* Liveness: two deliveries, retried batches, one restart.
SPECIFICATION FairSpecKept
CONSTANTS
    MaxCvs = 2
    MaxDrops = 2
    Capacity = 2
    InitialDeep = 1
    Tranche = 1
    MaxAttempts = 2
    MaxRestarts = 1
    MaxBatches = 3
    Person <- Everyone
    Address <- Everybody
PROPERTIES
    QueueGoesOn
CHECK_DEADLOCK FALSE
