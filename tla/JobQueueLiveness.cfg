\* One worker process: the contract and the settling of every job.
SPECIFICATION FairSpec
CONSTANTS
    j1 = j1
    j2 = j2
    w1 = w1
    w2 = w2
    p1 = p1
    NoJob = NoJob
    Jobs <- TwoJobs
    Poison <- OnePoison
    Producers <- OneProducer
    Workers <- OneWorker
    MaxAttempts = 2
    QueueBound = 2
    MaxFaults = 1
    FaultKinds <- SurvivableFaults
    LateRestart = TRUE
PROPERTIES
    ImplementsContract
    EventuallySettled
