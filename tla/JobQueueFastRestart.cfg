\* One worker process killed once and restarted at once.
SPECIFICATION FairSpec
CONSTANTS
    j1 = j1
    j2 = j2
    w1 = w1
    w2 = w2
    p1 = p1
    NoJob = NoJob
    Jobs <- OneJob
    Poison = {}
    Producers <- OneProducer
    Workers <- OneWorker
    MaxAttempts = 2
    QueueBound = 2
    MaxFaults = 1
    FaultKinds <- OnlyCrash
    LateRestart = FALSE
PROPERTIES
    EventuallySettled
