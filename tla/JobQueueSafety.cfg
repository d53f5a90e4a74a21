\* Two worker processes racing for one job, with up to two faults of any kind.
SPECIFICATION Spec
CONSTANTS
    j1 = j1
    j2 = j2
    w1 = w1
    w2 = w2
    p1 = p1
    NoJob = NoJob
    Jobs <- OneJob
    Poison = {}
    Producers <- OneProducer
    Workers <- TwoWorkers
    MaxAttempts = 2
    QueueBound = 1
    MaxFaults = 2
    FaultKinds <- AllFaults
    LateRestart = FALSE
SYMMETRY WorkerSymmetry
INVARIANTS
    TypeOK
    NoPhantomIds
    CompletedWasHandled
    NotifiedAtMostOnce
    DeadOnlyWhenExhausted
