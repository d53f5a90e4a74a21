SPECIFICATION FairSpec
CONSTANTS
    c1 = c1
    c2 = c2
    t1 = t1
    t2 = t2
    err = err
    diff = diff
    model = model
    old = old
    a1 = a1
    a2 = a2
    ev = ev
    None = None
    Calls = {c1, c2}
    Requests <- MCRequests
    Config <- MCConfig
    ProvidersOf <- MCProvidersOf
    ApprovalRequired = {"cheap-cloud", "strong"}
    Deterministic = {"regex"}
    LocalTasks = {"classification"}
    External <- MCExternal
    History <- MCHistory
    MaxEvents <- MCMaxEvents
    MaxFaults = 1
INVARIANTS
    TypeOK
PROPERTIES
    InvokedWasAudited
    RevocationRespected
    StopsRepeating
    EscalationHasCause
    EvaluationsAnswered
CHECK_DEADLOCK FALSE
