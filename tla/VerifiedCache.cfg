SPECIFICATION Spec
CONSTANTS
    r1 = r1
    r2 = r2
    c1 = c1
    c2 = c2
    m1 = m1
    v1 = v1
    v2 = v2
    None = None
    testsFail = testsFail
    timeOut = timeOut
    Runtimes = {r1, r2}
    Calls = {c1, c2}
    Metas = {m1}
    Results = {v1}
    Cacheable = {testsFail}
    Transient = {timeOut}
    MaxEntries = 4
    MaxFaults = 1
    RuntimeOf <- MCRuntimeOf
    Current <- MCCurrent
    Proofs <- MCProofs
    Sensitive <- MCSensitive
INVARIANTS
    TypeOK
    OneOutcomeServed
    ServedWasPublished
    QueueHasWriter
CHECK_DEADLOCK FALSE
