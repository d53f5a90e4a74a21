\* A cloud call and a local retry of one task, on two days.
SPECIFICATION Spec
CONSTANTS
    r1 = r1
    r2 = r2
    t1 = t1
    d1 = d1
    d2 = d2
    m1 = m1
    NoDay = NoDay
    Reservations <- TwoReservations
    Tasks <- OneTask
    Providers <- TwoProviders
    Days <- TwoDays
    Task <- SameTask
    Provider <- CloudAndLocal
    Cloud <- CloudProviders
    Automatic <- TwoReservations
    Eligible <- TwoReservations
    Reserved <- Estimates
    Month <- SameMonth
    Ceilings <- Tight
    MaxAmount = 1
INVARIANTS
    TypeOK
    LedgerReplayable
    MemoryIsLedger
    LimitsHold
    BilledWasReserved
    HoldsHaveOwners
