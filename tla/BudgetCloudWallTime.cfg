\* Cloud calls report their latency as local wall-time.
SPECIFICATION Spec
CONSTANTS
    r1 = r1
    r2 = r2
    t1 = t1
    d1 = d1
    d2 = d2
    m1 = m1
    NoDay = NoDay
    Reservations <- TwoReservations
    Tasks <- OneTask
    Providers <- TwoProviders
    Days <- OneDay
    Task <- SameTask
    Provider <- AllCloud
    Cloud <- CloudProviders
    Automatic <- TwoReservations
    Eligible <- TwoReservations
    Reserved <- Estimates
    Month <- SameMonth
    Ceilings <- Tight
    MaxAmount = 1
INVARIANTS
    OverrunIsReal
