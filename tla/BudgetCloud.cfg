\* Two cloud calls, one of them not automatic, on two days.
SPECIFICATION FairSpec
CONSTANTS
    r1 = r1
    r2 = r2
    t1 = t1
    d1 = d1
    d2 = d2
    m1 = m1
    NoDay = NoDay
    Reservations <- TwoReservations
    Tasks <- OneTask
    Providers <- TwoProviders
    Days <- TwoDays
    Task <- SameTask
    Provider <- AllCloud
    Cloud <- CloudProviders
    Automatic <- OneAutomatic
    Eligible <- TwoReservations
    Reserved <- Estimates
    Month <- SameMonth
    Ceilings <- TightDay
    MaxAmount = 1
INVARIANTS
    LimitsHold
    AutomaticOnlyWhenClean
PROPERTIES
    CallsFinish
