\* One checkout and its events, delivered by two requests at a time; the
\* payment event names no amount.  An admin.
SPECIFICATION FairSpec
CONSTANTS
    u1 = u1
    p1 = p1
    bare = bare
    wrong = wrong
    ended = ended
    other = other
    d1 = d1
    d2 = d2
    NoEvent = NoEvent
    Users <- OneUser
    Payments <- OnePayment
    Events = {bare, wrong, ended, other}
    Deliveries <- TwoDeliveries
    Owner <- OwnerOf
    EventType <- TypeOf
    PaymentOf <- SamePayment
    PriceIn <- Named
    MaxFaults = 1
    MaxOverrides = 1
INVARIANTS
    TypeOK
    ActiveWasPaid
    AppliedOnce
    RecordedPaymentApplied
    StateNotified
    AlertsWerePaid
PROPERTIES
    EventuallyRecorded
