CONSTANTS
    None = None
    Timer = timer
    TimerId = {timer}
    Payload <- Payloads
    Task = {t1, t2}
    LeaseTtl = 2
    ActivateIn = {0, 2}
    Horizon = 2
    MaxLate = 2
SPECIFICATION FairSpec
INVARIANTS
    TypeOK
PROPERTIES
    Redelivered
    EventuallyGone
    ReadableIsHandled
