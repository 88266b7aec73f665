CONSTANTS
    i1 = i1  i2 = i2  p1 = p1  p2 = p2  w1 = w1  w2 = w2  t1 = t1  t2 = t2
    None = None
    TimerId = {i1}
    Payload = {p1, p2}
    IdOf <- SharedId
    Corrupt = {}
    Worker = {w1, w2}
    Task = {t1, t2}
    WorkerOf <- TwoWorkers
    Skew <- FastClock
    LeaseTtl = 4
    CommandTimeout = 1
    HandlerMax = 1
    ActivateAt = {1, 2}
    Evictable = FALSE
    MaxTime = 5
    MaxLate = 1
SPECIFICATION Spec
SYMMETRY PublicationSymmetry
CHECK_DEADLOCK FALSE
INVARIANTS
    DeliveryInv
    OnlySettledIdsVanish
    NeverEarly
    Exclusive
    HiddenWhileRunning
PROPERTIES
    ClaimsApart
    GoneForGood
