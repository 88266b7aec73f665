CONSTANTS
    i1 = i1  i2 = i2  p1 = p1  p2 = p2  w1 = w1  w2 = w2  t1 = t1  t2 = t2
    None = None
    TimerId = {i1}
    Payload = {p1, p2}
    IdOf <- SharedId
    Corrupt = {}
    Worker = {w1}
    Task = {t1, t2}
    WorkerOf <- OneWorker
    Skew <- InStep
    LeaseTtl = 2
    CommandTimeout = 1
    HandlerMax = 1
    ActivateAt = {0}
    Evictable = FALSE
    MaxTime = 2
    MaxLate = 0
SPECIFICATION Spec
CHECK_DEADLOCK FALSE
INVARIANTS
    NoTimerLost
