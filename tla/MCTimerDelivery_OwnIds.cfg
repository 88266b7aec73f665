CONSTANTS
    i1 = i1  i2 = i2  p1 = p1  p2 = p2  w1 = w1  w2 = w2  t1 = t1  t2 = t2
    None = None
    TimerId = {i1, i2}
    Payload = {p1, p2}
    IdOf <- OwnIds
    Corrupt = {p2}
    Worker = {w1}
    Task = {t1, t2}
    WorkerOf <- OneWorker
    Skew <- InStep
    LeaseTtl = 2
    CommandTimeout = 1
    HandlerMax = 1
    ActivateAt = {0}
    Evictable = TRUE
    MaxTime = 2
    MaxLate = 1
SPECIFICATION Spec
CHECK_DEADLOCK FALSE
SYMMETRY TaskSymmetry
INVARIANTS
    TypeOK
    NoTimerLost
    KeysCoupled
PROPERTIES
    KeepsPromise
