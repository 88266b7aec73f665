CONSTANTS
    TimerId = {i1, i2, raw}
    Undecodable = {raw}
    MaxConcurrent = 2
    Base = 1
SPECIFICATION FairSpec
INVARIANTS
    TypeOK
    BoundedTasks
    FetchFits
PROPERTIES
    LoopAlive
    BackPressureEnds
    DueIsServed
