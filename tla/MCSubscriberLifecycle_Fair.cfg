CONSTANTS
    Subscribers <- ThreeSubscribers
    Own = {"first", "third"}
    Handling = {"first", "second"}
    MaxHandlers = 2
SPECIFICATION FairSpec
CHECK_DEADLOCK FALSE
INVARIANTS
    LifecycleInv
    FailedStartIsClean
PROPERTIES
    StartSettles
    StoppedPollerEnds
