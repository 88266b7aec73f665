CONSTANTS
    Subscribers <- TwoSubscribers
    Own = {"first", "third"}
    Handling = {"first", "second"}
    MaxHandlers = 1
SPECIFICATION Spec
CHECK_DEADLOCK FALSE
INVARIANTS
    PingSeesDeadPollers
