CONSTANTS
    None = None
    TimerId = {u1, g1, g2, blank}
    Payload = {p1, p2}
    Prefix = {"", "a", "ab"}
    BrokerPrefix = ""
    Topic = {"", "x", "bx", "abx"}
    EmptyTopic = ""
    FullTopic <- Concatenation
    Publisher <- RouterPublishers
    Subscribers <- RouterSubscribers
    Blank = blank
    Generated = {g1, g2}
    Delay = {0, 1}
    AwareTime = {2}
    Naive = naive
    MaxTime = 1
SPECIFICATION Spec
CHECK_DEADLOCK FALSE
INVARIANTS
    TypeOK
    PublishedStays
    UndoneIsGone
    InspectionAgrees
    TestsTell
