CONSTANTS
    TimerId = {i1, i2}
    Undecodable = {}
    MaxConcurrent = 1
    Base = 0
SPECIFICATION FairSpec
PROPERTIES
    YieldsWhenSaturated
