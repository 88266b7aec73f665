CONSTANTS
    Base = 1
    MaxIdle = 100
    MaxErrorDelay = 600
    Second = 20
    MaxExponent = 12
    Jitter = {1, 2, 3}
    JitterUnit = 2
    MaxStreak = 14
SPECIFICATION Spec
INVARIANTS
    TypeOK
    CountersAreStreaks
    SleepsAreCapped
    OnlyWorkSkipsSleep
