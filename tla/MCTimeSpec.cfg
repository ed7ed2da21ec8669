SPECIFICATION AddTimeSpec
CONSTANTS
    Second = 10
    MilliSecond = 3
    MaxSecs = 2
    MaxTimeout = 12
INVARIANTS
    DeadlineExact
