SPECIFICATION Spec
CONSTANTS
    Files <- Media
    Slack = 2
    MaxTime = 4
    MaxStreams = 5
    Slow = TRUE
INVARIANTS
    NothingHeld
    NoGaps
    OrderKept
    StreamsConsistent
