\* two buffers, every late answer and refusal, and errors.
SPECIFICATION FairSpec
CONSTANTS
    Buffer = {b1, b2}
    NoBuffer = NoBuffer
    MaxFrame = 2
    MaxPending = 0
    Errors = {"corrupt"}
    Late = {"get", "await", "inputDone"}
    Rejects = TRUE
INVARIANTS
    BuffersConserved
    EventsMatched
    TeardownClean
PROPERTIES
    ImplementsPool
    ClientReturns
