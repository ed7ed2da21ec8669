SPECIFICATION Spec
CONSTANTS
    Buffer = {b1, b2}
    NoBuffer = NoBuffer
    MaxFrame = 1
    MaxPending = 0
    Errors = {"corrupt"}
    Late = {}
    Rejects = FALSE
INVARIANT
    AssertHolds
