\* every input of up to three channels and the usual ones of up to eight, into every layout.
SPECIFICATION Spec
CONSTANTS
    ChanMaps <- AllMaps
    Layouts = {"2.0", "3.1", "4.0", "7.1"}
INVARIANTS
    FindsAll
    Balanced
CHECK_DEADLOCK FALSE
