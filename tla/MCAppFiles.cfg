\* up to three files, one or more of them recorded in the meantime, two keys of any kind at any moment.  The play thread ends, or is lost in the list.
SPECIFICATION FairSpec
CHECK_DEADLOCK FALSE
CONSTANTS
    First = 3
    MaxFiles = 3
    Keys = {"prev", "next", "enter", "exit"}
    MaxKeys = 2
INVARIANTS
    InRange
    NoneSkipped
PROPERTIES
    ExitSeen
