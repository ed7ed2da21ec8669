\* the video chain, deinterlaced or not, and the audio chain with every output device:
\* two faults, three wirings, one change of format.
SPECIFICATION Spec
CONSTANTS
    Devices = {"none", "anal", "hdmi", "both"}
    Interlaced = {TRUE, FALSE}
    MaxFaults = 2
    MaxAttempts = 3
    MaxChanges = 1
INVARIANTS
    WiringWorks
    Wired
    NothingLeft
PROPERTIES
    TunnelsDownFirst
CHECK_DEADLOCK FALSE
