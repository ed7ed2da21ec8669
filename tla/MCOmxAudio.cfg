\* four kinds of packets, two of them in a row, a flush, an end of stream and two changes of
\* the volume at any moment, any call failing.
SPECIFICATION FairSpec
CONSTANTS
    Buffers = 2
    BufferSize = 2
    Packets <- Music
    MaxPackets = 2
    MaxFlushes = 1
    Volumes = {1, 2}
    MayFail = TRUE
INVARIANTS
    TimesIncrease
    FramesFresh
    StartFirst
    VolumeBelieved
PROPERTIES
    DecodeReturns
