\* the video player: two seeks, two failing decodes.
SPECIFICATION FairSpec
CONSTANTS
    Kind = "video"
    MaxPackets = 4
    Size <- MCSize
    MaxCache = 3
    MaxSeeks = 2
    MaxFailures = 2
INVARIANTS
    PacketsAccounted
    NoDecodeAfterDelete
    NoLostWakeup
PROPERTIES
    VideoNeverDropsFresh
    ImplementsPipe
    FlushReturns
    ThreadEnds
