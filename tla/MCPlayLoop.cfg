\* six frames, one without a player, in queues of one and decoders of two; two keys at any moment; a source
\* that may refuse to seek, seeks beyond the end, and components that refuse the end of the stream.
SPECIFICATION FairSpec
CONSTANTS
    File <- SoundEndsEarly
    Player = {"vid", "aud"}
    Cache = 1
    Room = 2
    CanSeek = {TRUE, FALSE}
    PastEnd = TRUE
    Refuse = TRUE
    Keys = {"pause", "seek", "enter"}
    MaxKeys = 2
INVARIANTS
    OneOwner
    FreshAfterSeek
    ClockRestarted
    LossExplained
PROPERTIES
    PlayersArePipes
    
