\* the audio player, which a seek flushes but does not reset.
SPECIFICATION Spec
CONSTANTS
    Kind = "audio"
    MaxPackets = 4
    Size <- MCSize
    MaxCache = 3
    MaxSeeks = 2
    MaxFailures = 0
PROPERTIES
    AudioNeverStale
