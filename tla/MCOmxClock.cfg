SPECIFICATION Spec
CONSTANTS
    Window = 2
    MaxMedia = 4
    HasVideo = TRUE
    HasAudio = TRUE
    MayFail = TRUE
INVARIANTS
    BeliefsTrue
    TimesNear
