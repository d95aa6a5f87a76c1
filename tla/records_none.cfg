SPECIFICATION RecordsSpec
CONSTANTS
    CacheSize = 2
    NoFrame = NoFrame
    Fits = 3
    Scenes <- RepeatingScenes

INVARIANTS NoneMeansNone
CHECK_DEADLOCK FALSE
