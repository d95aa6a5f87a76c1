SPECIFICATION MCSpec
CONSTANTS
    Volumes = {30, 100}
    Orders = {1, 2}
    Durations = {2, 5, 7}
    MinDuration = 3
    PendingMax = 2
    Envs <- AllEnvs
    Works = {1, 2, 3}
    Executing = 3
    Settings = {s1, s2}
    Blank = blank
    Slow = TRUE
    MaxChanges = 5
    MaxLinks = 3
    CacheSize = 2
    NoFrame = NoFrame
    Fits = 3
    Scenes <- AllScenes

INVARIANTS SettingsTyped VolumeFollows RecordingIsThere WorkFollows ModeFollows
           StrategyIsOfShownMode MusicFollows DisplayFollows DeletedWasRead
           NoRecordsIsTrue
PROPERTIES RecordsReachApp
CHECK_DEADLOCK FALSE
