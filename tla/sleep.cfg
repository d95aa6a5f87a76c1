SPECIFICATION FairSpec
CONSTANTS
    KeyDebounce = 1
    KeyDelay = 3
    LowDelay = 5
    SocWait = 4
    Wrap = 8

INVARIANTS
    NoNewConnection
    PressIsReal
PROPERTIES SleepComes LowBatterySleeps
