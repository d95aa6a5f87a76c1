SPECIFICATION FairSpec
CONSTANTS
    HbPeriod = 1
    HbTimeout = 2
    SyncCount = 2
    LoopTicks = 1
    MinBoot = 4
    MaxLosses = 1
    MaxSets = 3
    MaxFaults = 3

INVARIANTS FlashHoldsSwitch WrongSocIsTold
PROPERTY SocAgrees
