SPECIFICATION FairRxSpec
CONSTANTS
    BufSize = 11
    Lengths = {0}
    MaxPayload = 1
    DataValues = {85}
    NoiseValues = {1, 85, 170}
    MaxFrames = 3
    MaxNoise = 4
    MaxOverruns = 1
    MaxSent = 6
INVARIANTS IntactIsKept InOrderOnce
PROPERTIES LineKeepsOrder FrameIsServed
CHECK_DEADLOCK FALSE
