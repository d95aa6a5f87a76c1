SPECIFICATION Spec
CONSTANTS
    ReportSamples = 3
    DebounceSamples = 2
    MaxRestarts = 0

INVARIANT BurningIsOff
