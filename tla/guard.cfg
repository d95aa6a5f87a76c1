SPECIFICATION MCSpec
CONSTANTS
    ReportSamples = 3
    DebounceSamples = 2
    MaxRestarts = 1
    Top = 3
    Fixed = 1
    StepReports = 2
    StableReports = 1
    Round = 3
    Targets = {0, 1, 3}
    Low = 1
    Uses <- AllUses

INVARIANTS HeatEndsCharge ResumesOnlyCool TemperatureIsReached ChargeIsRounded
PROPERTIES CoolResumes StepsAreEarned LevelSettles
