SPECIFICATION FairSpec
CONSTANTS
    Profiles = {0, 1, 7}
    Durations = {0, 1, 2, 5}
    EmitLimit = 2
    AppCommands = {"POWER_ON", "POWER_OFF", "TRANS_ON", "TRANS_OFF", "EMIT_ON", "EMIT_OFF"}
    LoopTicks = 2
    MaxRequests = 7
INVARIANTS EmissionBounded
PROPERTY EmissionEnds
