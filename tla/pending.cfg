SPECIFICATION FairSpec
CONSTANTS
    PendingMax = 2
    SeqMod = 3
    CmdIds = {c1, c2}
    RspTimeout = 1
    LoopTicks = 1
    MaxLate = 2
    MaxBurst = 1
    MaxIssued = 5
    NoEntry = NoEntry
INVARIANTS OwnAnswers NoOverdueRequest
PROPERTIES OneShot RequestsClose
