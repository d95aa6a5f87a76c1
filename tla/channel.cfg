SPECIFICATION Spec
CONSTANTS
    volume = volume
    reward = reward
    uid = uid
    record_get = record_get
    other = other
    Forwarded = {volume}
    Immediate = {reward}
    UidGet = uid
    RecordGet = record_get
    Unknown = {other}
    SeqMod = 3
    CacheSize = 2
    PendingMax = 2
    RspTimeout = 1
    HbTimeout = 1
    RecordEntries = 1
    Apps <- AllApps
    NoFrame = NoFrame

INVARIANTS RecordAnswersOwn EchoOwn AtMostOnce RefusedStaysRefused
           BusyIsBrief
