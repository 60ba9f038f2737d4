SPECIFICATION EventSpec
CONSTANTS
    Keys = {a, b, c}
    Window = 2
    Threshold = 2
    NoKey = NoKey
    NotQueued = NotQueued
    Callers = {w1, w2}
    Files = {f1, f2}
    retryAttempts = 2
    Room = 1
    Sequential = FALSE
    MaxMsgID = 4
    NoPath = NoPath
    Nobody = Nobody
    NoFrame = NoFrame
INVARIANTS QueueSound ClientSound NothingPiledUp
PROPERTIES KeysServed ImplementsPendingEvents AskedWhenOpen ParseReturns
CHECK_DEADLOCK FALSE
