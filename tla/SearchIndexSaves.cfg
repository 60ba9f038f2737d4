SPECIFICATION IndexSpec
CONSTANTS
    Paths = {p1, p2}
    Texts = {t1, t2}
    MaxId = 2
    Threshold = 2
    MaxRuns = 2
    MaxTasks = 2
    MaxFaults = 1
    Unknown = Unknown
    Torn = Torn
INVARIANT
    SavedAtOnce
CHECK_DEADLOCK FALSE
