SPECIFICATION Spec
CONSTANTS
    Rpm = 1
    Minute = 2
    Addrs = {a1, a2}
    FirstAddr = a1
    Requests = {r1, r2}
    MaxUpdates = 2
    MaxTime = 2
    MaxBreaks = 1
    Nobody = Nobody
INVARIANTS
    ListenersSound
    Admission
PROPERTY
    StopsWhenCancelled
CHECK_DEADLOCK FALSE
