CONSTANTS
    d1 = d1  d2 = d2
    u1 = u1  u2 = u2  u3 = u3
    w1 = w1  w2 = w2
    Docs <- MCDocs
    Uploads <- MCUploads
    Content <- MCContent
    Workers <- MCWorkers
    FaultyCalls = {}
    MaxFaults = 0
    MaxCrashes = 1
    MaxLockExpiries = 0
    EagerResubmit = TRUE
SPECIFICATION Spec
CHECK_DEADLOCK FALSE
INVARIANT BytesKept
