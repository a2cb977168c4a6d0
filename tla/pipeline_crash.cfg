CONSTANTS
    d1 = d1  d2 = d2
    u1 = u1  u2 = u2  u3 = u3
    w1 = w1  w2 = w2
    Docs <- OneDoc
    Uploads <- TwoUploads
    Content <- SameContent
    Workers <- MCWorkers
    FaultyCalls = {"archive", "classifier", "lane", "cache", "resolver", "send", "confirm", "redis"}
    MaxFaults = 2
    MaxCrashes = 1
    MaxLockExpiries = 1
    EagerResubmit = TRUE
SPECIFICATION FairSpec
CHECK_DEADLOCK FALSE
INVARIANTS SingleFlight NothingStranded
PROPERTIES TurnedAwayByHolder ClaimSettles
