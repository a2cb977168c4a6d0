CONSTANTS
    g = g  h = h  odd = odd  e1 = e1  e2 = e2
    Subgraphs = {g, h, odd}
    Traffic <- MCTraffic
    Entities = {e1, e2}
    Touches <- MCTouches
    Flushers = {"beat", "cli"}
    BatchSize = 2
    MaxRounds = 2
    FaultyCalls = {"store", "publish"}
    MaxFaults = 1
    MaxCrashes = 1
    MaxExpiries = 1
    MaxPushes = 1
SPECIFICATION FairSpec
CHECK_DEADLOCK FALSE
INVARIANT PushesAccounted
PROPERTY WriterAdvances
