CONSTANTS
    NoPattern = NoPattern
    Patterns = {p1}
    Diagnoses = {d1}
    AutoRca = TRUE
    AlarmBatch = 2
    MaxDeltas = 2
    MaxAlarms = 1
    MaxRequests = 2
    MaxFaults = 1
    MaxLapses = 1
    MaxRestarts = 1
SPECIFICATION FairSpec
CHECK_DEADLOCK FALSE
INVARIANTS SpentOnce LossesAccounted
PROPERTY EverythingRead
