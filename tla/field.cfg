CONSTANTS
    None = None
    Devices = {d1, d2}
    Dispatchers = {x1, x2}
    Processes = 2
    MaxTaps = 3
    MaxDispatches = 2
    Tags = {p, q, r}
    Subject = p
    Clauses = {c}
    Procedures = {s}
    Languages = {"hi"}
    Codes = {"hi", "xx"}
    Imports = {TRUE, FALSE}
    MaxToolCalls = 1
    MaxChanges = 1
    Texts = {t}
    Calls = {c}
    Finalizers = {f, g}
    DigestMin = 1
    Rounds = 2
    MaxTopics = 1
    MaxTurns = 2
    MaxDocuments = 2
    MaxFaults = 1
    MaxRestarts = 1
    Tasks = {t, u}
    Slots = 2
    Interval = 2
    MaxRetries = 1
    MaxSteps = 2
    MaxNow = 7
    MaxFailures = 2
SPECIFICATION FieldSpec
CHECK_DEADLOCK FALSE
INVARIANTS EvidenceGenuine TellsTheTaps  InterviewSound
PROPERTY RateKept
