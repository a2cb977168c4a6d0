CONSTANTS
    q1 = q1  q2 = q2  pump = pump  report = report
    None = None
    Never = Never
    NoEntry = NoEntry
    NoQuestion = NoQuestion
    MaxLen = 2
    Batch = 2
    Malformed = {2}
    MaxSamples = 5
    MaxFaults = 2
    MaxCrashes = 1
    MaxRestarts = 1
    Debounce = 1
    MaxErrors = 1
    Alarms = {"H", "HH"}
    MaxResets = 1
    MaxUnread = 1
    ClaimTtl = 2
    After = 1
    Cooldown = 2
    RefreshEvery = 1
    MaxAlerts = 2
    MaxStored = 1
    MaxSeconds = 1
    Tags = {a, b}
    Retained = {a}
    Deviations = {0, 1, 2}
    T2Limit = 3
    SpeLimit = 3
    Persistence = 3
    WindowSize = 5
    EventCooldown = 2
    Names = {1, 2, 3}
    Before <- MCBefore
    Windows <- MCWindows
    Questions = {q1, q2}
    Nodes = {pump, report}
    Cites <- MCCites
    Equipment = {pump}
    Ahead = {q1}
    Alike <- MCAlike
    Askers = {a1}
    Agents = rt
    MaxEntries = 1
    MaxCommits = 2
    MaxAsks = 1
    MaxSpeculations = 1
    MinReplicas = 1
    MaxReplicas = 3
    PerWorker = 1
    QuietTicks = 2
    Grace = 1
    MaxBacklog = 4
SPECIFICATION TelemetrySpec
CHECK_DEADLOCK FALSE
INVARIANTS LostOnlyToCap RunsWaitedOut ReplayWins CacheSound
PROPERTIES
    SamplesLand FaultAlarms StandingBreachTold AlarmDiagnosed Fades Settles
