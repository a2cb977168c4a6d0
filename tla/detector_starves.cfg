CONSTANTS
    None = None
    After = 1
    Cooldown = 1
    RefreshEvery = 1
    MaxAlerts = 1
    MaxStored = 1
    MaxSeconds = 2
    MaxFaults = 0
    MaxRestarts = 0
SPECIFICATION Spec
CHECK_DEADLOCK FALSE
PROPERTY DetectorFed
