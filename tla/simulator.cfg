CONSTANTS
    Alarms = {"H"}
    Loops = {l1, l2}
    Requests = {r1, r2}
    MaxOverruns = 2
    MaxResets = 1
    MaxUnread = 1
    MaxFaults = 1
    None = None
    Over = Over
SPECIFICATION Spec
INVARIANT RunningIsTrue
PROPERTY RunsAsCommanded
