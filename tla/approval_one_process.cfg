CONSTANTS
    None = None  l1 = l1  p1 = p1  w1 = w1  w2 = w2  NoLoop = NoLoop  o1 = o1  std = std
    Loops = {l1}
    Proposers = {p1}
    Crew = {w1, w2}
    MaxProposals = 2
    MaxTasks = 2
    MaxFaults = 1
    MaxCrashes = 1
SPECIFICATION OfficeSpec
CHECK_DEADLOCK FALSE
INVARIANTS OnlyApprovedDelivered RecordHolds
PROPERTIES ApprovalFollowedUp StandingBreachRepeated MoveTold
