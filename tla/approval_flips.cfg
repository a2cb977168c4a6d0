CONSTANTS
    NoLoop = NoLoop
    Loops = {l1, l2}
    Proposers = {p1}
    Crew = {w1}
    MaxProposals = 1
    MaxTasks = 2
    MaxFaults = 0
    MaxCrashes = 0
SPECIFICATION Spec
CHECK_DEADLOCK FALSE
INVARIANTS FirstDecisionStands
