CONSTANTS
    None = None
    Jobs = {j1}
    Slots = {w1, w2}
    MaxAttempts = 2
    MaxStalls = 1
    LocksLapse = TRUE
    MaxCrashes = 1
    Plans <- MCPlans
    Faults = TRUE
CHECK_DEADLOCK FALSE
SPECIFICATION FairFlowSpec
INVARIANTS FlowTypeOK CompletedIsHonest CompletedIsReported
PROPERTIES EveryJobSettles
