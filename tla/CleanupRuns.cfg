CONSTANTS
    None = None
    Jobs = {j1, j2}
    Slots = {w1, w2}
    MaxAttempts = 2
    MaxStalls = 1
    LocksLapse = FALSE
    MaxCrashes = 1
    Retentions = {1, 2}
    Faults = TRUE
    MaxDay = 3
CHECK_DEADLOCK FALSE
SPECIFICATION CleanupSpec
SYMMETRY Symmetry
INVARIANTS NoLogLost CompletedMeansArchived
