CONSTANTS
    None = None
    Jobs = {j1}
    Slots = {w1, w2}
    Messages = {m1}
    Callers = {c1}
    WithFallback = {m1}
    MaxRetries = 2
    MaxAttempts = 2
    MaxStalls = 1
    LocksLapse = TRUE
    MaxCrashes = 1
    Faults = TRUE
CHECK_DEADLOCK FALSE
SPECIFICATION MessagingSpec
SYMMETRY Symmetry
INVARIANTS MessagingTypeOK DlqIsExhausted ReportedWasTaken RetriesWithinLimit CompletedLeavesNothing
PROPERTIES KeepsContract DeliveredIsFinal
