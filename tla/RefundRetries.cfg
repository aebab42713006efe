CONSTANTS
    None = None
    Jobs = {j1, j2}
    Slots = {w1, w2}
    Transactions = {t1}
    MaxAttempts = 2
    MaxStalls = 1
    LocksLapse = FALSE
    MaxCrashes = 1
    Faults = TRUE
    Purges = TRUE
CHECK_DEADLOCK FALSE
SPECIFICATION RefundSpec
SYMMETRY Symmetry
INVARIANTS RefundTypeOK PaymentsRecorded UnmarkedWasRerun MarksArePaid StatusHasCause
PROPERTIES PaidAgainHasCause
