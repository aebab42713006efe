CONSTANTS
    None = None
    Jobs = {j1, j2}
    Slots = {w1, w2}
    Transactions = {t1}
    MaxAttempts = 3
    MaxStalls = 1
    LocksLapse = FALSE
    MaxCrashes = 0
    Faults = FALSE
    Purges = FALSE
CHECK_DEADLOCK FALSE
SPECIFICATION RefundSpec
SYMMETRY Symmetry
INVARIANTS OneRefundPerTransaction
