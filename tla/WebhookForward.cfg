CONSTANTS
    r1 = r1
    r2 = r2
    k1 = k1
    b1 = b1
    b1x = b1x
    b2 = b2
    bad = bad
    p1 = p1
    p2 = p2
    lower = lower
    upper = upper
    Texts = {lower, upper}
    None = None
    Keys = {k1}
    Bodies <- MCBodies
    Payloads = {p1, p2}
    Canon <- MCCanon
    Requests = {r1, r2}
    Instances = {i1, i2}
    Messages <- PlainMessages
    IdempotencyOn = FALSE
    N8nConfigured = TRUE
    Tolerance = 1
    FutureSkew = 1
    IdemTTL = 1
    DedupTTL = 2
    DayLength = 2
    MaxAttempts = 2
    MaxNow = 2
SPECIFICATION Spec
SYMMETRY Symmetry
INVARIANTS ClaimsSpaced AdmissionsSpaced OnlyVettedForwarded DuplicateHasOriginal
PROPERTIES ImplementsLedger
