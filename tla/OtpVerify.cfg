CONSTANTS
    None = None
    Verifiers = {v1, v2, v3}
    MaxTries = 2
    Ttl = 1
    MaxNow = 2
SPECIFICATION OtpSpec
SYMMETRY Symmetry
INVARIANTS OtpTypeOK WrongBounded WrongIsCounted AcceptedTogether
PROPERTIES RemainingHonest
