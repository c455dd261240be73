CONSTANTS
    Admins = {a1, a2}
    Amount = 2
    Balance0 = 3
    MinBalance <- MCMinBalance
    MaxFaults = 2
SPECIFICATION Spec
SYMMETRY AdminSymmetry
INVARIANTS
    TypeOK
    DeductedAtMostOnce
    NothingHeldWhenRestored
    StatusMatchesReturned
    RefundingIsRunning
CHECK_DEADLOCK FALSE
