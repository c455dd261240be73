SPECIFICATION Spec
CONSTANTS
    w1 = w1
    w2 = w2
    Workers = {w1, w2}
    Nobody = Nobody
    Hold = 2
    Actual = 1
    MaxRetries = 2
    MaxFaults = 0
INVARIANT NoHoldLeaks
CHECK_DEADLOCK FALSE
