SPECIFICATION FairSpec
CONSTANTS
    w1 = w1
    w2 = w2
    Workers = {w1, w2}
    Nobody = Nobody
    Hold = 2
    Actual = 1
    MaxRetries = 2
    MaxFaults = 1
INVARIANTS
    TypeOK
    FrozenIsHeld
    InflightIsQueued
    JobIsOwned
PROPERTIES
    ImplementsLedger
    AckOnlyWhenEnded
    HoldEnds
    QueuedHoldEnds
CHECK_DEADLOCK FALSE
