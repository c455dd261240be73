SPECIFICATION FairSpec
CONSTANTS
    p1 = p1
    f1 = f1
    Pollers = {p1}
    Rebuilders = {f1}
    Readers = {f1}
    Nobody = Nobody
    NoSnapshot = NoSnapshot
    Kinds <- EventKinds
    MaxChanges = 1
    MaxFlips = 2
    MaxFaults = 1
INVARIANTS
    TypeOK
    PublishedIsFenced
    LifecycleSettled
    PassedIsHandled
PROPERTY EventuallyFresh
CHECK_DEADLOCK FALSE
