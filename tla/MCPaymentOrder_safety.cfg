CONSTANTS
    Workers = {w1, w2}
    MaxFaults = 3
    MaxLostReads = 1
SPECIFICATION Spec
SYMMETRY WorkerSymmetry
INVARIANTS
    TypeOK
    CreditOnce
PROPERTIES
    ImplementsLedger
    AckOnlyWhenSettled
CHECK_DEADLOCK FALSE
