CONSTANTS
    Workers = {w1, w2}
    MaxFaults = 1
    MaxLostReads = 0
SPECIFICATION FairSpec
PROPERTIES
    UnackedPaidCompletes
    DueOrderResolves
CHECK_DEADLOCK FALSE
