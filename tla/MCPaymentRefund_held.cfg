CONSTANTS
    Admins = {a1, a2}
    Amount = 2
    Balance0 = 2
    MinBalance <- MCMinBalance
    MaxFaults = 0
SPECIFICATION PolledSpec
PROPERTY FailedRefundReturnsDeduction
CHECK_DEADLOCK FALSE
