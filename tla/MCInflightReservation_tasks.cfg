SPECIFICATION LiveSpec
CONSTANTS
  r1 = r1
  r2 = r2
  t1 = t1
  t2 = t2
  Requests = {r1, r2}
  Tasks = {t1, t2}
  Of <- BothOfFirst
  Amount <- Estimates
  Cost <- OverEstimate
  Balances = {2, 3}
  NoEntry = NoEntry
  TTL = 3
  MaxFaults = 1
INVARIANT TypeOK
INVARIANT HeldWhileRunning
INVARIANT Covered
PROPERTY ReleasedWhenSettled
PROPERTY NoRevival
PROPERTY EventuallyFree
CHECK_DEADLOCK FALSE
