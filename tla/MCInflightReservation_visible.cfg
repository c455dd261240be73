SPECIFICATION Spec
CONSTANTS
  r1 = r1
  r2 = r2
  t1 = t1
  t2 = t2
  Requests = {r1, r2}
  Tasks = {t1, t2}
  Of <- OneEach
  Amount <- Estimates
  Cost <- Costs
  Balances = {3}
  NoEntry = NoEntry
  TTL = 2
  MaxFaults = 0
INVARIANT ChargeVisible
CHECK_DEADLOCK FALSE
