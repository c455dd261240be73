SPECIFICATION UncleanedSpec
CONSTANTS
  r1 = r1
  r2 = r2
  r3 = r3
  f1 = f1
  f2 = f2
  Requests = {r1, r2, r3}
  None = None
  Payloads = {f1, f2}
  Fingerprints <- AllSame
  TTL = 3
  ProcessingTimeout = 1
  Backoff = 1
  MaxClock = 5
  LastStart = 5
  MaxRun = 1
  MaxFaults = 0
INVARIANT SingleSideEffect
CHECK_DEADLOCK FALSE
