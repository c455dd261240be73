SPECIFICATION FairSpec
CONSTANTS
  r1 = r1
  r2 = r2
  r3 = r3
  f1 = f1
  f2 = f2
  Requests = {r1, r2, r3}
  None = None
  Payloads = {f1, f2}
  Fingerprints <- SameOrThirdDiffers
  TTL = 3
  ProcessingTimeout = 1
  Backoff = 1
  MaxClock = 10
  LastStart = 4
  MaxRun = 3
  MaxFaults = 1
INVARIANT TypeOK
INVARIANT OnceBeforeExpiry
INVARIANT ReplayIsEffect
INVARIANT DetachedLeaseHeld
PROPERTY KeyIsFreed
CHECK_DEADLOCK FALSE
