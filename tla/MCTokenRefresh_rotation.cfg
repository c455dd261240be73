SPECIFICATION FairSpec
CONSTANTS
  w1 = w1
  w2 = w2
  i1 = i1
  i2 = i2
  Workers = {w1, w2}
  Instances = {i1, i2}
  Homes <- TogetherOrApart
  Nobody = Nobody
  NoToken = NoToken
  MaxGrants = 1
  MaxTurns = 1
  MaxActs = 1
  MaxFaults = 1
INVARIANT TypeOK
INVARIANT TokenNotLost
INVARIANT CacheFollows
PROPERTY QuarantineIsJust
PROPERTY ExpiryHandled
CHECK_DEADLOCK FALSE
