SPECIFICATION FairSpec
CONSTANTS
  Request = {r1, r2}
  Turn = {r1}
  Key = {k1, k2}
  Cap = 3
  RateLimit = 1
  MaxUncounted = 1
  MaxDeaths = 1
INVARIANTS
  TypeOK
  CountCoversRows

  
