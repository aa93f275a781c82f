SPECIFICATION FairSpec
CONSTANTS
  Caller = {c1, c2}
  Term = {t1, t2}
  Threshold = 2
  Window = 2
  Cooldown = 1
  MinInterval = 1
  CoolOffs = {1, 2}
  MaxFetches = 2
  MaxTrips = 2
INVARIANTS
  TypeOK
  ClosedBelowThreshold
  OneFetchAtATime
  NeverAskedTwice
PROPERTIES
  HalfOpenEnds
