SPECIFICATION FairSpec
CONSTANTS
  Turn = {t1, t2, t3}
  Threshold = 2
  Window = 2
  Cooldown = 1
  MostFailures = 2
  MaxTime = 4
  MaxReported = 3
  MaxCrashes = 1
INVARIANTS
  TypeOK
  OneProbe
  CrossingIsFollowedUp
PROPERTIES
  LiveProbeIsSettled
  ImplementsBreaker
