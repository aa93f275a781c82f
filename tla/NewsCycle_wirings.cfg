SPECIFICATION FairSpec
CONSTANTS
  Cycle = {1, 2}
  Teaching = {m1}
  m1 = m1
  Stale = 1
  Unlocked = Unlocked
  MaxDeaths = 1
INVARIANTS
  TypeOK
  OneRunningCycle
  RunningMarkerIsTrue
  LockIsAccountedFor
PROPERTIES
  CyclesBuildOnEachOther
  SessionNeverWedged
CHECK_DEADLOCK FALSE
