SPECIFICATION Spec
CONSTANTS
  Cell <- MCCell
  Perimeter <- MCPerimeter
  Exit <- MCExit
  StaticWeb <- MCStaticWeb
  Home = 1
  CastSizes <- MCCastSizes
  FlyCounts <- MCFlyCounts
  InitialMass <- MCInitialMass
  Drain <- MCDrain
  FoodMass = 2
  EggLayMass = 6
  EggHatchDelay = 1
  EggHatchCount = 2
  MinHatchlingMass = 1
  WebDuration = 2
  PreyInterval = 2
  FoodInterval = 2
  MaxPrey = 2
  MaxFood = 2
  MaxTurn <- MCMaxTurn
  MaxEpoch = 1
  MaxPlaced = 1
INVARIANT HeldPreyRidesAlong
PROPERTY MassIsConserved
PROPERTY TheGoneStayGone
PROPERTY RecastReopens
CHECK_DEADLOCK FALSE
