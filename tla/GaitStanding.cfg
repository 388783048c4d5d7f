CONSTANTS
  walk = walk
  stair = stair
  stairmulti = stairmulti
  Gaits <- MCGaits
  StairGaits <- MCStairGaits
  MultiFrame <- MCMultiFrame
  NoGait = NoGait
SPECIFICATION Spec
INVARIANT StandingRobotIsLeftAlone
