CONSTANTS
  walk = walk
  stair = stair
  stairmulti = stairmulti
  Gaits <- MCGaits
  StairGaits <- MCStairGaits
  MultiFrame <- MCMultiFrame
  NoGait = NoGait
SPECIFICATION FairSpec
INVARIANT TypeOK
INVARIANT NoForgottenGait
PROPERTY AcceptedIsAnswered
