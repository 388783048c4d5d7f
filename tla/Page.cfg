CONSTANTS
  v1 = v1
  v2 = v2
  walk = walk
  slope = slope
  Voxels <- MCVoxels
  Sources <- MCSources
  MaxTrail = 3
  KeptTrail = 2
  MaxPending = 4
  MaxDrops = 2
  Gaits <- MCGaits
  Cycle <- MCCycle
  Walk = walk
  Opening <- MCGaits
  NoGait = NoGait
  MaxChoices = 2
  MaxOrders = 2
  MaxLosses = 1
  Kinds = {"browser", "mesh", "radio"}
  MaxCalls = 4
  MaxErrors = 2
  Paths = {"main", "sub"}
  MaxPulls = 2
  MaxWire = 2
  MaxFlush = 2
  MaxPosted = 2
  Consoles = {"pad"}
  Shells = {"pad"}
  MaxMail = 2
  MaxBlanks = 1
  MaxReports = 2
SPECIFICATION PageSpec
INVARIANT PageTypeOK
INVARIANT UnsubscribedIsSilent
INVARIANT MapIsOfOneFrame
INVARIANT TileShowsPlan
PROPERTY ShownCloudFlows
PROPERTY MenuComesTrue
PROPERTY LettingGoStops
PROPERTY BallStops
PROPERTY PictureFollowsView
PROPERTY SaveEnds
PROPERTY ValveShuts
PROPERTY CapsAreKnown
CHECK_DEADLOCK FALSE
