CONSTANTS
  MaxPending = 3
  MaxPosted = 3
  MaxSwitches = 1
  MaxStarts = 1
  MaxDrops = 0
SPECIFICATION Spec
INVARIANT HeartbeatsNeverOverlap
