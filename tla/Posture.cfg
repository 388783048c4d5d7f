CONSTANTS
  Starts = {"mesh", "radio"}
  MaxPresses = 2
  MaxFlips = 2
  MaxQueue = 2
SPECIFICATION PostureSpec
INVARIANT PostureTypeOK
PROPERTY NoOppositeMove
PROPERTY ButtonTellsTruth
CHECK_DEADLOCK FALSE
