CONSTANTS
  MaxPending = 2
  MaxPosted = 3
  MaxSwitches = 2
  MaxStarts = 1
  MaxDrops = 1
SPECIFICATION Spec
INVARIANT ConsoleTypeOK
INVARIANT MeshSilencesRadio
PROPERTY MeshTakesBack
PROPERTY RadioComesUp
