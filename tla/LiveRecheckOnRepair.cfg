CONSTANTS
  MaxProcs = 7
  MaxLives = 3
  MaxRepairs = 2
SPECIFICATION Spec
INVARIANT LiveRecheckOnRepair
CHECK_DEADLOCK FALSE
