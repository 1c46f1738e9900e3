\* Three controllers, so that a process may outlive two; seven processes, enough
\* for three starts of both services by one of them, with a repair at each restart.
CONSTANTS
  MaxProcs = 7
  MaxLives = 3
  MaxRepairs = 2
SPECIFICATION Spec
INVARIANTS
  TypeOK
  OwnOrOrphan
  SavedOrSince
  EndLeavesOrphansOnly
\* A run whose controllers are used up stops.
CHECK_DEADLOCK FALSE
