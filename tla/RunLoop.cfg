\* Every interleaving of the four tasks with two commands of the operator, one fault of
\* controller.db and one call that hangs in either way, fair until one does.
CONSTANTS
  MaxCommands = 2
  MaxFaults = 1
SPECIFICATION FairSpec
INVARIANTS
  TypeOK
  EndedRunIsClean
  CompletedMeansStopped
  LoopNeverRefused
  AtMostOneLateAction
PROPERTIES
  ImplementsLifecycle
  StopEnds
  ExpiryEnds
  PauseReached
