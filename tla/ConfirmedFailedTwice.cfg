CONSTANTS
  MaxActions = 2
  MaxPolls = 1
  MaxFaults = 0
  MaxResumes = 0
  SameKey = {}
SPECIFICATION Spec
INVARIANT ConfirmedFailedTwice
