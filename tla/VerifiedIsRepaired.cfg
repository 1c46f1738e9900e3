CONSTANTS
  Anomalies = {a1, a2}
  MaxLives = 2
  MaxBugs = 1
  MaxCommits = 2
SPECIFICATION Spec
INVARIANT VerifiedIsRepaired
CHECK_DEADLOCK FALSE
