\* Four controllers, so that resumes follow a resume; two bugs each, so that
\* numbers are used again and go on; four commits, so that every controller may
\* make one, or two of them two.
CONSTANTS
  Anomalies = {a1, a2}
  MaxLives = 4
  MaxBugs = 2
  MaxCommits = 4
SPECIFICATION Spec
INVARIANTS
  TypeOK
  ServedIsSaved
  StoresAgree
PROPERTIES
  ForgetsOnlyWhenRefused
\* A run whose controllers are used up stops.
CHECK_DEADLOCK FALSE
