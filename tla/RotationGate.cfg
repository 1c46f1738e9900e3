\* Every suite of three events, four actions, three threads of Codex and one
\* resume: a rotation first, last, twice in a row, and around a restart.
CONSTANTS
  SuiteLength = 3
  MaxActions = 4
  MaxThreads = 3
  MaxLives = 2
SPECIFICATION FairSpec
INVARIANTS
  TypeOK
  PassIsEarned
  CompletedMeansJudged
  JudgeAgrees
PROPERTIES
  VerdictSettles
  PendingSettles
