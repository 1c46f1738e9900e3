\* Three bugs against a budget of two repairs, one unexpected exception, a limit
\* of four changed files; test runs leave no files.
CONSTANTS
  MaxBugs = 3
  MaxRepairs = 2
  MaxFiles = 4
  FullSuite = TRUE
  TestsWrite = FALSE
  MaxFaults = 1
SPECIFICATION Spec
INVARIANTS
  TypeOK
  CommitIsWhatWasChecked
  VerifiedOnItsCommit
  BudgetRespected
  LedgerMatchesTable
PROPERTY LockedForGood
