\* Two writes, a poller of two reads, one failing call and one crash or stop; the
\* second write is rechecked under its own key.
CONSTANTS
  MaxActions = 2
  MaxPolls = 1
  MaxFaults = 1
  MaxResumes = 1
  SameKey = {2}
SPECIFICATION FairSpec
INVARIANTS
  TypeOK
  OracleOnlyCommitted
  AppliedOnce
  RowsAgree
  CommittedOnce
PROPERTIES
  ApprovesItsOwn
  ActionSettles
