\* Every suite of three writes to two fields with two values (see MCOracleFacts), played
\* in two epochs, with one write that commits late and one resume, into this epoch or an
\* earlier one.
CONSTANTS
  Fields = {f, g}
  Values = {v, w}
  NoValue = NoValue
  Unknown = Unknown
  Forgotten = Forgotten
  Suites <- AnySuite
  MaxEpochs = 2
  MaxRewinds = 1
  MaxLate = 1
SYMMETRY Symmetry
SPECIFICATION Spec
INVARIANTS
  TypeOK
  OncePerCommit
  ForgottenIsForbidden
PROPERTY ImplementsTruth
