\* Every pair of builds, every predicate and value of a 6-bit integer.
SPECIFICATION Spec
CONSTANTS
  Half = 32
  Builds <- MCEveryBuild
  Thresholds <- MCEveryThreshold
  AttrValues <- MCEveryValue
INVARIANTS
  TypeOK
  VerifiedHoldsInside
  ExactWithoutOverflow
  ChecksStopWrapping
\* The session ends with the verdict.
CHECK_DEADLOCK FALSE
