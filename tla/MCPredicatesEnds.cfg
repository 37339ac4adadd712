\* A release build, the predicates at the two ends of the integer included.
SPECIFICATION Spec
CONSTANTS
  Half = 4
  Builds <- MCRelease
  Thresholds <- MCEveryThreshold
  AttrValues <- MCFromZero
INVARIANT VerifiedHolds
CHECK_DEADLOCK FALSE
