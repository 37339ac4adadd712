\* The functions on deltas, an application that takes an output for what it is named after.
SPECIFICATION Spec
CONSTANTS
  Addresses = {a1, a2, a3}
  Threads = {t1, t2}
  Calls <- MCDeltaCalls
  Nothing = Nothing
  NullWritten = NullWritten
SYMMETRY MCSymmetry
INVARIANTS
  HeldIsAsNamed
CHECK_DEADLOCK FALSE
