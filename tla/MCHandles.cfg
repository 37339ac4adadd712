\* Every function on at most three objects, an application that goes by codes and names.
SPECIFICATION Spec
CONSTANTS
  Addresses = {a1, a2, a3}
  Threads = {t1, t2}
  Calls <- MCSmallCalls
  Nothing = Nothing
  NullWritten = NullWritten
SYMMETRY MCSymmetry
INVARIANTS
  TypeOK
  OwnershipAgreed
  OnlyMisnamedMistaken
  ErrorIsOwn
CHECK_DEADLOCK FALSE
