\* Registries of every size that 3-bit integers can ask for, whole and wrapped.
SPECIFICATION Spec
CONSTANTS
  U32 = 8
  MaxCreds = {1, 2, 4, 6}
  Handles = {g1, g2}
  First = g1
  Loops = {l1, l2}
  Absent = Absent
  Null = Null
INVARIANTS
  TypeOK
  NullOnlyWhenShared
  ServesIfWhole
PROPERTY LoopsEnd
\* An application may stop once its loops have ended.
CHECK_DEADLOCK FALSE
