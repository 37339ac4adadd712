\* Any index from 0 to max_cred_num + 2, any delta in any order, and every way a call may fail.
SPECIFICATION Spec
CONSTANTS
  MaxCredNum = 2
  U32 = 64
  Modes = {FALSE, TRUE}
  Indices <- MCAnyIndex
  Holders = {1}
  Careful = FALSE
  Outcomes = {"ok", "take_failed", "late_failed"}
  None = None
  MaxLedger = 2
  MaxMultiplicity = 1
VIEW MCAnyView
INVARIANTS
  WitnessSound
\* A library may stop being called: the ledger bound is reached.
CHECK_DEADLOCK FALSE
