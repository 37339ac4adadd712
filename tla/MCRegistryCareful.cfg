\* Issuance on demand or by default, a careful application, tails that may fail.
SPECIFICATION Spec
CONSTANTS
  MaxCredNum = 3
  U32 = 64
  Modes = {FALSE, TRUE}
  Indices <- MCValid
  Holders = {2}
  Careful = TRUE
  Outcomes = {"ok", "take_failed"}
  None = None
  MaxLedger = 5
  MaxMultiplicity = 2
INVARIANTS
  TypeOK
  AccumIsBook
  DeltasFaithful
  LedgerChained
  WitnessFaithful
  AcceptedIffListed
PROPERTY ImplementsList
\* A library may stop being called: the ledger bound is reached.
CHECK_DEADLOCK FALSE
