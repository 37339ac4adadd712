\* tests/cl.rs:4388: revoking an index that is not in use.
SPECIFICATION Spec
CONSTANTS
  MaxCredNum = 2
  U32 = 64
  Modes = {FALSE}
  Indices <- MCValid
  Holders = {}
  Careful = FALSE
  Outcomes = {"ok"}
  None = None
  MaxLedger = 2
  MaxMultiplicity = 1
PROPERTY RevokesOnlyIssued
CHECK_DEADLOCK FALSE
