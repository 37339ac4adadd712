\* Two issuers, two holders, common attributes, a verifier used twice.
SPECIFICATION Spec
CONSTANTS
  Attrs = {"link", "age"}
  Linkable = {"link"}
  Credentials <- LinkCredentials
  Requests <- MCRequests
  Schemas <- MCSchemas
  KeyAttrs <- MCKeyAttrs
  RevocKeys = {}
  Registries <- MCRegistries
  Nonces = {"n1"}
  None = None
  Absent = Absent
  I32Max = 9
  AddCalls <- LinkAddCalls
  VerifierCalls <- LinkVerifierCalls
  MaxDraws = 4
  MaxSubs = 2
  MaxProofs = 2
  MaxRequested = 2
  MaxVerdicts = 2
INVARIANTS
  OnlyCommonPanics
  AcceptedIsLinked
  HonestIsAccepted
PROPERTY LinksBindVerifier
\* The bounds are reached, and an application may stop.
CHECK_DEADLOCK FALSE
