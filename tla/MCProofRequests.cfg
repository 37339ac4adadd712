\* Requests, schemas, keys, signatures, registries and witnesses that do not match.
SPECIFICATION Spec
CONSTANTS
  Attrs = {"link", "age"}
  Linkable = {}
  Credentials <- ShowCredentials
  Requests <- MCRequests
  Schemas <- MCSchemas
  KeyAttrs <- MCKeyAttrs
  RevocKeys = {"k1"}
  Registries <- MCRegistries
  Nonces = {"n1", "n2"}
  None = None
  Absent = Absent
  I32Max = 5
  AddCalls <- ShowAddCalls
  VerifierCalls <- ShowVerifierCalls
  MaxDraws = 3
  MaxSubs = 2
  MaxProofs = 1
  MaxRequested = 2
  MaxVerdicts = 1
INVARIANTS
  AcceptedIsBacked
  HonestIsAccepted
  TypeOK
  AcceptedIsNotRevoked
  AcceptedIsClean
\* The bounds are reached, and an application may stop.
CHECK_DEADLOCK FALSE
