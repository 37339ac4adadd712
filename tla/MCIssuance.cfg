\* Two exchanges, one definition with a revocation part and one without.
SPECIFICATION Spec
CONSTANTS
  Keys = {plain, revocable}
  RevocKeys = {revocable}
  Nonces = {n1, n2}
  Secrets = {s1, s2}
  KnownValues = {x, y}
  MaxBlinded = 2
  MaxSigned = 1
  MaxCalls = 3
  plain = plain
  revocable = revocable
  n1 = n1
  n2 = n2
  s1 = s1
  s2 = s2
  x = x
  y = y
SYMMETRY Symmetry
INVARIANTS
  TypeOK
  OkIsUsable
  SignedIsUsable
  RevocationAfterPrimary
PROPERTY OneCallOnly
\* The bounds on the calls are reached.
CHECK_DEADLOCK FALSE
