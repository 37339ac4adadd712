\* PS and BBS signatures: made, unblinded, shown and verified with any arguments.
SPECIFICATION Spec
CONSTANTS
  Count <- MCCount
  SignBlindings = {"s", "t"}
  None = None
  Schemes = {"ps", "bbs"}
  SignCalls <- MCSignCalls
  ShowCalls <- MCShowCalls
  VerifyCalls <- MCVerifyCalls
  Challenges = {c1, c2}
  MaxUnblind = 2
  MaxCalls = 2
SYMMETRY MCSymmetry
INVARIANTS
  TypeOK
  BlindSigned
  AcceptedIsSigned
  HonestIsShown
  LinkedResponses
\* The bounds are reached, and an application may stop.
CHECK_DEADLOCK FALSE
