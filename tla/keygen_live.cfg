SPECIFICATION FairSpec
CONSTANTS
  n1 = n1
  n2 = n2
  r1 = r1
  r2 = r2
  ecdsa = ecdsa
  eddsa = eddsa
  Node <- Nodes
  Curve <- OneCurve
  Request <- OneRequest
  Authentic <- OneRequest
  Slots = 2
  MaxDeliver = 2
  MaxAttempts = 1
  MaxFaults = 2
  BlindReads = FALSE
CHECK_DEADLOCK FALSE
PROPERTIES RequestIsSettled GuardIsReleased
