SPECIFICATION Spec
CONSTANTS
  n1 = n1
  n2 = n2
  r1 = r1
  r2 = r2
  ecdsa = ecdsa
  eddsa = eddsa
  Node <- Nodes
  Curve <- OneCurve
  Request <- OneRequest
  Authentic <- OneRequest
  Slots = 2
  MaxDeliver = 2
  MaxAttempts = 2
  MaxFaults = 1
  BlindReads = FALSE
SYMMETRY Symmetry
CHECK_DEADLOCK FALSE
INVARIANTS TypeOK AckedRequestIsAnswered 
PROPERTY StoredResultNeverChanges
