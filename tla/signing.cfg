SPECIFICATION Spec
CONSTANTS
  n1 = n1
  n2 = n2
  n3 = n3
  r1 = r1
  initiatorAlgorithm = "ed25519"
  authConfig <- OneAuthorizer
  Node <- TwoNodes
  Participants <- TwoNodes
  Threshold = 1
  Consumers <- TwoNodes
  Request <- OneRequest
  Message <- Others
  Slots = 2
  MaxDeliver = 2
  MaxAttempts = 2
  MaxFaults = 1
CHECK_DEADLOCK FALSE
INVARIANTS TypeOK 
SYMMETRY Symmetry
PROPERTY ImplementsRequestService
