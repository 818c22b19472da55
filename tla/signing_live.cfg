SPECIFICATION FairSpec
CONSTANTS
  n1 = n1
  n2 = n2
  n3 = n3
  r1 = r1
  initiatorAlgorithm = "ed25519"
  authConfig <- OneAuthorizer
  Node <- ThreeNodes
  Participants <- TwoNodes
  Threshold = 1
  Consumers <- LastTwo
  Request <- OneRequest
  Message <- Good
  Slots = 2
  MaxDeliver = 1
  MaxAttempts = 1
  MaxFaults = 1
CHECK_DEADLOCK FALSE
PROPERTIES FailedSessionStops RequestIsAnswered
