SPECIFICATION FairSpec
CONSTANTS
  n1 = n1
  n2 = n2
  n3 = n3
  e1 = e1
  e2 = e2
  initiatorAlgorithm = "p256"
  authConfig <- OneAuthorizer
  Node <- ThreeNodes
  Event <- OneEvent
  Message <- All
  FirstParticipants <- FirstTwo
  FirstThreshold = 1
  MaxVersion = 2
  MaxFaults = 2
CHECK_DEADLOCK FALSE
INVARIANTS TypeOK CurrentVersionIsHeld RotationIsAuthorised
 
