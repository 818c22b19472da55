SPECIFICATION FairSpec
CONSTANTS
  n1 = n1
  n2 = n2
  n3 = n3
  Node <- ThreeNodes
  MaxFaults = 1
CHECK_DEADLOCK FALSE
INVARIANTS TypeOK StartedMeansDirectSubscribed
PROPERTY SessionsFinish
