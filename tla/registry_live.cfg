SPECIFICATION FairSpec
CONSTANTS
  n1 = n1
  n2 = n2
  Node <- TwoNodes
  Threshold = 1
  MaxFailures = 1
  MaxFaults = 1
  RacyCheck = FALSE
PROPERTIES StableClusterBecomesReady DeadPeerIsDisconnected
 
