SPECIFICATION Spec
CONSTANTS
  n1 = n1
  n2 = n2
  Node <- TwoNodes
  Threshold = 1
  MaxFailures = 2
  MaxFaults = 1
  RacyCheck = TRUE
SYMMETRY Symmetry
INVARIANTS TypeOK ReadyCountMatchesMap
PROPERTY TickCorrectsReady
