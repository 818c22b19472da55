SPECIFICATION Spec
CONSTANTS
  NumOps = 3
  MaxFaults = 3
CHECK_DEADLOCK FALSE
INVARIANTS TypeOK WaitHasReason DoneMeansCompleted ReportIsReal
