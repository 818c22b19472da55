SPECIFICATION FairSpec
CONSTANTS
  k1 = k1
  k2 = k2
  Key <- TwoKeys
  MaxWrites = 3
  MaxFaults = 3
CHECK_DEADLOCK FALSE
INVARIANTS TypeOK WatermarkIsCovered
PROPERTIES RecoveryKeepsBackedUp BackupCatchesUp
