SPECIFICATION FairSpec
CONSTANTS
  c1 = c1
  c2 = c2
  c3 = c3
  Call <- TwoCalls
  MaxFaults = 2
CHECK_DEADLOCK FALSE
INVARIANTS TypeOK  ChannelHasRoom 
PROPERTY SendSettles
