SPECIFICATION FairSpec
CONSTANTS
  Reach = 3
  Allotted = 2
  Second = 1
  Interval = 2
  Slack = 1
INVARIANTS
  PinsReleased
  NeverHeldOpposite
PROPERTIES
  StopReturns
CHECK_DEADLOCK FALSE
