SPECIFICATION FairSpec
CONSTANTS
  Kind <- AllKinds
  Device <- AllDevices
  Second = 2
  WaitTime <- ShortAndLong
  Exposure <- Exposures
  Slack = 6
  MaxTasks = 3
  MaxEarly = 1
CHECK_DEADLOCK FALSE
INVARIANTS LooksOften CameraLeft
PROPERTIES WorkEnds
