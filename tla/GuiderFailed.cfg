SPECIFICATION Spec
CONSTANTS
  Threads = 1
  Device <- GuidePortOnly
  Job <- DarkOnly
PROPERTIES
  FailedStaysUncalibrated
CHECK_DEADLOCK FALSE
