SPECIFICATION FairSpec
CONSTANTS
  Threads = 1
  Device <- BothDevices
  Job <- DarkAndBacklash
INVARIANTS
  AcquisitionHasThread
  CalibratingHasThread
PROPERTIES
  LateResultsSpareGuiding
  GuidingEnds
CHECK_DEADLOCK FALSE
