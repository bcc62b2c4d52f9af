SPECIFICATION FairSpec
CONSTANTS
  c1 = c1
  c2 = c2
  Client = {c1, c2}
  Setting = {short, long}
  MaxQueue = 1
  MaxProcessed = 2
  Ops <- StreamOps
  Cameras = {"simulator", "threaded"}
  CameraFaults = TRUE
  SinkFaults = TRUE
CHECK_DEADLOCK FALSE
INVARIANTS QuietAfterStop LabelsTrue QueueAccounts
PROPERTIES StreamFlows StopReturns
