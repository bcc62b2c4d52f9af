SPECIFICATION FairSpec
CONSTANTS
  Id <- Ids2
  Job <- JobsShared
  NoDevice = "none"
  Client = {c1, c2}
  Ops = {"start", "stop", "submit", "wait", "shutdown"}
  DbFaults = FALSE
  Crashes = TRUE
CHECK_DEADLOCK FALSE
PROPERTIES StoppingEnds ExecutorsReaped PendingLaunched WaitReturns ShutdownReturns
