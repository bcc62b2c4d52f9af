SPECIFICATION Spec
CONSTANTS
  Id <- Ids2
  Job <- JobsTwo
  NoDevice = "none"
  Client = {c1, c2}
  Ops = {"start", "stop", "submit", "cancel", "cancelAll"}
  DbFaults = FALSE
  Crashes = TRUE
SYMMETRY ClientSymmetry
INVARIANTS TypeOK ResourceExclusion ExecutingHasExecutor CleanupOnce NoDoubleLaunch ThreadMatchesState
PROPERTIES ReapedIsFinal Implements
