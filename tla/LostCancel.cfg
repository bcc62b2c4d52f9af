SPECIFICATION Spec
CONSTANTS
  Id <- Ids2
  Job <- JobsOne
  NoDevice = "none"
  Client = {c1}
  Ops = {"start", "submit", "cancel"}
  DbFaults = FALSE
  Crashes = FALSE
CHECK_DEADLOCK FALSE
PROPERTIES EndedIsFinal
