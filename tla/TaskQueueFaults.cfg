SPECIFICATION Spec
CONSTANTS
  Id <- Ids2
  Job <- JobsMixed
  NoDevice = "none"
  Client = {c1}
  Ops <- AllOps
  DbFaults = TRUE
  Crashes = TRUE
INVARIANT QuietWhenStopped
