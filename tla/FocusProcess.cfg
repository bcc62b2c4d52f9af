SPECIFICATION FairSpec
CONSTANTS
  Client = {c1}
  Steps = 3
  MaxRuns = 3
  Ops <- OneStarts
  Owner = c1
  DeviceFaults = TRUE
  EvalFaults = TRUE
CHECK_DEADLOCK FALSE
INVARIANTS FocuserExclusive FocusedIsComplete
PROPERTIES StatusWaitEnds JoinsEnd
