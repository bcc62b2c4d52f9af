SPECIFICATION Spec
CONSTANTS
  Reach = 3
  Allotted = 2
  Second = 1
  Interval = 2
  Slack = 1
INVARIANT Delivered
CHECK_DEADLOCK FALSE
