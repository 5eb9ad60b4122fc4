SPECIFICATION Spec
CONSTANTS
  MaxTaps = 3
  MaxReloads = 0
CHECK_DEADLOCK FALSE
INVARIANTS FailedTapsStayStored
