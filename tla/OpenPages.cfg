SPECIFICATION ClientSpec
CONSTANTS
  MaxTaps = 4
  MaxReloads = 2
  MaxWrites = 3
  MaxMishaps = 1
CHECK_DEADLOCK FALSE
INVARIANTS QueueInv
PROPERTIES EveryTapSettled BoardCatchesUp
