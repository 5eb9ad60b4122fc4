SPECIFICATION FairSpec
CONSTANTS
  Phones = {p1}
  FeedLimit = 2
  MaxTaps = 3
  MaxEvents = 4
INVARIANTS TapsAccounted
PROPERTIES CancelLiftsShown TileCatchesUp
CHECK_DEADLOCK FALSE
