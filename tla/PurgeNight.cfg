SPECIFICATION FairSpec
CONSTANTS
  Tickers = {t1}
  Managers = {m1}
  Parts = 3
  Notes = 1
  Protocol = 2
  Photos = 3
  Retain = 1
  Evening = 2
  Window = 1
  MaxTime = 3
  MaxManual = 1
  MaxFails = 1
  MaxCrashes = 1
  MaxStock = 1
INVARIANTS OkMeansPurged PurgeInv
PROPERTIES EveningComes
