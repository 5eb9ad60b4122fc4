SPECIFICATION HouseSpec
CONSTANTS
  PlanRooms = {1, 2, 3, 4}
  Hks = {1, 2}
  Cost <- MCCost
  Inputs <- MCInputs
  MaxPasses = 3
  PerturbRounds = 1
  Houses <- MCHouses
  SectionOf <- MCSections
  BaseMinutes <- MCMinutes
  Teams <- MCTeams
  Prefers <- MCPrefers
  Figures = {0, 1, 3}
  PoolMax = 3
  RoomsMin = 1
  RoomsMax = 2
  Ticks = {t1, t2}
  Recheck = 2
  Welfare = 1
  Warning = 1
  Bucket = 3
  Threshold = 1
  Eta = 3
  MaxTime = 4
  MaxTicks = 2
  Limit = 2
  Window = 2
  Callers = {g1, g2}
  MaxClock = 5
  Crew = {1, 2}
  NumRooms = 2
  Numbers = {1, 2}
  Default = 1
  MaxInputs = 3
  MaxErrors = 1
  Staff = {h1, h2}
  Sups = {s1, s2}
  PlanFloors = {1}
  Nobody = Nobody
  Pages = {p1, p2}
  MaxSteps = 6
  Lists = {"ARRIVALS", "DEPARTURES"}
  ContentOf <- MCContentOf
  Clerks = {c1, c2}
  Purged = Purged
  MaxBatches = 3
  MaxMoves = 2
SYMMETRY Alike
INVARIANTS SearchKeepsRules RoundsComplete DeskInv ShownIsApplied
PROPERTIES SearchImproves SavesAsChosen EscalationsTold LimitKept
CHECK_DEADLOCK FALSE
