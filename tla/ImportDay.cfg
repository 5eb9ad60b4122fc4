SPECIFICATION ImportDaySpec
CONSTANTS
  r1 = r1  r2 = r2
  None = None
  Purged = Purged
  Rooms = {r1, r2}
  Assigned = {r1}
  Chosen = {"DEPARTURE", "STAYOVER"}
  Lists = {"DEPARTURES", "ARRIVALS"}
  ContentOf <- MCContentOf
  Clerks = {c1, c2}
  MaxBatches = 3
  MaxAsked = 2
  MaxFails = 1
  Months = 2
  Days = 3
  Week = 3
  PrintDates <- MCPrintDates
  Stays <- MCStays
  Papers <- MCPapers
  MaxLines = 3
  MaxHarms = 1
SYMMETRY Symmetry
INVARIANTS OneListApplied ReadAsPrinted
PROPERTIES PlanFollowsLists MergeRespects CreatedOnce
CHECK_DEADLOCK FALSE
