SPECIFICATION Spec
CONSTANTS
  r1 = r1  r2 = r2  c1 = c1  c2 = c2  att = att  sup = sup  eng = eng  desk = desk
  p1 = p1  a1 = a1  None = None
  Rooms = {r1, r2}
  Calls = {c1, c2}
  Users = {sup}
  Arrivals = {}
  RoleOf <- MCRoleOf
  Payloads = {p1}
  Targets <- ReleaseTargets
  MaxBatch = 2
  MaxDnd = 0
  MaxAborts = 0
  Exclusive = TRUE
SYMMETRY SymmetryRooms
INVARIANTS BatchInv
PROPERTIES ImplementsBoard
