SPECIFICATION Spec
CONSTANTS
  r1 = r1  r2 = r2  c1 = c1  c2 = c2  att = att  sup = sup  eng = eng  desk = desk
  p1 = p1  a1 = a1  None = None
  Rooms = {r1}
  Calls = {c1, c2}
  Users = {att, sup}
  Arrivals = {}
  RoleOf <- MCRoleOf
  Payloads = {p1}
  Targets <- RaceTargets
  MaxBatch = 1
  MaxDnd = 1
  MaxAborts = 0
  Exclusive = FALSE
SYMMETRY Symmetry
INVARIANTS RoomInv
PROPERTIES LegalUnlessOvertaken ReworkNoteKept DndRespected
