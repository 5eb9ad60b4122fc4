SPECIFICATION FairSpec
CONSTANTS
  r1 = r1  r2 = r2  c1 = c1  c2 = c2  att = att  sup = sup  eng = eng  desk = desk
  p1 = p1  a1 = a1  None = None
  Rooms = {r1}
  Calls = {c1, c2}
  Users = {sup}
  Arrivals = {a1}
  RoleOf <- MCRoleOf
  Payloads = {p1}
  Targets <- ReleaseTargets
  MaxBatch = 1
  MaxDnd = 0
  MaxAborts = 1
  Exclusive = FALSE
PROPERTIES AnsweredAndAnnounced
