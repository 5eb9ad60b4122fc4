SPECIFICATION AutoSpec
CONSTANTS
  None = None
  Rooms = {r1, r2}
  Attendants = {a1, a2}
  Calls = {c1, c2}
  MaxOps = 0
  Skilled = {a1}
  Demanding = {r1}
  MaxAsked = 3
  MaxFails = 1
SYMMETRY Symmetry
INVARIANTS OneConfirmedPlan
PROPERTIES BegunRoomsStay DecisionsStick AbsenceAnswered
CHECK_DEADLOCK FALSE
