SPECIFICATION RouteSpec
CONSTANTS
  None = None
  Rooms = {r1, r2, r3}
  Attendants = {a1, a2}
  Calls = {c1, c2}
  MaxOps = 4
  MaxPosts = 2
SYMMETRY Symmetry
INVARIANTS RouteInv PanelInv
PROPERTIES OnlyOvertakenScrambles
CHECK_DEADLOCK FALSE
