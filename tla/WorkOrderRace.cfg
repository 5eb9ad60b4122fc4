SPECIFICATION FairSpec
CONSTANTS
  eng1 = eng1  eng2 = eng2  sup = sup  desk = desk  None = None
  RoleOf <- MCRoleOf
  Users = {eng1, eng2, sup, desk}
  Orders = {o1}
  Calls = {c1, c2}
  MaxTime = 2
  MaxAborts = 1
INVARIANTS OrderInv
PROPERTIES ForwardUnlessOvertaken ClaimKept EveryReportRouted
CHECK_DEADLOCK FALSE
