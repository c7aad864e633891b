SPECIFICATION Spec
CONSTANTS
  m = m
  o1 = o1
  o2 = o2
  u1 = u1
  r1 = r1
  r2 = r2
  Master = m
  OrgAccounts = {o1, o2}
  UserAccounts = {u1}
  Unlimited = {}
  NoAccount = NoAccount
  InitialHome <- MCInitialHome
  Granted <- MCGranted
  Delegated <- MCDelegated
  Requests = {r2}
  UserAccountOf <- OwnAccount
  OrgAccountOf <- MembersOfO1
  MaxCredits = 2
  Admins = {x1}
  Amounts = {1}
  MaxOperations = 1
  Dashboards = {d1, d2}
CHECK_DEADLOCK FALSE
INVARIANT TypeOK
PROPERTIES ForgivesOnlyDebt KeepsLedger
SYMMETRY LikePages
