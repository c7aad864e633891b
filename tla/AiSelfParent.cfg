SPECIFICATION Spec
CONSTANTS
  m = m
  o1 = o1
  o2 = o2
  u1 = u1
  r1 = r1
  r2 = r2
  Master = m
  OrgAccounts = {o1, o2}
  UserAccounts = {u1}
  Unlimited = {}
  NoAccount = NoAccount
  InitialHome <- MCInitialHome
  Granted <- MCGranted
  Delegated <- MCDelegated
  Requests = {}
  UserAccountOf <- OwnAccount
  OrgAccountOf <- MembersOfO1
  MaxCredits = 1
  Admins = {x1}
  Amounts = {0, 2}
  MaxOperations = 3
  Dashboards = {}
CHECK_DEADLOCK FALSE
INVARIANT NoAccountIsItsOwnParent
