SPECIFICATION CallsOrAdminsSpec
CONSTANTS
  m = m
  o1 = o1
  o2 = o2
  u1 = u1
  r1 = r1
  r2 = r2
  Master = m
  OrgAccounts = {o1, o2}
  UserAccounts = {u1}
  Unlimited = {}
  NoAccount = NoAccount
  InitialHome <- MCInitialHome
  Granted <- MCGranted
  Delegated <- MCDelegated
  Requests = {r1, r2}
  UserAccountOf <- SharedAccount
  OrgAccountOf <- MembersOfO1
  MaxCredits = 2
  Admins = {x1, x2}
  Amounts = {0, 2}
  MaxOperations = 3
  Dashboards = {}
CHECK_DEADLOCK FALSE
INVARIANTS ReservationsAccounted NoOverdraft CreditsConserved
PROPERTY CallsSettle
