SPECIFICATION ConnectionsSpec
CONSTANTS
  Tenants = {home, away}
  NoTenant = NoTenant
  Home = home
  Accounts = {a1, a2}
  NoAccount = NoAccount
  Addresses = {m1, m2}
  NoMail = NoMail
  Limits = {0, 1}
  Unlimited = Unlimited
  Unsaid = Unsaid
  OrgCalls = {c1, c2}
  Providers = {d, o}
  Personal = {d}
  Grants = {a1, a2}
  NoGrant = NoGrant
  NoProvider = NoProvider
  EnvLegacy = {o}
  Dropbox = d
  OneDrive = o
  StorageCalls = {c1, c2}
  Exports = {e1, e2}
  Imports = {i1}
  NoItem = NoItem
  Transfers = {c1, c2}
SYMMETRY Interchangeable
CHECK_DEADLOCK FALSE
INVARIANT StorageReadyIsConnected
