SPECIFICATION Spec
CONSTANTS
  Users = {u1, u2}
  Clients = {k1}
  NoClient = NoClient
  Tokens = {t1, t2, t3}
  NoToken = NoToken
  Rows = {r1, r2}
  NoRow = NoRow
  Calls = {c1, c2}
  LastCode = 3
  CodeCalls = {c1, c2}
  MaxAttempts = 1
  MaxSends = 1
  Attempts = {a1, a2}
  Logins = {r1, r2}
  NoLogin = NoLogin
  Callbacks = {c1, c2}
  Polls = {c1, c2}
SYMMETRY Interchangeable
CHECK_DEADLOCK FALSE
INVARIANTS CodeUsedOnce CodesLimited
PROPERTIES RevokedStaysOut TokenLostForAReason HandsOverOnce
