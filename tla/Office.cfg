SPECIFICATION Spec
CONSTANTS
  Users = {u1, u2}
  Orgs = {home, away}
  Subs = {s1, s2}
  Home = home
  Main = s1
  NoUser = NoUser
  NoOrg = NoOrg
  NoSub = NoSub
  Limits = {8, 9}
  Regulars = 8
  MemberCalls = {c1, c2}
  Threads = {h1}
  SuperAdmins = {s}
  OrgAdmins = {a1, a2}
  NoThread = NoThread
  Nobody = Nobody
  SupportCalls = {c1, c2}
  Topics = {t}
  Comments = {r1, r2, r3}
  Clients = {a1, a2}
  NoTopic = NoTopic
  NoComment = NoComment
  FeedbackCalls = {c1, c2}
  Rows = {w1, w2}
  Builds = {1, 2}
  NoRow = NoRow
  ReleaseCalls = {c1, c2}
  Attempts = {r1, r2, r3}
  NoAttempt = NoAttempt
  Limit = 2
  FeatureCalls = {c1, c2}
SYMMETRY Interchangeable
CHECK_DEADLOCK FALSE
INVARIANTS UsersHaveSeats  ArchivedIsEmpty StatusAsDecided UnreadIsNotified ActionIsRecorded OneCurrentRelease AttemptsBounded
PROPERTIES WarnsOnce CommentsOfOthersKept
