SPECIFICATION Spec
CONSTANTS
  Lives = {l1, l2}
  MainLive = l1
  Canvases = {b1}
  Hosts = {h}
  Students = {s}
  Others = {}
  Codes = {k1, k2}
  NoCode = NoCode
  Invites = {i1}
  NoInvite = NoInvite
  Nobody = Nobody
  LiveCalls = {c1, c2}
  FeedTake = 2
  SessionsTake = 1
  MaxLog = 3
  Slides = {s1, s2, s3}
  Edits = {c1, c2}
  LastOrder = 3
SYMMETRY Interchangeable
CHECK_DEADLOCK FALSE
INVARIANTS StudentsComeByCode InviteUsedOnce FeedIsCurrent PlacesDistinct
PROPERTY CodeReplacedForAReason
