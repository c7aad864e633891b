SPECIFICATION MCSpec
CONSTANTS
  k1 = k1
  x1 = x1
  Keys = {k1, k2}
  Devices = {d1, d2}
  NoDevice = NoDevice
  Clients = {c1, c2}
  Operators = {x1, x2}
  Subscriptions = {s1}
  SeatLimits = {1, 2}
  Edits <- Requests
  MaxChanges = 3
  Reviewers = {r1}
INVARIANTS OneDevicePerKey PointerIsActiveDevice SeatsRespected
CHECK_DEADLOCK FALSE
SYMMETRY LikeDevices
VIEW ForPart
