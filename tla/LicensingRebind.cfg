SPECIFICATION Spec
CONSTANTS
  Keys = {k1}
  Devices = {d1, d2}
  NoDevice = NoDevice
  Clients = {c1}
  Operators = {x1}
  Subscriptions = {s1}
  SeatLimits = {1}
  Edits <- OnlyActive
  MaxChanges = 2
  Reviewers = {}
INVARIANT
  DeviceLimit
CHECK_DEADLOCK FALSE
SYMMETRY Interchangeable
