SPECIFICATION SweepSpec
CONSTANTS
  d1 = d1
  Keys = {k1}
  Devices = {d1, d2}
  NoDevice = NoDevice
  Clients = {c1}
  Operators = {x1}
  Subscriptions = {s1}
  SeatLimits = {1}
  Edits <- OnlyActive
  MaxChanges = 2
  Reviewers = {}
PROPERTIES
  TermOverGoesDark
  RevokedStaysRevoked
  KeysAreInCustody
CHECK_DEADLOCK FALSE
