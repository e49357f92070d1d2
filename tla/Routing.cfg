CONSTANTS
  Planes = {p1, p2}
  MaxState = 2
  MaxEpoch = 2
  MaxInbox = 2
  MaxFaults = 2
SPECIFICATION Spec
PROPERTIES NoRollback TickVisible
CHECK_DEADLOCK FALSE
