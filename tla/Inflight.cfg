SPECIFICATION TrackerSpec
CONSTANTS
  Procs = {p1, p2, p3, p4}
  Limit = 2
  None = None
PROPERTY Linearizable
