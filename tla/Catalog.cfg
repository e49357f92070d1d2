CONSTANTS
  w1 = w1
  w2 = w2
  a1 = a1
  r1 = r1
  r2 = r2
  s1 = s1
  Names = {"m", "n"}
  Workers = {w1, w2}
  Serves <- MCServes
  Rebuilds = {r1, r2}
  Seeders = {s1}
  Assigners = {a1}
  Together <- MCTogether
  Wants <- MCWants
  MaxIds = 6
  MaxFaults = 1
SPECIFICATION LiveSpec
INVARIANTS  SeededResolves
PROPERTIES StoreKeepsKnown AssignedIsRouted
CHECK_DEADLOCK FALSE
