CONSTANTS
  Planes = {p1, p2}
  MaxTicks = 4
  MaxFaults = 1
  FaultsUntil = 1
  Views <- MCViews
  MaxViews = 3
  Objectives <- MCObjectives
SPECIFICATION LiveSpec
INVARIANTS InUseIsRecorded WeightsAreShares
PROPERTIES LiveAgain
CHECK_DEADLOCK FALSE
