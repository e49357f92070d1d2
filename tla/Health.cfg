CONSTANTS
  Workers = {w1}
  MaxAttempts = 2
  MaxEvents = 1
  MaxFaults = 1
  MaxStarts = 2
  MaxFlips = 1
SPECIFICATION LiveSpec
PROPERTIES DeadLeave RoutedFollowsReady
