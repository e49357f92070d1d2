SPECIFICATION FairSpec
CONSTANTS
  Workers = {w1, w2}
  Requests = {r1, r2}
  Modes = {"chatStream", "text"}
  Outcomes = {"ok", "eof", "retryable", "fatal", "excluded"}
  AdmissionLimit = 1
  MaxAttempts = 2
  MaxArrivals = 2
  MinRequests = 1
  FailNum = 1
  FailDen = 2
  MaxHalfOpen = 1
  MaxTokens = 5
  TokenUnit = 2
  None = None
INVARIANTS
  SlotsMatchCounters
  WalkIsSound
  
PROPERTIES
  BreakerMoves
  AdmissionIsSlotCounter
  TrialPending
  EveryRequestAnswered
