CONSTANTS
  Requests = {"r1", "r2"}
  Req <- MCReq
  Catalogs <- MCCatalogs
  MaxAttempts = 2
  Snapshots <- MCSnapshots
  Hash <- MCHash
  Policy <- MCPolicy
  Prompt <- MCPrompt
  Served <- MCServed
  Weight <- MCWeight
  Limit = 4
  Tokens = {1, 2}
  MaxTokens = 4
  BlockSize = 2
  Adapters = {"none", "a"}
SPECIFICATION Spec
INVARIANTS RankIsComplete AloneIsExact RaceIsBounded 
CHECK_DEADLOCK FALSE
