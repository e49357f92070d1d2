CONSTANTS
  MaxSamples = 2
  Kinds = {"local", "runpod"}
  Activators = {a1}
  External = {}
  Policies <- MCMin1
  MaxProvisions = 2
  MaxFaults = 1
  MaxActive = 1
SPECIFICATION LiveSpec
INVARIANTS WorkerOwned StepsWithinPolicy NoLostProcess
PROPERTIES   MinimumCounted
