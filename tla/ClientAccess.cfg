SPECIFICATION LiveSpec
CONSTANTS
    Requests = {r1, r2}
    Keys = {"env", "row"}
    Clients = {"alice", "bob"}
    Limits = {1}
    EnvKeys <- MCEnvKeys
    DbKeys = {"row"}
    MaxEdits = 2
INVARIANTS SlotsMatch WithinLimit
PROPERTY KeysCatchUp
