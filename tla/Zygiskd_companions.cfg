SPECIFICATION FairSpec
CONSTANTS
  Module = {m1}
  Client = {c1, c2}
  MaxEdits = 0
  MaxRestarts = 2
  MaxMissed = 1
  MaxRefreshes = 0
  Faults = {"scan", "spawn", "death"}
INVARIANTS OneCompanionPerModule CompanionsAreFresh
PROPERTIES AcceptsAgain RequestsAnswered OldCompanionsExit
CHECK_DEADLOCK FALSE
