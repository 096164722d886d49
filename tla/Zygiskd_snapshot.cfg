SPECIFICATION Spec
CONSTANTS
  Module = {m1, m2}
  Client = {c1}
  MaxEdits = 2
  MaxRestarts = 1
  MaxMissed = 1
  MaxRefreshes = 1
  Faults = {"scan", "memfd", "spawn", "death", "peer"}
SYMMETRY Symmetry
INVARIANTS TypeOK ReplyIsOneSnapshot RestartsKeepHandles
CHECK_DEADLOCK FALSE
