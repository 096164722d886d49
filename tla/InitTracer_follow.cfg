CONSTANTS
  Pid = {p1, p2}
  RetryCount = 2
  MaxCommands = 2
  PidReuse = TRUE
  Faults = {"daemon_fork", "daemon_death", "fork", "exec", "death", "signal", "grandchild", "overtake", "midfork", "reseize"}
SPECIFICATION Spec
INVARIANTS TypeOK TraceesAreKnown StubsKeepRunning
PROPERTY NoZygoteSlips
SYMMETRY Symmetry
CHECK_DEADLOCK FALSE
