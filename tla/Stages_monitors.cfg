CONSTANTS
  Run = {r1, r2, r3}
  None = None
  StageNames = {"service", "hotinstall", "late-load", "late-load --stop"}
  ZYGISK_DEBUG = FALSE
  Faults = {"files", "fork", "exec", "handler", "slow", "proc", "stop", "start", "kill"}
  MaxFaults = 1
SPECIFICATION Spec
INVARIANTS TypeOK OneMonitorServes StopMeansGone
SYMMETRY Symmetry
CHECK_DEADLOCK FALSE
