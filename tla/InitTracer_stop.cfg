CONSTANTS
  Pid = {p1}
  RetryCount = 2
  MaxCommands = 3
  PidReuse = FALSE
  Faults = {"daemon_fork", "daemon_death", "fork", "exec", "death"}
SPECIFICATION FairSpec
INVARIANTS SeizeMatchesState StopUnderway
PROPERTIES ExitIsFinal StopCompletes ExitCompletes NobodyStaysFrozen ImplementsLifecycle
CHECK_DEADLOCK FALSE
