SPECIFICATION Spec
CONSTANTS
  Modes <- SpawnOnly
  MaxSignals = 0
  Faults = {"dlopen"}
INVARIANT FailureResumesTarget
CHECK_DEADLOCK FALSE
