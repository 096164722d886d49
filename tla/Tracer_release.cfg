SPECIFICATION FairSpec
CONSTANTS
  Modes <- AnyMode
  MaxSignals = 2
  Faults = {"eperm", "eio", "unparked", "symbol", "dlopen", "dlsym", "heartbeat", "hook", "crash", "death", "interrupt"}
INVARIANTS TypeOK RunsItsOwnCode VerdictIsHonest
PROPERTY TargetRunsAgain
CHECK_DEADLOCK FALSE
