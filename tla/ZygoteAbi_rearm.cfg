SPECIFICATION Spec
CONSTANTS
  Zygote = {z1, z2}
  MaxLive = 1
  MaxDaemons = 2
  MaxCommands = 2
  QueueLen = 2
  Faults = {"daemon_fork", "attach_fork", "daemon_death", "bad_root", "crash_loop", "zygote_death", "wedged", "hook", "cut", "rescan"}
SYMMETRY Symmetry
INVARIANTS TypeOK AtMostOneDaemon HookedCarryHooks InjectedIsBacked ServerFiredOnce
PROPERTY AnswerIsHonest
CHECK_DEADLOCK FALSE
