SPECIFICATION Spec
CONSTANTS
  Child = {c1}
  Trace = {}
  Prohibited = {}
  Fd = {f1, f2}
  AllowedFd = {f2}
  App <- TwoApps
  Faults = {"daemon", "fork", "array", "proc", "restore", "hook", "jni", "unregister"}
INVARIANTS TypeOK FrameworkAcceptsFds UnmappedIsUnhooked SigchldIsUnblocked
CHECK_DEADLOCK FALSE
