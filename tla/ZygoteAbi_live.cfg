SPECIFICATION FairSpec
CONSTANTS
  Zygote = {z1}
  MaxLive = 1
  MaxDaemons = 2
  MaxCommands = 3
  QueueLen = 2
  Faults = {"daemon_death", "zygote_death", "wedged"}
PROPERTIES RearmIsAnswered HeartbeatArrives
CHECK_DEADLOCK FALSE
