SPECIFICATION Spec
CONSTANTS
  Child = {c1, c2}
  Trace = {t1, t2}
  Prohibited = {t2}
  Fd = {}
  AllowedFd = {}
  App <- ThreeApps
  Faults = {"daemon", "umount", "namespace"}
SYMMETRY Symmetry
INVARIANTS DenylistSeesNoTrace GrantedSeesMounts
CHECK_DEADLOCK FALSE
