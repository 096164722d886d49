SPECIFICATION Spec
CONSTANTS
  Child = {c1, c2}
  Trace = {t1}
  Prohibited = {}
  Fd = {}
  AllowedFd = {}
  App <- ThreeApps
  Faults = {}
SYMMETRY Symmetry
INVARIANT IsolatedSeesNoTrace
CHECK_DEADLOCK FALSE
