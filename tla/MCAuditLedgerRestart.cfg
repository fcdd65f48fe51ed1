SPECIFICATION Spec
CONSTANTS
  p1 = p1
  p2 = p2
  Procs = {p1, p2}
  MaxEntries = 3
  MaxChains = 2
  MaxAppends = 3
  MaxFaults = 0
INVARIANT RestartIsNoAnomaly
CHECK_DEADLOCK FALSE
