SPECIFICATION Spec
CONSTANTS
  p1 = p1
  p2 = p2
  Procs = {p1, p2}
  MaxEntries = 2
  MaxChains = 4
  MaxAppends = 6
  MaxFaults = 2
SYMMETRY ProcSymmetry
INVARIANT VerifiedIsChained
INVARIANT InterleavingIsReported
INVARIANT LoneWriterIsExact
PROPERTY AppendOnly
CHECK_DEADLOCK FALSE
