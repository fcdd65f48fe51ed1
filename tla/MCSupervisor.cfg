SPECIFICATION Spec
CONSTANTS
  c1 = c1
  c2 = c2
  web = web
  nexus = nexus
  id1 = id1
  id2 = id2
  Commands = {c1, c2}
  Services = {web, nexus}
  Pids = {id1, id2}
  NoPid = NoPid
  Nothing = Nothing
  Foreign = Foreign
  Absent = Absent
  Empty = Empty
  Garbage = Garbage
  MaxCalls = 3
  MaxFaults = 1
SYMMETRY Identities
INVARIANT LoneCommandsTrack
INVARIANT WholeUnlessOverlapped
CHECK_DEADLOCK FALSE
