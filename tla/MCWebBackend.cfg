SPECIFICATION Spec
CONSTANTS
  c1 = c1
  c2 = c2
  h1 = h1
  h2 = h2
  s1 = s1
  s2 = s2
  s3 = s3
  f1 = f1
  f2 = f2
  Clients = {c1, c2}
  Ttl = 2
  MaxClock = 4
  MaxWrites = 2
  Guards = {c1, c2}
  MaxBoots = 2
  MaxEdits = 2
  MaxChecks = 6
  MaxKills = 2
  Pollers = {c1, c2}
  Headlines = {h1, h2}
  Window = 3
  MaxPolls = 4
  Sockets = {s1, s2, s3}
  TapeFills = {f1, f2}
  Grain = 3
  Prices = {0, 1, 4, 5, 9}
  Quantities = {1}
  Mid = 4
  MaxLevels = 2
  MaxEvents = 4
  MaxTrades = 1
  Shares = {1, 7}
  MinChild = 3
  Slices = 2
  MaxRequests = 3
  MaxStarts = 2
SYMMETRY Symmetry
INVARIANTS LiveIsRecent LocalIsCurrent TriggersAreKept LoneRequestsKeepHistory NobodyIsSkipped
INVARIANTS BookIsGenuine CalmQuotesAgree AlwaysShort RequestsAreServedOnce
CHECK_DEADLOCK FALSE
