SPECIFICATION FairSpec
CONSTANTS
  asset = asset
  Assets = {asset}
  MaxScans = 3
  MaxCrashes = 1
  MaxStarts = 2
  MaxRuns = 4
INVARIANT ExecutedIsGenuine
INVARIANT AtMostThrice
INVARIANT TornNeedsOverlap
PROPERTY AnnouncedIsExecuted
CHECK_DEADLOCK FALSE
