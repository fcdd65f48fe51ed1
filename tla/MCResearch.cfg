SPECIFICATION Spec
CONSTANTS
  t1 = t1
  t2 = t2
  Threads = {t1, t2}
  Seeds = {"random"}
  Salts = {"a", "b"}
  Steps = 1
  MinFit = 2
  MinReview = 5
  MinScreen = 3
  Walked = 2
  FirstBar = 2
  Ahead = 1
  MaxRuns = 3
  Jobs <- JobsAsked
  Cent = 10
  SuiteReadings <- SuiteReadingsSeen
  BarReadings <- BarReadingsSeen
  Assets = {1, 2, 3}
  Days = 3
  Levels = {1, 2, 3}
  OrbBars = 2
  MinRest = 1
  MaxBar = 6
  MaxRows = 24
  MaxAudit = 7
  Folds = 3
  PerFold = 2
  Embargo = 2
  MinTrain = 2
  WarmUp = 2
  Horizon = 2
  Minute = 4
  MaxTime = 9
  MaxTicks = 4
  MaxCuts = 1
  Bins = 4
  MaxVolume = 4
  Slices = 3
  MaxShares = 5
  MaxBars = 5
  MaxTraded = 2
SYMMETRY Symmetry
CHECK_DEADLOCK FALSE
INVARIANT LoneForecastsRepeat
INVARIANT JudgedByUnseen
INVARIANT PlansAreSound
INVARIANT GatesAgree
INVARIANT BarsMatchTicks
INVARIANT ValueAreaIsTight
INVARIANT EveryShareIsSliced
