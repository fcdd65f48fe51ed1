SPECIFICATION Spec
CONSTANTS
  DayLength = 2
  Deadline = 1
  MaxTime = 4
  Equities = {0, 97, 100}
  MaxQuantity = 2
  MaxHeld = 2
  MaxPositionPct = 1
  MaxDailyLossPct = 3
  MaxIntradayLossPct = 2
  MaxDrawdownPct = 10
  MaxTrades = 2
  MaxLosses = 2
  MaxHold = 1
  MaxResets = 2
INVARIANT AnchorsAreToday
INVARIANT ApprovedUnderTradeLimit
INVARIANT AfterDeadlineOnlyReduces
CHECK_DEADLOCK FALSE
