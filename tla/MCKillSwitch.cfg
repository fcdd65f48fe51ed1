SPECIFICATION SwitchFairSpec
CONSTANTS
  router = router
  engine = engine
  Traders = {router, engine}
  MaxKills = 2
  MaxHaltResets = 2
  MaxStarts = 2
  MaxFails = 1
  MaxLate = 2
INVARIANT AtMostOneLateOrder
INVARIANT NoKillForgotten
PROPERTY DashboardCatchesUp
PROPERTY KillTakesEffect
CHECK_DEADLOCK FALSE
