SPECIFICATION SwitchFairSpec
CONSTANTS
  router = router
  engine = engine
  Traders = {router, engine}
  MaxKills = 1
  MaxHaltResets = 1
  MaxStarts = 1
  MaxFails = 0
  MaxLate = 2
PROPERTY ResetResumes
CHECK_DEADLOCK FALSE
