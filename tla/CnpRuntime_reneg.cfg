SPECIFICATION RuntimeSpec
CONSTANTS
  Robots <- TwoRobots
  Tasks <- TwoTasks
  Managers <- OneManager
  MaxBid = 1
  ExpireTicks = 1
  MaxAwards = 2
  PauseAllowed = FALSE
  MaxQueue = 1
  MaxNews = 1
  RenegeBeforeStart = FALSE
INVARIANT OwnersHoldContracts
