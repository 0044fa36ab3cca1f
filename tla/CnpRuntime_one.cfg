SPECIFICATION RuntimeSpec
CONSTANTS
  Robots <- TwoRobots
  Tasks <- OneTask
  Managers <- TwoRobots
  MaxBid = 1
  ExpireTicks = 1
  MaxAwards = 2
  PauseAllowed = TRUE
  MaxQueue = 2
  MaxNews = 1
  RenegeBeforeStart = FALSE
INVARIANT OwnersHoldContracts
INVARIANT AwardsMatchContracts
PROPERTY ContractsEndProperly
PROPERTY LossesAreReal
