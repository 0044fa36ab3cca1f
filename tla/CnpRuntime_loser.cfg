SPECIFICATION FairRuntimeSpec
CONSTANTS
  Robots <- TwoRobots
  Tasks <- OneTask
  Managers <- OneManager
  MaxBid = 1
  ExpireTicks = 1
  MaxAwards = 2
  PauseAllowed = FALSE
  MaxQueue = 1
  MaxNews = 1
  RenegeBeforeStart = FALSE
PROPERTY BiddersLearnOutcome
