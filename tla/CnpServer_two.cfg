SPECIFICATION FairSpec
CONSTANTS
  Robots <- TwoRobots
  Tasks <- TwoTasks
  MaxBid = 2
  ExpireTicks = 2
  MaxAwards = 3
  PauseAllowed = TRUE
INVARIANT OneContractPerTask
INVARIANT ExclusionsMatchRecord
PROPERTY NoSilentHandover
PROPERTY AuctionsDecided
PROPERTY AwardsGoToHighestBid
