SPECIFICATION FairSpec
CONSTANTS
  c1 = c1
  p1 = p1
  p2 = p2
  laser = laser
  panel = panel
  plain = plain
  Clients = {c1}
  Params <- TwoParams
  Names <- ThreeNames
  Joined <- JoinedNames
  Split <- SplitNames
  Values <- TwoValues
  Convertible <- NumberAndText
  Wanted <- LaserPanelLaser
  QueueLimit = 2
INVARIANT CopiesCurrent
PROPERTY FeedsKept
PROPERTY CatchesUp
