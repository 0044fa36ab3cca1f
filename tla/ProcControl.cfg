SPECIFICATION FairSpec
CONSTANTS
  p1 = p1
  p2 = p2
  NoPid = NoPid
  NumProcesses = 2
  Watched <- FirstWatched
  Targets <- OneOrAll
  Pids <- TwoPids
  HeartbeatLimit = 1
  SignalsAllowed = TRUE
CHECK_DEADLOCK FALSE
INVARIANT OneInstance
INVARIANT PidsAreOwn
INVARIANT ChildrenKnown
PROPERTY SupervisionKept
INVARIANT PublishedIsCurrent
PROPERTY WantedComesBack
PROPERTY UnwantedStops
PROPERTY HungIsReplaced
