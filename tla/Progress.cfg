CONSTANTS
  NOTHING    = NOTHING
  Proposals  = {}
  Positions  = {p1}
  Orders     = {o1, o2, o3}
  Signatures = {s1, s2}
  NULL       = NULL
  Servers    = {w1}
  Tabs       = {b1}
  Closers    = {}
  Failures   = {}
  Watched    = {a1, a2}
  TickerOf  <- TickerOfOrder
  Cooldown   = 0
  Faults     = 1
  Made       = 3
  Batch      = 2
  Hour       = 1
  Broken     = {1}
  MaxFailures = 1
  InboxIds   = {1}
  ExpiresAt <- ExpiresInTurn
  StoreCap   = 1
  LastInboxHour = 2
  Polls      = 3
  CardFaults = {"lookup", "prompt"}
SPECIFICATION ProgressSpec
CHECK_DEADLOCK FALSE
PROPERTY ExecutableOrderIsReached
PROPERTY ClaimIsShortLived
PROPERTY DueProposalIsScored
PROPERTY StaleProposalLeavesTheFeed
PROPERTY SwitchIsFreed
