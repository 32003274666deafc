CONSTANTS
  Proposals  = {}
  Positions  = {p1}
  Orders     = {o1, o2, o3}
  Signatures = {s1, s2}
  NULL       = NULL
  Servers    = {w1}
  Tabs       = {b1}
  Closers    = {}
  Failures   = {"refused"}
CHECK_DEADLOCK FALSE
SPECIFICATION FairTriggerSpec
PROPERTY ClaimIsShortLived
