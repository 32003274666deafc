CONSTANTS
  Proposals  = {}
  Positions  = {p1}
  Orders     = {o1, o2, o3}
  Signatures = {s1, s2, s3}
  NULL       = NULL
  Servers    = {w1}
  Tabs       = {b1}
  Closers    = {}
  Failures   = {"unheard"}
SYMMETRY Symmetry
CHECK_DEADLOCK FALSE
SPECIFICATION TriggerSpec
INVARIANT OneSwapPerOrder
