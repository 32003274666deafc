CONSTANTS
  Proposals  = {}
  Positions  = {p1}
  Orders     = {o1, o2, o3, o4}
  Signatures = {s1, s2, s3}
  NULL       = NULL
  Servers    = {w1}
  Tabs       = {b1, b2}
  Closers    = {}
  Failures   = {"crash", "lost", "refused", "unknown"}
SYMMETRY Symmetry
CHECK_DEADLOCK FALSE
SPECIFICATION TriggerSpec
INVARIANT OneSwapPerOrder
