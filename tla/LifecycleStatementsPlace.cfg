CONSTANTS
  Proposals  = {x1}
  Sessions   = {t1, t2}
  Positions  = {p1}
  Orders     = {o1, o2, o3, o4}
  Signatures = {s1, s2}
  NULL       = NULL
  Operations <- All
SYMMETRY Symmetry
SPECIFICATION StatementSpec
INVARIANT MoneyStaysConsistent
