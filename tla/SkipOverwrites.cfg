CONSTANTS
  Proposals  = {x1, x2}
  Positions  = {p1}
  Orders     = {o1, o2, o3}
  Signatures = {s1}
  NULL       = NULL
  Generators = {g1}
  Monitors   = {}
  Tabs       = {b1}
SYMMETRY Symmetry
SPECIFICATION ProposalSpec
PROPERTY ExecutedIsNotSkipped
