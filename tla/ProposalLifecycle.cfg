CONSTANTS
  Proposals  = {x1, x2, x3}
  Positions  = {p1}
  Orders     = {o1, o2, o3}
  Signatures = {s1, s2}
  NULL       = NULL
  Generators = {g1, g2}
  Monitors   = {m1}
  Tabs       = {b1}
SYMMETRY Symmetry
CONSTRAINT TicksRaceAlone
SPECIFICATION ProposalSpec
INVARIANT BoughtOnce
INVARIANT DecisionsPerWriter
INVARIANT ExecutedSellClosedItsPosition
