CONSTANTS
  Proposals  = {x1, x2}
  Positions  = {p1, p2}
  Orders     = {o1, o2, o3, o4, o5}
  Signatures = {s1, s2, s3}
  NULL       = NULL
SYMMETRY Symmetry
SPECIFICATION Spec
INVARIANT ClaimIsExclusive
INVARIANT LedgerMatchesPosition
INVARIANT ProposalBuysOnce
PROPERTY ClaimedPositionWaits
PROPERTY SettledIsFinal
PROPERTY ImplementsAbstract
