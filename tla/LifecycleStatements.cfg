CONSTANTS
  Proposals  = {x1}
  Sessions   = {t1, t2}
  Positions  = {p1}
  Orders     = {o1, o2, o3, o4, o5}
  Signatures = {s1, s2}
  NULL       = NULL
  Operations <- Atomic
SYMMETRY Symmetry
SPECIFICATION StatementSpec
INVARIANT InvariantErrorUnreachable
INVARIANT OrderFirstNeverDeadlocks
PROPERTY CommitsAreLifecycleSteps
