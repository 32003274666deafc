CONSTANTS
  NOTHING  = NOTHING
  twin1    = twin1
  twin2    = twin2
  Holdings = {twin1, twin2}
  Size    <- SizeOf
  Dust     = 0
  Closers  = {s1, s2}
  MaxSales = 2
  ALL      = ALL
SPECIFICATION SalesSpec
CHECK_DEADLOCK FALSE
INVARIANT ClosingSellsOnlyItsPosition
