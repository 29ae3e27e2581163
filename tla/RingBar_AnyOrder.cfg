SPECIFICATION Spec
CONSTANTS
  v1 = v1
  v2 = v2
  m = m
  Visitors <- TwoVisitors
  Master = m
  Size = 2
  CounterMod = 4
  MaxVisits = 3
  MaxHeld = 2
  AnyOrder = TRUE
  SkipHolding = FALSE
INVARIANT ElementExclusive
