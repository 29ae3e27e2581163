SPECIFICATION FairSpec
CONSTANTS
  v1 = v1
  v2 = v2
  m = m
  Visitors <- TwoVisitors
  Master = m
  Size = 2
  CounterMod = 4
  MaxVisits = 3
  MaxHeld = 2
  AnyOrder = FALSE
  SkipHolding = FALSE
INVARIANTS
  TypeOK
  ElementsAccounted
  HandoversOrdered
PROPERTIES
  ImplementsTicketQueue
  ElementsServed
