SPECIFICATION FairSpec
CONSTANTS
  p1 = p1
  p2 = p2
  p3 = p3
  c = c
  Producers <- ThreeProducers
  Consumer = c
  Size = 2
  CounterMod = 4
  MaxPush = 2
INVARIANTS
  TypeOK
  TokensConserved
  SlotExclusive
  HandoversOrdered
PROPERTIES
  ImplementsTicketQueue
  ClaimsDelivered
