SPECIFICATION FairSpec
CONSTANTS
  p1 = p1
  p2 = p2
  c = c
  n1 = n1
  n2 = n2
  n3 = n3
  n4 = n4
  null = null
  Producers <- TwoProducers
  Consumer = c
  Nodes <- FourNodes
  NoNode = null
  MaxPush = 2
INVARIANTS
  TypeOK
  HeapSound
  RejectedOnlyAtGap
PROPERTIES
  ImplementsTicketQueue
  ClaimsDelivered
