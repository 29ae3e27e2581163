SPECIFICATION FairSpec
CONSTANTS
  p1 = p1  p2 = p2  c1 = c1  c2 = c2  c3 = c3  a = a  b = b
  Nothing = Nothing
  Producers <- MCProducers
  Consumers <- MCConsumers
  Elements <- MCElements
  Size = 2
  SizeRange = 4
INVARIANTS TypeOK WakeupsCover
PROPERTIES ImplementsBoundedQueue WaitersServed
