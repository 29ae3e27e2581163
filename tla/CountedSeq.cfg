SPECIFICATION Spec
CONSTANTS
  p1 = p1  p2 = p2  c1 = c1  c2 = c2  o = o  a = a  b = b
  Nothing = Nothing
  NoThread = NoThread
  Producers <- MCProducers
  Consumers <- MCConsumers
  Observers <- MCObservers
  Elements <- MCElements
  Size = 2
  MaxCount = 5
  WriteLimit = 5
INVARIANTS TypeOK
PROPERTIES ImplementsScspSeq ImplementsBoundedSeq FillNeverShort
