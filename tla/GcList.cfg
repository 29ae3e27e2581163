SPECIFICATION Spec
CONSTANTS
  p1 = p1  p2 = p2  c1 = c1  c2 = c2  a = a  b = b
  n1 = n1  n2 = n2  n3 = n3  n4 = n4
  Nothing = Nothing
  Root = Root
  NoNode = NoNode
  NoThread = NoThread
  Producers <- MCProducers
  Consumers <- MCConsumers
  Elements <- MCElements
  Nodes <- MCNodes
SYMMETRY Alike
INVARIANTS TypeOK HeapSound
PROPERTIES ImplementsBoundedQueue
