SPECIFICATION Spec
CONSTANTS
  c = c  null = null
  n1 = n1  n2 = n2  n3 = n3  n4 = n4
  Consumer = c
  NoNode = null
  Nodes <- MCNodes
  rcount = 2
  RingSize = 2
  CounterMod = 2
  BufferShares <- MCShares
  RingCount = 3
  Programs <- MCPrograms
SYMMETRY Alike
INVARIANTS TypeOK OneOwner DataRaceFree
PROPERTIES LinesAreQueues EveryArmServed
