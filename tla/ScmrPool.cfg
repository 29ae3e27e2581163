SPECIFICATION FairSpec
CONSTANTS
  c = c
  r1 = r1
  r2 = r2
  Consumer = c
  Releasers <- TwoReleasers
  InitCount = 1
  NodeCount = 3
INVARIANTS
  TypeOK
  NodesIntact
PROPERTIES
  ImplementsElementPool
  ReleasedReturns
