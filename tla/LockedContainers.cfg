SPECIFICATION Spec
CONSTANTS
  t1 = t1  t2 = t2  t3 = t3  a = a  b = b
  Nothing = Nothing
  NoThread = NoThread
  Threads <- MCThreads
  Elements <- MCElements
  Containers <- MCContainers
  Capacity = 2
  SizeRange = 4
INVARIANTS TypeOK GrabUndisturbed WakeupsCover
PROPERTIES ImplementsBoundedQueue
