SPECIFICATION RetrySpec
CONSTANTS
  p1 = p1
  p2 = p2
  p3 = p3
  c = c
  Producers <- OneProducer
  Consumer = c
  Size = 3
  CounterMod = 4
  MaxPush = 5
PROPERTY AllDelivered
\* a lost element leaves the consumer waiting at its slot for ever
CHECK_DEADLOCK FALSE
