SPECIFICATION Spec
CONSTANTS
  p1 = p1
  p2 = p2
  c1 = c1
  c2 = c2
  x = x
  y = y
  None = None
  Producers = {p1, p2}
  Consumers = {c1, c2}
  Items = {x, y}
  CAPACITY = 2
INVARIANT NoLostWakeup
PROPERTY ImplementsClosableQueue
