CONSTANTS
  Producers = {p1, p2}
  Consumers = {c1, c2}
  Items = {a, b}
  Capacity = 2
  NoItem = NoItem
  NoThread = NoThread
  MaxSpurious = 1

SPECIFICATION Spec

INVARIANTS
  TypeOK
  NoLostWakeup

PROPERTIES
  ImplementsFifo
  CancelledThreadEnds

CHECK_DEADLOCK FALSE
