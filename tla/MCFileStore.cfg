CONSTANTS
  Capacity = 3
  OffsetLimit = 32
  VERSION = VERSION
  HEAD = HEAD
  TRAIL = TRAIL
  a = a
  b = b
  c = c
  Ids <- MCIds
  Items <- MCItems
  StopPhases = {"temp", "reply"}
  NoFile = NoFile
  MISSING = MISSING

SPECIFICATION Spec

INVARIANTS
  TypeOK
  LayoutExact
  Durable

PROPERTIES
  ImplementsStore
