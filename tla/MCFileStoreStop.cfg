CONSTANTS
  Capacity = 3
  OffsetLimit = 32
  VERSION = VERSION
  HEAD = HEAD
  TRAIL = TRAIL
  a = a
  b = b
  c = c
  Ids <- MCIds
  Items <- MCItems
  StopPhases = {"append", "table", "temp", "reply"}
  NoFile = NoFile
  MISSING = MISSING

SPECIFICATION Spec

INVARIANTS
  Durable

CHECK_DEADLOCK FALSE
