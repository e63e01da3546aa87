SPECIFICATION Spec
CONSTANTS
  NumConnections = 2
  Clients = {c1, c2, c3}
  Types = {a, b}
  Files = {1}
  MaxStops = 1
  NoClient = NoClient
  Main = Main
  NoType = NoType
  NoThread = NoThread
INVARIANTS
  TypeOK
  NothingUsedAfterFree
PROPERTIES
  StopEnds
  ConnectionServed
CHECK_DEADLOCK FALSE
