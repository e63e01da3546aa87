SPECIFICATION Spec
CONSTANTS
  Calls <- MCCalls
  MaxCalls = 3
  SendBuffer = 2
INVARIANTS
  TypeOK
  Framed
  OwnAnswer
PROPERTIES
  CallReturns
CHECK_DEADLOCK FALSE
