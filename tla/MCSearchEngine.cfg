SPECIFICATION Spec
CONSTANTS
  Clients = {c1, c2}
  Threads = {t1, t2}
  Capacity = 2
  FirstTop = 1
  MaxTop = 2
  MaxStarts = 2
INVARIANTS
  TypeOK
  ResultsComplete
  OwnSearch
  NotUsedAfterFree
PROPERTIES
  SearchCompletes
CHECK_DEADLOCK FALSE
