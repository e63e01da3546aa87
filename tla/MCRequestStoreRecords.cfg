SPECIFICATION Spec
CONSTANTS
  Threads = {t1, t2}
  Ids = {3, 4, 5}
  Items = {a, b}
  NumItemsPerFile = 3
  DirCount = 4
  NumEntries = 2
  FILEID_MAX = 99
  NoFile = NoFile
  NoThread = NoThread
  NoEntry = NoEntry
  NoId = NoId
  NoItem = NoItem
  MISSING = MISSING
  DAMAGED = DAMAGED
  BROKEN = BROKEN
  GARBAGE = GARBAGE
  FAILED = FAILED
PROPERTIES
  ImplementsAtomicStore
  GetAnswered
