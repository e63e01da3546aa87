SPECIFICATION Spec
CONSTANTS
  Threads = {t1, t2, t3}
  Ids = {1, 2}
  Items <- TwoItems
  NumItemsPerFile = 1
  DirCount = 1
  NumEntries = 3
  FILEID_MAX = 99
  NoFile = NoFile
  NoThread = NoThread
  NoEntry = NoEntry
  NoId = NoId
  NoItem = NoItem
  MISSING = MISSING
  DAMAGED = DAMAGED
  BROKEN = BROKEN
  GARBAGE = GARBAGE
  FAILED = FAILED
INVARIANT TypeOK
PROPERTIES
  ImplementsAtomicStore
SYMMETRY ThreadSymmetry
