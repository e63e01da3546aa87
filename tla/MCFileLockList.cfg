CONSTANTS
  Threads = {t1, t2, t3}
  FileIds = {f1, f2, f3, f4}
  NumEntries = 3
  FILEID_MAX = FILEID_MAX
  NoFile = NoFile
  NoThread = NoThread
  NoEntry = 0

SPECIFICATION Spec

INVARIANTS
  TypeOK
  TableExact
  HoldersExact
  FileExclusion
  LockNeverFails

PROPERTIES
  ImplementsRWLocks
  ReaderGranted
  NeverBlockedByNobody
