CONSTANTS
  Threads = {t1, t2}
  Types = {1, 2, 3}
  MAX_DIFFERENT_ENTRY_TYPES = 2
  NULL = NULL
  NoThread = NoThread

SPECIFICATION SpecGroups

INVARIANTS
  GroupsTypeOK

PROPERTIES
  ImplementsRegistry
  MutexFreed
