CONSTANTS
  Ids <- MCIds
  ItemsPerFile = 2
  Savers = {s1, s2}
  MaxLoaders = 2
  MaxPending = 2
  MaxSaves = 3

SPECIFICATION Spec

SYMMETRY SaverSymmetry

INVARIANTS
  TypeOK
  CacheFresh
  Searchable
  InfoExact

CHECK_DEADLOCK FALSE
