SPECIFICATION Spec
SYMMETRY Symmetry
CONSTANTS
  CPU = {c1, c2}
  NoCpu = NoCpu
  GranulesPerEntry = 2
  EntriesPer2MB = 2
  Fanout = 2
  BlocksPerL0 = 1
  L0Regions = 2
  RME_GPT_MAX_BLOCK = 3
  RME_GPT_BITLOCK_BLOCK = 1
  FEAT_RME_GPC2 = TRUE
  FEAT_RME_GDI = TRUE
  Boot <- MCBoot
INVARIANTS
  CachedEntriesAgree
  LinesBelong
  BlocksUniform
  BlocksMerged
  TablesMatchRegions
  CountedTablesTaken
PROPERTY ImplementsMap
CHECK_DEADLOCK FALSE
