SPECIFICATION Spec
CONSTANTS
  Spt = 2
  MaxCylinders = 2
  Slack = 1
  CatSectors = 2
  SectorEntries = 2
  CachedSectors = 2
  Wrap = 64
CHECK_DEADLOCK FALSE
INVARIANTS
  DumpArgumentsFromZero
