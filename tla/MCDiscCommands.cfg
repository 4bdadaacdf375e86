SPECIFICATION MCSpec
CONSTANTS
  SectorBytes = 2
  OpusTrack = 3
  Part = {"D", "X", "inf", "."}
  Inf = "inf"
  BufferBytes = 3
  FileLengths = {0, 3}
  MostEntries = 2
  Total = 7
  Lengths = {0, 1, 3}
  ColWidth = 20
  MostListed = 5
  MostMixed = 3
  MaxSurface = 9
  MostTyped = 3
CHECK_DEADLOCK FALSE
INVARIANTS
  FinishedAreWhole AllExtracted
  UnusedAreTheFreeStretches SpaceAndFreeAddUp CatInColumns
  WildcardsAsDocumented FoundMeansListed
