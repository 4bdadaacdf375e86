SPECIFICATION MCSpec
CONSTANTS
  MaxHfeTracks = 2
  MaxHfeSides = 3
  MaxHxcTracks = 2
  MaxSides = 2
  MaxEntries = 4
  MaxBeyond = 1
  HfeKinds = {"empty", "one", "zero", "first", "three", "gap", "twice", "cylinder", "head", "size"}
  HxcKinds = {"one", "zero", "first", "gap", "head"}
  Formats = {"none", "dfs"}
  Block = 3
  Bits = 4
  Values = {1, 3, 4, 241, 242, 243, 244, 245}
  SideBytes = 4
CHECK_DEADLOCK FALSE
INVARIANTS
  HfeReadsInPlace HxcReadsInPlace StreamInOrder StreamIsWhole
