SPECIFICATION MCSpec
CONSTANTS
  SectorBytes = 256
  OpusTrack = 18
  Starts = {{}, {2}, {3, 258}}
  Compressed = {FALSE, TRUE}
CHECK_DEADLOCK FALSE
INVARIANTS
  PlacesSectors ConventionalIsMounted
PROPERTIES
  SidesAgree
