SPECIFICATION MCSpec
CONSTANTS
  SectorBytes = 2
  OpusTrack = 3
  LastStart = 5
  Lengths = {0, 2, 3}
CHECK_DEADLOCK FALSE
INVARIANTS
  ValidMeansDescending ValidMeansInside WellFormedAccepted ReadWhole ReadsOwnSectors
