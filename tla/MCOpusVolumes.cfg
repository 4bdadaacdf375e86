SPECIFICATION MCSpec
CONSTANTS
  SectorBytes = 256
  OpusTrack = 8
  Labels = 3
  Standard = {24, 32}
  Tracks = {3, 4, 5}
  MaxTrack = 5
CHECK_DEADLOCK FALSE
INVARIANTS
  VolumesTile CatalogsApart ReadsApart
