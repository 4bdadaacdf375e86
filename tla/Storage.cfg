\* Two physical discs: both strategies run out of slots.
CONSTANTS
  Limit = 7
  MaxSides = 3
  MaxFiles = 3
  Formatted = {TRUE, FALSE}
SPECIFICATION FairSpec
INVARIANTS
  PhysicalDiscIntact
  NoDanglingDrive
  MountsALiveDisc
PROPERTIES
  ImplementsDriveMap
  LoopsEnd
