SPECIFICATION MCSpec
CONSTANTS
  InputBufSize = 2
  OutputBufSize = 3
  MaxStream = 4
  MaxGain = 4
  MaxExtra = 2
CHECK_DEADLOCK FALSE
INVARIANTS
  WholeIfDone SoundIsOpened
PROPERTIES
  Ending
