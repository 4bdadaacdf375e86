SPECIFICATION MCSpec
CONSTANTS
  Numbers = {300, 600, 900, 1200}
  MaxLines = 4
  Listos = {0, 3, 5, 7}
  NumberBytes = {0, 1, 63, 64, 127, 128, 191, 192, 254, 255}
  ChangedTo = {0, 2, 6, 13, 24, 34, 141, 199, 200, 255}
CHECK_DEADLOCK FALSE
INVARIANTS
  ProgramsListed LoopsIndented CutRefused
