CONSTANTS
  MaxVersion = 2
  MaxClock = 4
  LastModified = TRUE
  Width = 256
  First = 16
  History = 60
  Needs = {1, 16, 17, 40, 60, 61}
SPECIFICATION UpdateSpec
INVARIANT UpToDateTreeIsWhole
CHECK_DEADLOCK FALSE
