CONSTANTS
  MaxVersion = 2
  MaxClock = 4
  LastModified = FALSE
  Width = 256
  First = 16
  History = 60
  Needs = {1, 16, 17, 40, 60, 61}
SPECIFICATION UpdateSpec
INVARIANTS
  TypeOK
  WholeReplyIsInstalled
  UnchangedArchiveKeepsItsTime
  EmptyReplyKeepsFormer
  UpToDateTreeIsWhole
  OverflowNeedsOutage
PROPERTIES
  LostOnlyAfterComparison
  DeepeningEnds
CHECK_DEADLOCK FALSE
