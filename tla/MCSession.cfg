CONSTANTS
  Job <- Jobs
  Contains <- Containing
  HasFlock = TRUE
  Module = {"gcc", "libnix", "nix"}
  Url = {"gcc.git", "libnix.git", "elsewhere"}
  Branch = {"master", "amiga6", "libnix-next"}
  Holds <- Words
  Defaults <- Lists
  CanKill = TRUE
  None = None
SPECIFICATION SessionSpec
INVARIANTS
  TypeOK
  ListedJobsRun
  UpdateRepairs
PROPERTIES
  LinesLeaveRightly
  TableChangesAsPromised
  BranchChangesItsLine
