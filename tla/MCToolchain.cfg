CONSTANTS
  Rules <- MCRules
  Node <- MCNode
  Above <- MCAbove
  Given <- MCGiven
  Goals <- MCGoals
  Pulls <- MCPulls
  Removals <- MCRemovals
  Jobs = 2
  CanFail = TRUE
  CanCrash = TRUE
SPECIFICATION Spec
INVARIANTS
  TypeOK
  InputsReady
  SuccessMeansBuilt
PROPERTIES
  NothingTwice
