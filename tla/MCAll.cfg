CONSTANTS
  Rules <- ScratchRules
  Node <- ScratchNode
  Above <- ScratchAbove
  Given <- ScratchGiven
  Goals <- MCGoals
  Pulls <- MCPulls
  Removals <- MCRemovals
  Jobs = 2
  CanFail = FALSE
  CanCrash = FALSE
SPECIFICATION Spec
INVARIANTS
  InputsReady
