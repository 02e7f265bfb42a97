CONSTANTS
  Rules <- LibraryRules
  Node <- LibraryNode
  Above <- LibraryAbove
  Given <- LibraryGiven
  Goals <- LibraryGoals
  Pulls <- Updates
  Removals <- MCRemovals
  Jobs = 1
  CanFail = FALSE
  CanCrash = FALSE
SPECIFICATION Spec
INVARIANTS
  SuccessMeansBuilt
PROPERTIES
  NothingTwice
