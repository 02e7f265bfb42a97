CONSTANTS
  Rules <- MCRules
  Node <- MCNode
  Above <- MCAbove
  Given <- MCGiven
  Goals <- MCGoals
  Pulls = {}
  Removals = {}
  Jobs = 2
  CanFail = FALSE
  CanCrash = FALSE
  Caller = "build/ndk-include_ndk"
  ChildGoal <- MCChildGoal
SPECIFICATION NestedSpec
INVARIANTS
  OneWriterOfBoth
