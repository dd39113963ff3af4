SPECIFICATION Spec
CONSTANTS
  MaxLen = 6
  Chars = {"a", "b", "/"}
  PathStrings <- MCPathStrings
  Trees <- MCTrees
CHECK_DEADLOCK FALSE
INVARIANTS
  WalkFollowsComponents
  GetAgrees
  CreateAgrees
PROPERTIES
  WalkEnds
