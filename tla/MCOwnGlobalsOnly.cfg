CONSTANTS
  program = program
  geometry = geometry
  rival = rival
  MainFile = program
  Companions = {geometry, rival}
  Names <- MCNames
  Library = {"abs"}
  MainFn = "main"
  Trees <- MCTrees
  MaxDepth = 3

SPECIFICATION CrossSpec

INVARIANT OwnGlobalsOnly

CHECK_DEADLOCK FALSE
