CONSTANTS
  program = program
  geometry = geometry
  rival = rival
  MainFile = program
  Companions = {geometry, rival}
  Names <- MCNames
  Library = {"abs"}
  MainFn = "main"
  Trees <- MCTrees
  MaxDepth = 3

SPECIFICATION CrossSpec

INVARIANT SearchIsExact
INVARIANT GlobalsArriveWithReaders
INVARIANT NothingReadBeforeItIsMade
INVARIANT EachFileFindsItsGlobals
INVARIANT UnknownMeansNobodyHasIt
PROPERTY ImplementsClosure
PROPERTY Terminates

CHECK_DEADLOCK FALSE
