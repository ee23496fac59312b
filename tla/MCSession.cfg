CONSTANTS
  main = main
  f = f
  globals = globals
  Functions <- MCFunctions
  Main = main
  Initializer = globals
  Id <- MCId
  Limit <- MCLimit
  UnitOf <- MCUnitOf
  Lines <- MCLines
  Overall = 2
  Counted = 1
  Settings = {"0", "1"}
  Places <- MCPlaces
  Orders = {"c", "s", "n", "o", "w", "q"}
  BreakCapacity = 2
  MaxInbox = 1

SPECIFICATION SessionSpec

INVARIANT PlacesAreRight
INVARIANT DepthIsKept
INVARIANT PrintedTextIsSeen
INVARIANT BreakpointsAreTheOnesAsked
PROPERTY StopsExactlyWhereAsked
PROPERTY AClosedChannelLetsItRun

CHECK_DEADLOCK FALSE
