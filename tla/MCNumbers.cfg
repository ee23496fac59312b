CONSTANTS
  Largest = 7
  WideLargest = 127
  LargestChar = 3
  Infinite = 17
  LeastInt <- SmallestInt
  GreatestInt = 3
  Digits = 3
  LargestReal = 20
  MantissaBits = 4
  LeastPower <- MCLeastPower
  GreatestPower = 4
  MaxPrecision = 3
  SmallestPlain <- MCSmallestPlain
  LargestPlain = 2
  Cells = {1, 2}
  Grids <- MCGrids
  Asked <- MCAsked
  MaxColumn = 12

SPECIFICATION Spec

INVARIANT ArithmeticIsExact
INVARIANT PowersAreExact
INVARIANT PassesAsPromised
INVARIANT RealPassesAsPromised
INVARIANT GridsLineUp
INVARIANT RealsReadBack
PROPERTY LoopsEnd

CHECK_DEADLOCK FALSE
