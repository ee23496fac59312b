CONSTANTS
  x = x
  Names = {x}
  MaxItems = 7
  MaxDepth = 3

SPECIFICATION ScopesSpec

INVARIANT ReadsFollowScopes
INVARIANT NeverFallsOff
INVARIANT DeclaredOnce

CHECK_DEADLOCK FALSE
