CONSTANT
  Cases <- MCRealElements

SPECIFICATION CallSpec

INVARIANT ReferencesComeBack

CHECK_DEADLOCK FALSE
