CONSTANTS
  s = s
  t = t
  r = r
  A = A
  B = B
  Texts = {s, t}
  Rows = {r}
  Tables = {A, B}
  Elements = {0, 1}
  Shapes <- MCShapes
  Bodies <- MCBodies
  MaxHeap <- MCMaxHeap

SPECIFICATION HeapSpec

PROPERTY AssignmentAlwaysCopies

CHECK_DEADLOCK FALSE
