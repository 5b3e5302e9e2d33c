\* The program may stop when all values are dropped.
SPECIFICATION Spec
CONSTANTS
  Handles = {h1, h2}
  Values <- MCValues
  Nothing = Nothing
  Addresses = {a1, a2}
  LayoutOf <- MCLayoutOf
  Word = 2
  MisalignedBox = FALSE
INVARIANTS HeapExact
PROPERTIES Owns
CHECK_DEADLOCK FALSE
