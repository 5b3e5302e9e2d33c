SPECIFICATION Spec
CONSTANTS
  Size = 7
  MaxPeek = 4
INVARIANTS TypeOK
PROPERTY IsInput
\* nothing happens after an error
CHECK_DEADLOCK FALSE
