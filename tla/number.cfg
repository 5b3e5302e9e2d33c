\* The builder stops when it has read one number.
SPECIFICATION NumberSpec
CONSTANTS
  MaxLen = 5
  MaxInt = 15
  SlashBehind = FALSE
  OddFloats = FALSE
INVARIANTS AcceptsNumbers KeepsValue CoercesToValue
CHECK_DEADLOCK FALSE
