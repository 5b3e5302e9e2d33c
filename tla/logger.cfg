SPECIFICATION FairSpec
CONSTANTS
  Threads = {1, 2}
  MaxDay = 1
  MaxCalls = 3
  MaxNesting = 3
INVARIANTS TypeOK ConsoleWhole DayKnown DatesChange
PROPERTY Returns
\* every call has been made
CHECK_DEADLOCK FALSE
