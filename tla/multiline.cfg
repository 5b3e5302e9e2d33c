SPECIFICATION Spec
CONSTANTS
  Spaces <- MCSpaces
  Breaks <- MCBreaks
  Visible <- MCVisible
  MaxIndent = 2
  BlankStart = FALSE
  Unclosed = FALSE
INVARIANTS TypeOK SkipAgrees
\* a string that is closed has been read
CHECK_DEADLOCK FALSE
