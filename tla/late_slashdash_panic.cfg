SPECIFICATION Spec
CONSTANTS
  MaxDepth = 3
  SlashDashAfterChildren = TRUE
  ResumeAfterError = FALSE
INVARIANT NoPanic
CHECK_DEADLOCK FALSE
