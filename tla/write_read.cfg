SPECIFICATION FairSpec
CONSTANTS
  MaxDepth = 0
  SlashDashAfterChildren = FALSE
  ResumeAfterError = FALSE
  MaxNest = 4
  Texts = {"Plain"}
  Numbers = {"Plain"}
INVARIANTS WriteReadTypeOK RoundTrip IndentIsDepth Prompt
PROPERTY Delivered
\* the producer may stop writing, the consumer stops when it is done
CHECK_DEADLOCK FALSE
