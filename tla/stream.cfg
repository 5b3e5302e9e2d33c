SPECIFICATION FairSpec
CONSTANTS
  MaxDepth = 3
  SlashDashAfterChildren = FALSE
  ResumeAfterError = FALSE
INVARIANTS TypeOK ValidStream NoPanic DepthAgrees LookaheadFits
PROPERTY CallReturns
\* the program may stop calling; after an error it must
CHECK_DEADLOCK FALSE
