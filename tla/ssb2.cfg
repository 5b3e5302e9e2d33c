SPECIFICATION Ssb2Spec
CONSTANTS
  MaxInline = 5
  MaxBytes = 8
  Release = FALSE
  PushAfterTruncate = FALSE
INVARIANT Faithful
