SPECIFICATION Spec
CONSTANTS
  MaxNest = 2
  MaxHashes = 3
  SplitNewline = FALSE
  Overlap = FALSE
  Unclosed = FALSE
INVARIANTS TypeOK Progresses CommentsMatch
PROPERTIES Promised WholeNewlines EofComes
