SPECIFICATION Spec
CONSTANT MaxNest = 20
INVARIANT TypeOK
PROPERTY IsStreamGrammar
\* done() consumes the validator
CHECK_DEADLOCK FALSE
