SPECIFICATION NSpec
CONSTANTS
  Names <- MCNames
  Entries <- MCEntries
  Nodes <- MCNodes
  Documents <- MCDocuments
  Height <- MCHeight
INVARIANTS TypeOK ValidEvents RoundTrip Conserved LookupsKept
PROPERTY Finishes
\* the iterator is done when the document is built
CHECK_DEADLOCK FALSE
