CONSTANTS
  Chunks <- MCChunks
  Ranges <- MCRanges
  MaxTask = 2
SPECIFICATION FairSpec
INVARIANTS WholeRange HierInv
PROPERTIES Completes
\* The group may be destroyed.
CHECK_DEADLOCK FALSE
