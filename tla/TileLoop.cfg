CONSTANTS
  Nests <- MCNests
SPECIFICATION TileSpec
INVARIANTS ComputedOnce TileOfData
\* The program ends.
CHECK_DEADLOCK FALSE
