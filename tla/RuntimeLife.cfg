CONSTANTS
  NoTask = NoTask
  None = None
  Task = {1, 2, 3}
  After <- MCAfter
  ThreadNums = {1, 3}
  MayFail = TRUE
  MaxInit = 2
  MaxRound = 2
  Unset = Unset
  CoreNum = {0, 1, 2, 3}
  ListLen = 3
  Given = {0, 1, 2, 3}
  MAX_THREADS = 12
SPECIFICATION FairSpec
INVARIANTS LifeInv CoresOfStarts
PROPERTIES RoundsEnd Stops
\* The program ends.
CHECK_DEADLOCK FALSE
