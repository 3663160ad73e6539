CONSTANTS
  k1 = k1
  k2 = k2
  k3 = k3
  p1 = p1
  p2 = p2
  p3 = p3
  NoTask = NoTask
  Task <- MCTask
  Thread <- MCThread
  Poppers <- OneThread
SPECIFICATION FairSpec
PROPERTIES RefinesLifo RoundsComplete
INVARIANTS StackInv
