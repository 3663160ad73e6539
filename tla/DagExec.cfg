CONSTANTS
  NoTask = NoTask
  main = main
  w1 = w1
  w2 = w2
  Task <- MCTask
  Thread <- MCThread
  Main = main
  Graphs <- MCGraphs
  GarbageFlag = {FALSE}
  GarbageRef = {7}
  MaxRound = 3
SPECIFICATION FairSpec
PROPERTIES ShutsDown RefinesDagSpec ImplementsDagSpec
INVARIANTS IInv NoDangling NoLeak
