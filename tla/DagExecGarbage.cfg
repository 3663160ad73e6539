CONSTANTS
  NoTask = NoTask
  main = main
  w1 = w1
  w2 = w2
  Task <- MCTask
  Thread <- MCThread
  Main = main
  Graphs <- MCGraphs
  GarbageFlag = {TRUE, FALSE}
  GarbageRef = {7}
  MaxRound = 2
SPECIFICATION Spec
INVARIANTS NoLeak
