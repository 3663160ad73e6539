CONSTANTS
  NoTask = NoTask
  main = main
  w1 = w1
  mpi = mpi
  Task <- MCTask
  Thread <- MCThread
  Main = main
  Mpi = mpi
  Graphs <- MCGraphs
  Blocking <- MCBlocking
  Kinds <- MCKinds
  GarbageRef = 7
  MaxSuspend = 2
  MaxRound = 2
SPECIFICATION FairSpec
INVARIANTS ResumedWhenReady MpiInv
PROPERTIES ImplementsDag
