CONSTANTS
  NoTask = NoTask
  main = main
  w1 = w1
  Thread <- MCThread
  Main = main
  Accesses <- MCAccesses
  Kinds <- MCKinds
  Near <- MCNear
  Block = {1, 2, 3}
  CORENUM = 3
  NODENUM = 1
  Beyond <- MCBeyond
  NumThreads = 8
  Segs = 2
  MaxTask = 2
  MaxTuple = 1
  MaxObj = 1
  MaxRound = 2
  UNITSIZE = 32
  Addresses <- MCAddresses
  Aligns = {8, 16, 32}
  Sizes = {1, 8, 20, 32}
  Requests = 2
  Named <- MCNamed
  Items = 2
  Calls = 3
SPECIFICATION Spec
INVARIANTS ClientInv ArgsIntact MemoryReturned AffinityInRange PoolSound RegistrationSound
\* The program ends, or has no memory left.
CHECK_DEADLOCK FALSE
