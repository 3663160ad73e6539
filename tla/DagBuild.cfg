CONSTANTS
  NoTask = NoTask
  a1 = a1
  a2 = a2
  Addr <- MCAddr
  Types <- MCTypes
  NThread = 3
  MaxTask = 5
  MaxTuple = 2
SYMMETRY Symmetry
CONSTRAINT Explored
SPECIFICATION Spec
INVARIANTS BuildInv NoFalseDependence FinishedWellFormed DependencesKept CheckDecides WarnsOfDependentLoops PartsAreComponents
