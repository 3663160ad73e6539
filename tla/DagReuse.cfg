CONSTANTS
  v1 = v1
  v2 = v2
  v3 = v3
  No <- MCNo
  Zero = 0
  Par <- MCPar
  NoPar = NoPar
  NoDag = NoDag
  Other = Other
  Empty <- NoEmpty
  Bare = FALSE
SPECIFICATION Spec
INVARIANTS ReuseInv
PROPERTIES ExecutesAsked ImplementsService
