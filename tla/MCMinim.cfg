SPECIFICATION Spec
CONSTANTS
  c1 = c1
  c2 = c2
  NULL = NULL
  Clients <- MCClients
  NumBlocks = 5
  BlockSize = 2
  WordSize = 16
  Requests <- MCRequests
INVARIANTS
  Tiling
  Coalesced
PROPERTIES
  ClosedOwnsNothing
  ImplementsPool
