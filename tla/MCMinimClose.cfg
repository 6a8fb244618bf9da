SPECIFICATION FairSpec
CONSTANTS
  c1 = c1
  c2 = c2
  NULL = NULL
  Clients <- MCClients
  NumBlocks = 3
  BlockSize = 2
  WordSize = 16
  Requests <- MCRequests
PROPERTIES
  CloseEnds
