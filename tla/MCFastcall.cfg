SPECIFICATION FairSpec
CONSTANTS
  c1 = c1
  c2 = c2
  NULL = NULL
  Clients = {c1, c2}
  NumCalls = 3
  Overlap = {}
  Slow = {c1, c2}
  Mortal = {c1, c2}
INVARIANTS OwnResult ServesTheCaller
PROPERTIES DspFreed CallsReturn
