SPECIFICATION BuffersFairSpec
CONSTANTS
  N = 6
  LineSize = 2
  Vals = {0, 1}
  BlockTypes = {"NONE", "RW", "R"}
  NUM_QDMAS = 2
  NumParams = 4
  CountSpace = 8
  Outs = {2, 3}
  Size = 2
  Chains <- MCChains
INVARIANTS Delivered NeighboursKept
PROPERTIES Answered
