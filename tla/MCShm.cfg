SPECIFICATION FairSpec
CONSTANTS
  Procs = {p1}
  NumContig = 2
  Cma = {11, 12, 13}
  HugeBases = {18, 20}
  L1 = 15
  L2 = 16
  LOG = 17
  HugePage = 2
  MaxPages = 2
  Sizes = {1, 3}
  Virt = {31, 32, 33, 34, 35, 36, 37, 38, 39, 40, 41}
  Space = 64
  MaxFaults = 1
  ResumeFails = FALSE
INVARIANTS RoundTrip CacheFindsRegion MappedIsOwned
PROPERTIES ClosedIsReleased
