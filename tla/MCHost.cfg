SPECIFICATION Spec
CONSTANTS
  Builds = {"platform", "plain"}
  Fails <- MCFails
  PAGESIZE = 4
  NumPages = 8
  fast_mmap <- MCFast
  Registers <- MCRegisters
  Blocks <- MCBlocks
  MapFails = TRUE
  NULL = NULL
INVARIANTS OutLeavesNothing HandlerReady LandsWhereMeant DownLeavesNothing
