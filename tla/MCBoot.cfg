SPECIFICATION FairSpec
CONSTANTS
  Loaders = {l1}
  Clients = {c1, c2}
  Images <- ImageFiles
  Overlays <- OverlayFiles
  Resident <- Low
  OverlayArea <- High
  ResetVector = 1
  NULL = NULL
  Reload = FALSE
  SlowStart = TRUE
  NoMapping = TRUE
  CinitUnread = FALSE
  Mortal = {l1}
INVARIANTS
  RunsWholeImage
  StateTellsHardware
  ServesItsImage
  OverlayLinked
PROPERTY
  CallsReturn
