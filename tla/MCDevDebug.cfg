SPECIFICATION Spec
CONSTANTS
  c1 = c1
  c2 = c2
  m1 = m1
  m2 = m2
  s1 = s1
  NULL = NULL
  Clients <- MCClients
  Msgs <- MCMsgs
  Unknown <- MCUnknown
  Sections <- MCSections
  SerialSize = 3
  MaxOpens = 2
  c64_pwroff = TRUE
  Killable = {}
  Debuggers <- MCClients
  TornPosts = FALSE
SYMMETRY Symmetry
INVARIANTS
  ReservedIsPending
  PendingPowered
