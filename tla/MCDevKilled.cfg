SPECIFICATION FairSpec
CONSTANTS
  c1 = c1
  c2 = c2
  m1 = m1
  m2 = m2
  s1 = s1
  NULL = NULL
  Clients <- MCClients
  Msgs <- MCUnknown
  Unknown <- MCUnknown
  Sections <- MCSections
  SerialSize = 2
  MaxOpens = 2
  c64_pwroff = FALSE
  Killable <- MCClients
  Debuggers = {}
  TornPosts = FALSE
INVARIANTS
  OneInFlight
  CurrentIsPending
PROPERTIES
  Answered
  Recovers
