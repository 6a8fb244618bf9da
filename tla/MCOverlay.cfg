SPECIFICATION FairSpec
CONSTANTS
  c1 = c1
  c2 = c2
  a = a
  b = b
  x = x
  y = y
  NULL = NULL
  Clients = {c1, c2}
  Images = {a, b, x, y}
  Wanted = {a, b, y}
  NoFile = {x, y}
  Area3 = {b}
  Second <- SecondOf
  Flaky = {a}
  AREA3 = 1
  NumSlots = 2
  Mortal = {"open", "find", "ref", "alloc", "map", "register", "unwind", "end", "closing"}
  MaxKills = 1
  MaxLeaked = 1
INVARIANTS HeldIsCallable  
PROPERTIES SequenceEnds
