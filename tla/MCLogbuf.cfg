SPECIFICATION FairSpec
CONSTANTS
  Size = 10
  Lengths = {2, 3, 5}
  MaxChars = 42
  Burst = 5
  AnyStart = FALSE
INVARIANTS NeverStuck
PROPERTIES InOrder AllPrinted
