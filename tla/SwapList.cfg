SPECIFICATION FairSpec
CONSTANTS
  Swappers = {s1, s2}
  Comparers = {c1, c2}
  N = 5
  Shared = TRUE
  MaxSwaps = 2
INVARIANTS ListWhole PassSeesAll
PROPERTIES ThreadsEnd
