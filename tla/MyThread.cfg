SPECIFICATION CloneSpec
CONSTANTS
  N = 3
  Regions = {r1, r2}
  NoRegion = NoRegion
INVARIANTS StackKept OnlyRefusedLeft
