SPECIFICATION FairSpec
CONSTANTS
  Clients = {c1, c2, c3}
  NoClient = NoClient
  MaxChunks = 2
  CharMax = 3
INVARIANTS WaitsForAll NoUseAfterFree InOrder WholeOrNothing RelocksOnlyForLate
PROPERTIES SessionEnds
