SPECIFICATION Spec
CONSTANTS
  Clients = {c1, c2}
  NoClient = NoClient
  MaxChunks = 1
  CharMax = 1
INVARIANTS WaitsForAll
