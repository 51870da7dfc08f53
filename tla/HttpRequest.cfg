SPECIFICATION Spec
CONSTANTS
  Messages <- MCMessages
  BufferLength = 14
  HeaderLimit = 3
  MethodWidth = 2
  PathWidth = 2
  VersionWidth = 2
INVARIANTS OwnRequest InBuffer Forwarded
