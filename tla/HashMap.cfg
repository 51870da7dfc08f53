SPECIFICATION FairSpec
CONSTANTS
  Threads = {t1, t2}
  Keys = {"a", "b", "c"}
  Hash <- MCHash
  Addresses = {n1, n2}
  NULL = NULL
  Requests = 3
INVARIANTS MapExact GetRight
PROPERTIES OperationsEnd
