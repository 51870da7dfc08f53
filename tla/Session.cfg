SPECIFICATION FairSpec
CONSTANTS
  a1 = a1
  a2 = a2
  b1 = b1
  Clients = {a1, a2, b1}
  Path <- MCPath
  Methods <- MCMethods
  CacheName <- MCCacheName
  NoManager = NoManager
  Length <- MCLength
  MaxCrashes = 1
INVARIANTS PathsNotMixed CacheWhole ServedWhole
PROPERTIES EveryoneClosed
