SPECIFICATION TestSpec
CONSTANTS
  Threads = {t1, t2, t3}
  Increments = 2
  NoTid = NoTid
INVARIANTS MutualExclusion OwnerNotRefused NoLostWakeup CountersFinal
PROPERTIES Termination
