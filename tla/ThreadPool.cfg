SPECIFICATION PoolFairSpec
CONSTANTS
  Workers = {w1, w2, w3}
  Tasks = {k1, k2, k3, k4}
  NoTask = NoTask
INVARIANTS TaskOnce NoSleepOnWork
PROPERTIES PushedRuns DestroyReturns
