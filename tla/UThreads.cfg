SPECIFICATION Spec
CONSTANTS
  Tasks = {k1, k2, k3, k4}
  NoTask = NoTask
  MaxYields = 2
  MaxRuns = 2
INVARIANTS StatusTruthful InStep
PROPERTIES OnlyPredecessorMissed MainTasksFinish
