CONSTANTS
  N = 2
  MaxThreads = 4
SPECIFICATION Spec
INVARIANTS OneCpuPerThread
