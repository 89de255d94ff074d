CONSTANTS
  queue_size = 8
  Threads = {t1, t2}
  MaxCalls = 3
  total_clusters = 3
  cluster_size = 2
  Slots = 2
  Names = {a, b, long}
  LongNames = {long}
  Cut = cut
  Handles = {h1}
  MaxSize = 3
SYMMETRY NameSymmetry
SPECIFICATION MCSpec
INVARIANTS
  RingSound NoCompletionMissing
    
CHECK_DEADLOCK FALSE
