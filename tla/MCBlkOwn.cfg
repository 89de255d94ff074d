CONSTANTS
  queue_size = 8
  Threads = {t1, t2}
  MaxCalls = 3
SPECIFICATION BlkSpec
INVARIANT WaitsForItsOwn
CHECK_DEADLOCK FALSE
