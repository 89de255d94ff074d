CONSTANTS
  Threads = {t1, t2, t3}
  Capacity = 1
SPECIFICATION FairSpec
PROPERTIES CloseWakesReceivers
CHECK_DEADLOCK FALSE
