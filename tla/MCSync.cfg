CONSTANTS
  Threads = {t1, t2, t3}
  Capacity = 2
  SeqThreads = {t1, t2}
  NSEC = 2
  MaxSec = 1
  MaxSeq = 4
  Wrap = 4
  CPUs = {1, 2}
  N = 2
  Refill = FALSE
SPECIFICATION MCSpec
INVARIANTS
  QueueSound GuardsCounted NoTornRead FirstComeFirstServed LockSound
  
PROPERTIES ImplementsRwLock SomebodyGetsIn EveryTicketServed NoLostWakeup
