CONSTANTS
  N = 1
  MaxThreads = 3
SPECIFICATION PreemptiveSpec
PROPERTIES TimerPreempts
