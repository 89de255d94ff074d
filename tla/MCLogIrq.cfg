CONSTANTS
  CPUs = {1, 2}
  SIZE = 8
  HEADER = 2
  Lengths = {0, 2, 3}
  MaxEntries = 3
SPECIFICATION Spec
INVARIANT SafeInInterrupts
CHECK_DEADLOCK FALSE
