CONSTANTS
  total_pages = 6
  Callers = {1, 2, other}
  Other = other
  None = none
  Threads = {t1, t2}
  Names = {n1}
  Builtin = n1
  MaxModules = 2
  MaxPages = 3
SPECIFICATION Spec
INVARIANT RefKeepsModule
CHECK_DEADLOCK FALSE
