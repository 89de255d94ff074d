CONSTANTS
  VfsThreads = {v1, v2}
  Names = {"a", "b"}
  QueueNames = {"a", "b"}
  NameLen <- NameLengths
  Dot = "."
  DotDot = ".."
  FileSystems = {11, 12}
  RamRoot = 11
  Nodes = {1, 2}
  RawPaths <- Given
  MountPaths <- MountedAt
  MaxMounts = 3
  FileThreads = {f1, f2}
  Files = {"f"}
  OpenFiles = {1, 2}
  Flags <- UsedFlags
  MaxFds = 2
  Counts = {1}
  MaxSize = 2
  DevThreads = {0, 1}
  Disks = {"d", "e"}
  BlockCount <- Blocks
  BlockSize = 2
  ReadOnly = {"e"}
  MaxDevices = 2
  QueueThreads = {q1, q2, q3}
  Priorities = {0, 1}
  CloseReleases = 2
  MaxQueue = 2
  Openers = {o1, o2, o3}
  MaxQueues = 4
  RcuThreads = {r1, r2, r3}
  Boxes = {1, 2, 3}
  Poppers = {r1}
  CPUs = {1, 2}
  SIZE = 8
  HEADER = 2
  Lengths = {0, 2, 3}
  MaxEntries = 3
  None = none
SPECIFICATION MCSpec
INVARIANTS
  DeepestMountWins OneNamePerNode OffsetShared NodeIsFlat OldestOfMostUrgent
  RemainingReceivable SameNameSameQueue RcuConserves 
CHECK_DEADLOCK FALSE
