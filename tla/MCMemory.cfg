CONSTANTS
  total_pages = 6
  Callers = {1, 2, other, c1, c2}
  Other = other
  None = none
  Absent = absent
  Threads = {t1, t2}
  Names = {n1}
  Builtin = n1
  MaxModules = 2
  MaxPages = 3
  Base = 8
  PltBase = 16
  Sizes = {3}
  Aligns = {1, 4}
  MaxSections = 2
  MaxRelocations = 2
  MAX_PLT_ENTRIES = 1
  LO = 4
  HI = 8
  REACH = 12
  SHORT = 4
  PAGES = 2
  KernelSymbols = {"near", "far"}
  TestSymbols = {"low"}
  Address <- Addresses
  FAN = 4
  RamStarts = {20, 32}
  MappedSizes = {4, 10, 16}
  MmioPages <- Mmio
  HIGH = 48
  FrameCounts = {1, 2, 3, 4, 5, 6, 7, 8}
  NodeNames = {"memory", "cpu"}
  Compats <- CompatibleValues
  Cells <- CellValues
  RegWords = {6}
  MaxNodes = 3
  BuiltinBoards <- Boards
  MAX_BOARDS = 16
  Kinds = {"uart", "irq"}
  CompatiblesOf <- Looked
  RamSizes = {8, 1024}
  DEFAULT_RAM_SIZE = 512
  KernelEnd = 1
SPECIFICATION MCSpec
SYMMETRY Symmetry
INVARIANTS
  FramesHeldOnce CountIsExact FoundIsTheLoop ModulePagesOwned
  UnloadsWhatItFlagged SectionsPlaced  AddressSpaceExact
   LayoutDisjoint 
CHECK_DEADLOCK FALSE
