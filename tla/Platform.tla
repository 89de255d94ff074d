------------------------------ MODULE Platform ------------------------------
(***************************************************************************)
(* Boot up to the shell: aarch64_start() and riscv64_start() of            *)
(* src/src/main.rs, the memory layout of mm/mod.rs, the boards of          *)
(* boards/registry.rs and boards/mod.rs, and the platform configuration of *)
(* drivers/probe.rs and drivers/config.rs, all from the device tree that   *)
(* Dtb reads.  A device kind is a list of compatible strings.  Addresses   *)
(* of memory are in megabytes from the start of the RAM.                   *)
(***************************************************************************)
EXTENDS Dtb

CONSTANTS
  BuiltinBoards, \* the boards of register_builtin_boards(), in its order:
                 \* records of name, compatible and smp_capable
  MAX_BOARDS,
  Kinds,         \* interrupt controller, UART, CLINT ...
  CompatiblesOf, \* kind -> the strings looked for, in order
  RamSizes,      \* sizes of the RAM that a tree gives
  DEFAULT_RAM_SIZE,
  KernelEnd      \* where the kernel image ends

ASSUME RamAssumption ==
  RamSizes \subseteq Nat /\ DEFAULT_RAM_SIZE \in Nat /\ KernelEnd \in Nat

ASSUME BoardAssumption ==
  /\ BuiltinBoards \in Seq(Range(BuiltinBoards)) /\ Absent \notin Range(BuiltinBoards)
  /\ \A k \in Kinds : CompatiblesOf[k] \in Seq(Range(CompatiblesOf[k]))

VARIABLES
  stage,   \* what the boot function does next
  dt,      \* DTB_HOLDER: a tree was found
  layout,  \* KernelMemoryLayout
  boards,  \* the registry
  registered, \* how many calls register_builtin_boards() has made
  active,     \* ACTIVE_BOARD
  config   \* PLATFORM_CONFIG: kind -> the device, Absent for the
           \* constants of the board; and the number of CPUs

bootVars == <<stage, dt, layout, boards, registered, active, config>>

PlatformInit ==
  /\ DtbInit
  /\ stage = "dtb" /\ dt = FALSE
  /\ layout = Absent
  /\ boards = <<>> /\ registered = 0
  /\ active = Absent
  /\ config = Absent

-----------------------------------------------------------------------------
(* Memory *)

Smaller(m, n) == IF m < n THEN m ELSE n

\* The heap follows the kernel and has a quarter of the RAM, 128 MB at most;
\* the frames follow the heap and end 4 MB below the end, where the tree is.
Layout_NoReserve(ram) ==
  LET heap_end == KernelEnd + Smaller(ram \div 4, 128)
  IN  [ram |-> ram, heap_start |-> KernelEnd, heap_end |-> heap_end,
       frame_end |-> IF ram > heap_end THEN ram ELSE heap_end]

Layout(ram) ==
  LET heap_end == KernelEnd + Smaller(ram \div 4, 128)
  IN  [ram |-> ram, heap_start |-> KernelEnd, heap_end |-> heap_end,
       frame_end |-> IF ram - 4 > heap_end THEN ram - 4 ELSE heap_end]

-----------------------------------------------------------------------------
(* Boards *)

register_builtin_board(registry, info) ==
  IF Len(registry) >= MAX_BOARDS \/ \E i \in DOMAIN registry : registry[i].name = info.name
  THEN registry ELSE Append(registry, info)

\* The places of the boards that have the string, of which the first is taken.
find_board_by_compatible(registry, compat) ==
  {i \in DOMAIN registry : compat \in registry[i].compatible}

find_best_board_LastString(registry, compats) ==
  LET hits == {i \in DOMAIN compats : find_board_by_compatible(registry, compats[i]) # {}}
      last == CHOOSE i \in hits : \A j \in hits : i >= j
  IN  IF hits = {} THEN Absent
      ELSE registry[Least(find_board_by_compatible(registry, compats[last]))]

\* The strings are tried in the order of the tree, the most specific first.
find_best_board(registry, compats) ==
  LET hits == {i \in DOMAIN compats : find_board_by_compatible(registry, compats[i]) # {}}
  IN  IF hits = {} THEN Absent
      ELSE registry[Least(find_board_by_compatible(registry, compats[Least(hits)]))]

\* init_early(): the best board, or the first one when none matches.
Chosen(registry) ==
  LET best == IF dt /\ root_compat # Absent THEN find_best_board(registry, root_compat)
              ELSE Absent
  IN  IF best # Absent THEN best ELSE IF registry = <<>> THEN Absent ELSE registry[1]

-----------------------------------------------------------------------------
(* Boot *)

Boot(from, to) == done /\ stage = from /\ stage' = to /\ UNCHANGED dtbVars

\* The address in the register, some usual places and a scan are tried; the
\* tree is found or not.
FindTree ==
  /\ Boot("dtb", "mm")
  /\ dt' \in BOOLEAN
  /\ UNCHANGED <<layout, boards, registered, active, config>>

\* mm::init() with the memory of the tree or the default.  (Its errors are for a
\* heap of no bytes or frames of less than two pages, which no RAM here gives.)
InitMemory ==
  /\ \E ram \in IF dt /\ memory # Absent THEN RamSizes ELSE {DEFAULT_RAM_SIZE} :
       /\ layout' = Layout(ram)
       /\ Boot("mm", "board")
  /\ UNCHANGED <<dt, boards, registered, active, config>>

\* init_board_system() registers the boards one after the other ...
register_builtin_boards ==
  /\ registered < Len(BuiltinBoards)
  /\ Boot("board", "board")
  /\ registered' = registered + 1
  /\ boards' = register_builtin_board(boards, BuiltinBoards[registered + 1])
  /\ UNCHANGED <<dt, layout, active, config>>

\* ... and makes one of them the active board.
init_board_system ==
  /\ registered = Len(BuiltinBoards)
  /\ Boot("board", "config")
  /\ active' = Chosen(boards)
  /\ UNCHANGED <<dt, layout, boards, registered, config>>

\* Every kind of device: from the tree, or from the constants of the board.
probe_platform ==
  /\ Boot("config", "mmu")
  /\ config' = [device |-> [k \in Kinds |->
                  IF dt THEN FindFirst(CompatiblesOf[k]) ELSE Absent],
                cpus |-> IF dt THEN count_cpus ELSE 1]
  /\ UNCHANGED <<dt, layout, boards, registered, active>>

\* The MMU, the interrupt controller and the timer may fail, and the boot
\* stops; the processes, the file system, VirtIO and the block devices follow.
InitOrHalt(from, to) ==
  /\ Boot(from, to) \/ Boot(from, "halted")
  /\ UNCHANGED <<dt, layout, boards, registered, active, config>>

InitRest ==
  /\ Boot("proc", IF config.cpus > 1 THEN "smp" ELSE "shell")
  /\ UNCHANGED <<dt, layout, boards, registered, active, config>>

\* start_smp() waits for the others for a limited time.
start_smp ==
  /\ Boot("smp", "shell")
  /\ UNCHANGED <<dt, layout, boards, registered, active, config>>

PlatformNext ==
  \/ DtbNext /\ UNCHANGED bootVars
  \/ FindTree \/ InitMemory \/ register_builtin_boards \/ init_board_system
  \/ probe_platform
  \/ InitOrHalt("mmu", "irqchip") \/ InitOrHalt("irqchip", "timer")
  \/ InitOrHalt("timer", "proc")
  \/ InitRest \/ start_smp

PlatformSpec == PlatformInit /\ [][PlatformNext]_<<dtbVars, bootVars>>

-----------------------------------------------------------------------------
(* Properties *)

\* The kernel, the heap, the frames and the device tree (at the place 2 MB
\* below the end of the RAM where it is searched for) never overlap and lie in
\* the RAM, as soon as the kernel leaves a quarter of it.
LayoutDisjoint ==
  (layout # Absent /\ KernelEnd + (layout.ram \div 4) <= layout.ram - 4) =>
    /\ KernelEnd <= layout.heap_start /\ layout.heap_start <= layout.heap_end
    /\ layout.heap_end <= layout.frame_end
    /\ layout.frame_end <= layout.ram - 2

Wants(n, k) == blob[n].compatible # Absent /\ \E s \in Range(CompatiblesOf[k]) :
                                              s \in Range(blob[n].compatible)

DeviceFromTree(device, k) ==
  LET leaves == {n \in DOMAIN blob \ {1} : Wants(n, k) /\ IsLeaf(n)}
  IN  IF leaves = {} THEN device = Absent
      ELSE /\ device # Absent
           /\ device.node \in leaves
           /\ AsRead(device)

BoardFromTree(board) ==
  \A i \in DOMAIN root_compat :
    (\E b \in Range(boards) : root_compat[i] \in b.compatible) =>
      \E j \in 1 .. i : root_compat[j] \in board.compatible

\* The kernel uses the devices of the tree it booted with: a kind of device that
\* the tree has as a node without children is configured from such a node, with
\* the addresses the tree gives, and the board's constants are used only for
\* kinds that the tree does not have in that form; and the active board has the
\* most specific string of the root that any board has.
PlatformFromTree ==
  /\ config # Absent => \A k \in Kinds :
       IF dt THEN DeviceFromTree(config.device[k], k) ELSE config.device[k] = Absent
  /\ (active # Absent /\ dt /\ root_compat # Absent) => BoardFromTree(active)

\* "SMP 버전은 나중에 등록되어 DTB에서 CPU가 여러 개일 때 선택됨"
\* (boards/qemu_virt_aarch64_smp.rs): with several CPUs in the tree the SMP
\* board is chosen.
SmpBoardChosen == (config # Absent /\ config.cpus > 1) => active.smp_capable
=============================================================================
