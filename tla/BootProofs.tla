----------------------------- MODULE BootProofs -----------------------------
(***************************************************************************)
(* The boot for every tree, board list and size of the RAM: the memory     *)
(* layout of mm/mod.rs is disjoint, parse_device_tree() reads every leaf of *)
(* the tree with the cells of its parent, and the board and the devices that *)
(* init_board_system() and probe_platform() settle on are those of the tree. *)
(***************************************************************************)
EXTENDS Platform, WellFoundedInduction, TLAPS

-----------------------------------------------------------------------------
(* The memory of the machine *)

LayoutInv == layout = Absent \/ \E ram \in Nat : layout = Layout(ram)

LEMMA LayoutStep ==
  ASSUME LayoutInv, [PlatformNext]_<<dtbVars, bootVars>>
  PROVE  LayoutInv'
<1>1. CASE InitMemory
  <2>1. \E ram \in Nat : layout' = Layout(ram)
    BY <1>1, RamAssumption, Zenon DEF InitMemory
  <2> QED BY <2>1 DEF LayoutInv, Layout, Smaller
<1>2. CASE UNCHANGED layout
  BY <1>2, Zenon DEF LayoutInv, Layout, Smaller
<1>3. ASSUME ~InitMemory PROVE UNCHANGED layout
  BY <1>3, Zenon DEF PlatformNext, FindTree, register_builtin_boards, init_board_system,
                       probe_platform, InitOrHalt, InitRest, start_smp, bootVars
<1> QED BY <1>1, <1>2, <1>3, Zenon

LEMMA LayoutIsDisjoint ==
  ASSUME NEW ram \in Nat, KernelEnd + ram \div 4 <= ram - 4
  PROVE  /\ KernelEnd <= Layout(ram).heap_start
         /\ Layout(ram).heap_start <= Layout(ram).heap_end
         /\ Layout(ram).heap_end <= Layout(ram).frame_end
         /\ Layout(ram).frame_end <= Layout(ram).ram - 2
<1> DEFINE q == ram \div 4
           heap == IF q < 128 THEN q ELSE 128
           frame_end == IF ram - 4 > KernelEnd + heap THEN ram - 4 ELSE KernelEnd + heap
<1>1. q \in Nat /\ KernelEnd \in Nat
  BY RamAssumption
<1>2. Layout(ram) = [ram |-> ram, heap_start |-> KernelEnd, heap_end |-> KernelEnd + heap,
                     frame_end |-> frame_end]
  BY DEF Layout, Smaller
<1> HIDE DEF q
<1>3. KernelEnd + q <= ram - 4
  BY DEF q
<1>4. /\ KernelEnd <= KernelEnd + heap
      /\ KernelEnd + heap <= frame_end
      /\ frame_end <= ram - 2
  BY <1>1, <1>3
<1> HIDE DEF heap, frame_end
<1> QED BY <1>1, <1>2, <1>4

\* mm::init() never lets the kernel, the heap, the frames and the device tree
\* overlap, for a RAM and a kernel of any size that leaves room for the heap.
THEOREM LayoutsAreDisjoint == PlatformSpec => []LayoutDisjoint
<1>1. PlatformInit => LayoutInv
  BY Zenon DEF PlatformInit, LayoutInv
<1>2. LayoutInv => LayoutDisjoint
  <2> SUFFICES ASSUME LayoutInv, layout # Absent, KernelEnd + (layout.ram \div 4) <= layout.ram - 4
               PROVE  /\ KernelEnd <= layout.heap_start /\ layout.heap_start <= layout.heap_end
                      /\ layout.heap_end <= layout.frame_end
                      /\ layout.frame_end <= layout.ram - 2
    BY DEF LayoutDisjoint
  <2>1. PICK ram \in Nat : layout = Layout(ram)
    BY Zenon DEF LayoutInv
  <2>2. layout.ram = ram
    BY <2>1 DEF Layout
  <2> QED BY <2>1, <2>2, LayoutIsDisjoint
<1> QED BY <1>1, <1>2, LayoutStep, PTL DEF PlatformSpec


-----------------------------------------------------------------------------
(* The device tree *)

NodeRec ==
  [name : NodeNames, parent : Nat, compatible : Compats \cup {Absent},
   reg : RegWords \cup {Absent}, cells : Cells \cup {Absent}]

DtbType ==
  /\ blob \in Seq(NodeRec) /\ path \in Seq(Nat) /\ done \in BOOLEAN
  /\ cells \in AllCells
  /\ current \in Info \cup {Absent}
  /\ found \in Seq(Info)

Open(n) == \E i \in 1 .. Len(path) : path[i] = n
Size == Len(blob)

\* A parent comes before its children, the nodes begun and not ended are a path
\* from the root, and the last node is the only leaf among them.
TreeInv ==
  /\ \A n \in 1 .. Size : blob[n].parent < n /\ (n > 1 => blob[n].parent > 0)
  /\ \A i \in 1 .. Len(path) : path[i] \in 1 .. Size
  /\ path # <<>> => path[1] = 1
  /\ \A i, j \in 1 .. Len(path) : i < j => path[i] < path[j]
  /\ \A i \in 1 .. Len(path) : i > 1 => blob[path[i]].parent = path[i - 1]
  /\ \A i \in 1 .. Len(path) : path[i] = Size \/ ~IsLeaf(path[i])
  /\ done => path = <<>> /\ Size > 0

\* The node being read is the last one of the tree, as long as it is the inner one.
CurrentInv ==
  /\ current # Absent =>
       /\ Len(path) > 1 /\ Inner = Size /\ current.node = Size
       /\ AsRead(current)
       /\ blob[Size].cells = Absent => current.cells = CellsOf(1)
  /\ (Len(path) > 1 /\ Inner = Size) => current # Absent

\* What was reported are the leaves that have ended, each once and as it stands in
\* the tree; all that have a compatible string are there.
FoundInv ==
  /\ \A k \in 1 .. Len(found) :
       /\ found[k].node \in 2 .. Size /\ ~Open(found[k].node) /\ IsLeaf(found[k].node)
       /\ AsRead(found[k])
  /\ \A k, l \in 1 .. Len(found) : found[k].node = found[l].node => k = l
  /\ \A n \in 2 .. Size : (~Open(n) /\ IsLeaf(n) /\ blob[n].compatible # Absent) =>
                            \E k \in 1 .. Len(found) : found[k].node = n

RootInv ==
  /\ cells = IF Size = 0 THEN DefaultCells ELSE CellsOf(1)
  /\ root_compat = IF Size = 0 THEN Absent ELSE blob[1].compatible
  /\ MemoryRead

DtbInv == DtbType /\ TreeInv /\ CurrentInv /\ FoundInv /\ RootInv

LEMMA DtbInitInv == DtbInit => DtbInv
<1> SUFFICES ASSUME DtbInit PROVE DtbInv
  OBVIOUS
<1>1. /\ blob = <<>> /\ path = <<>> /\ done = FALSE /\ cells = DefaultCells /\ current = Absent
      /\ found = <<>> /\ memory = Absent /\ root_compat = Absent
  BY DEF DtbInit
<1>2. Len(blob) = 0 /\ Len(path) = 0 /\ Len(found) = 0 /\ DOMAIN blob = {}
  BY <1>1
<1>3. DtbType
  <2>1. blob \in Seq(NodeRec) /\ path \in Seq(Nat) /\ found \in Seq(Info)
    BY <1>1
  <2>2. done \in BOOLEAN /\ cells \in AllCells /\ current \in Info \cup {Absent}
    BY <1>1, Zenon DEF AllCells
  <2> QED BY <2>1, <2>2, Zenon DEF DtbType
<1>4. TreeInv
  BY <1>1, <1>2 DEF TreeInv, Size
<1>5. CurrentInv
  BY <1>1, <1>2 DEF CurrentInv
<1>6. FoundInv
  BY <1>1, <1>2 DEF FoundInv, Size
<1>7. RootInv
  BY <1>1, <1>2 DEF RootInv, Size, MemoryRead
<1> QED BY <1>3, <1>4, <1>5, <1>6, <1>7, Zenon DEF DtbInv

\* The places of the path and of the tree.
LEMMA PathFacts ==
  ASSUME DtbType, TreeInv, path # <<>>
  PROVE  /\ Len(path) \in Nat \ {0} /\ Size \in Nat \ {0}
         /\ Inner \in 1 .. Size /\ Open(Inner)
         /\ Inner = path[Len(path)]
         /\ Len(path) = 1 <=> Inner = 1
<1>1. Len(path) \in Nat \ {0} /\ Size \in Nat
  BY DEF DtbType, Size
<1>2. Inner = path[Len(path)] /\ Len(path) \in 1 .. Len(path)
  BY <1>1 DEF Inner, depth
<1>3. Inner \in 1 .. Size /\ Open(Inner)
  BY <1>2 DEF TreeInv, Open
<1>4. Len(path) = 1 => Inner = 1
  BY <1>2 DEF TreeInv
<1>5. Len(path) > 1 => Inner > 1
  <2> SUFFICES ASSUME Len(path) > 1 PROVE Inner > 1
    OBVIOUS
  <2>1. 1 \in 1 .. Len(path) /\ path[1] = 1
    BY <1>1 DEF TreeInv
  <2>2. path[1] < path[Len(path)]
    BY <1>2, <2>1 DEF TreeInv
  <2> QED BY <1>2, <2>1, <2>2
<1> QED BY <1>1, <1>2, <1>3, <1>4, <1>5

\* No node is the parent of the last one's ancestors.
LEMMA LastIsLeaf ==
  ASSUME DtbType, TreeInv, Size > 0
  PROVE  IsLeaf(Size)
<1>1. DOMAIN blob = 1 .. Size /\ Size \in Nat
  BY DEF DtbType, Size
<1>2. \A m \in 1 .. Size : blob[m].parent < m /\ blob[m].parent \in Nat
  <2> SUFFICES ASSUME NEW m \in 1 .. Size PROVE blob[m].parent < m /\ blob[m].parent \in Nat
    OBVIOUS
  <2>1. blob[m] \in NodeRec
    BY <1>1 DEF DtbType, Size
  <2> QED BY <2>1 DEF NodeRec, TreeInv
<1> QED BY <1>1, <1>2 DEF IsLeaf

-----------------------------------------------------------------------------
(* A node begins *)

LEMMA BeginFacts ==
  ASSUME DtbInv, NEW name \in NodeNames, BeginNode(name)
  PROVE  \E new \in NodeRec :
           /\ new.parent = (IF path = <<>> THEN 0 ELSE Inner)
           /\ new.compatible = Absent /\ new.reg = Absent /\ new.cells = Absent
           /\ blob' \in Seq(NodeRec) /\ Size' = Size + 1 /\ Size \in Nat
           /\ DOMAIN blob = 1 .. Size /\ DOMAIN blob' = 1 .. Size + 1
           /\ \A n \in 1 .. Size : blob'[n] = blob[n]
           /\ blob'[Size + 1] = new
           /\ path' = Append(path, Size + 1) /\ path' \in Seq(Nat)
           /\ Len(path') = Len(path) + 1 /\ Len(path) \in Nat
           /\ \A i \in 1 .. Len(path) : path'[i] = path[i]
           /\ path'[Len(path) + 1] = Size + 1
<1>1. PICK new : new = [name |-> name, parent |-> IF path = <<>> THEN 0 ELSE Inner,
                        compatible |-> Absent, reg |-> Absent, cells |-> Absent]
  BY Zenon
<1>2. blob \in Seq(NodeRec) /\ path \in Seq(Nat) /\ Size \in Nat /\ Len(path) \in Nat
  BY DEF DtbInv, DtbType, Size
<1>3. path # <<>> => Inner \in Nat
  <2>1. path # <<>> => Inner \in 1 .. Size
    BY PathFacts, Zenon DEF DtbInv
  <2> QED BY <1>2, <2>1
<1>4. new \in NodeRec
  BY <1>1, <1>3 DEF NodeRec
<1>5. blob' = Append(blob, new)
  BY <1>1, Zenon DEF BeginNode
<1>6. blob' \in Seq(NodeRec) /\ Len(blob') = Len(blob) + 1
  BY <1>2, <1>4, <1>5
<1>7. path' = Append(path, Size + 1)
  BY <1>6 DEF BeginNode, Size
<1>8. /\ DOMAIN blob = 1 .. Size /\ DOMAIN blob' = 1 .. Size + 1
      /\ \A n \in 1 .. Size : blob'[n] = blob[n]
      /\ blob'[Size + 1] = new
  BY <1>2, <1>4, <1>5, <1>6 DEF Size
<1>9. /\ path' \in Seq(Nat) /\ Len(path') = Len(path) + 1
      /\ \A i \in 1 .. Len(path) : path'[i] = path[i]
      /\ path'[Len(path) + 1] = Size + 1
  BY <1>2, <1>7
<1>10. new.parent = (IF path = <<>> THEN 0 ELSE Inner)
       /\ new.compatible = Absent /\ new.reg = Absent /\ new.cells = Absent
  BY <1>1
<1>11. Size' = Size + 1
  BY <1>6 DEF Size
<1> QED BY <1>2, <1>4, <1>6, <1>7, <1>8, <1>9, <1>10, <1>11

LEMMA BeginStep ==
  ASSUME DtbInv, NEW name \in NodeNames, BeginNode(name)
  PROVE  DtbInv'
<1>1. PICK new \in NodeRec :
           /\ new.parent = (IF path = <<>> THEN 0 ELSE Inner)
           /\ new.compatible = Absent /\ new.reg = Absent /\ new.cells = Absent
           /\ blob' \in Seq(NodeRec) /\ Size' = Size + 1 /\ Size \in Nat
           /\ DOMAIN blob = 1 .. Size /\ DOMAIN blob' = 1 .. Size + 1
           /\ \A n \in 1 .. Size : blob'[n] = blob[n]
           /\ blob'[Size + 1] = new
           /\ path' = Append(path, Size + 1) /\ path' \in Seq(Nat)
           /\ Len(path') = Len(path) + 1 /\ Len(path) \in Nat
           /\ \A i \in 1 .. Len(path) : path'[i] = path[i]
           /\ path'[Len(path) + 1] = Size + 1
  BY BeginFacts
<1>2. /\ UNCHANGED <<done, cells, found, memory, root_compat>> /\ ~done
      /\ path = <<>> => blob = <<>>
      /\ current' = IF Len(path) > 0
                    THEN [node |-> Size + 1, compatible |-> <<>>, reg |-> <<>>, cells |-> cells]
                    ELSE current
  BY <1>1 DEF BeginNode, MayBegin, depth, Size
<1>3. DtbType /\ TreeInv /\ CurrentInv /\ FoundInv /\ RootInv
  BY DEF DtbInv
<1>4. path = <<>> => Size = 0 /\ Len(path) = 0
  BY <1>2 DEF Size
<1>5. path # <<>> => Inner \in 1 .. Size /\ Open(Inner) /\ Inner = path[Len(path)] /\ Len(path) > 0
  BY <1>3, PathFacts
<1>6. \A n \in 1 .. Size : IsLeaf(n)' <=> (IsLeaf(n) /\ (path = <<>> \/ n # Inner))
  <2> SUFFICES ASSUME NEW n \in 1 .. Size
               PROVE  IsLeaf(n)' <=> (IsLeaf(n) /\ (path = <<>> \/ n # Inner))
    OBVIOUS
  <2>1. IsLeaf(n)' <=> \A m \in 1 .. Size + 1 : blob'[m].parent # n
    BY <1>1 DEF IsLeaf
  <2>2. IsLeaf(n) <=> \A m \in 1 .. Size : blob[m].parent # n
    BY <1>1 DEF IsLeaf
  <2>3. \A m \in 1 .. Size + 1 : m \in 1 .. Size \/ m = Size + 1
    BY <1>1
  <2>4. Size + 1 \in 1 .. Size + 1 /\ \A m \in 1 .. Size : m \in 1 .. Size + 1
    BY <1>1
  <2>5. n # 0
    OBVIOUS
  <2>6. blob'[Size + 1].parent # n <=> (path = <<>> \/ n # Inner)
    BY <1>1, <2>5
  <2>7. \A m \in 1 .. Size : blob'[m].parent = blob[m].parent
    BY <1>1
  <2> QED BY <2>1, <2>2, <2>3, <2>4, <2>6, <2>7, Zenon
<1>7. \A n \in 1 .. Size : Open(n)' <=> Open(n)
  BY <1>1 DEF Open
<1>8. ASSUME NEW n, n = Size + 1 PROVE Open(n)'
  <2>1. Len(path) + 1 \in 1 .. Len(path') /\ path'[Len(path) + 1] = n
    BY <1>1, <1>8
  <2> QED BY <2>1, Zenon DEF Open
<1>9. Size > 0 => CellsOf(1)' = CellsOf(1)
  BY <1>1 DEF CellsOf
<1>10. Size = 0 => CellsOf(1)' = DefaultCells
  BY <1>1 DEF CellsOf
<1>11. DtbType'
  <2>1. Len(path) > 0 => current' \in Info
    <3>1. Size + 1 \in Nat /\ cells \in AllCells /\ <<>> \in RegValues
      BY <1>1, <1>3 DEF DtbType, RegValues
    <3> QED BY <1>2, <3>1 DEF Info
  <2>2. current' \in Info \cup {Absent}
    BY <1>2, <1>3, <2>1 DEF DtbType
  <2> QED BY <1>1, <1>2, <1>3, <2>2 DEF DtbType
<1>12. TreeInv'
  <2>1. \A n \in 1 .. Size' : blob'[n].parent < n /\ (n > 1 => blob'[n].parent > 0)
    <3> SUFFICES ASSUME NEW n \in 1 .. Size + 1
                 PROVE  blob'[n].parent < n /\ (n > 1 => blob'[n].parent > 0)
      BY <1>1
    <3>1. CASE n \in 1 .. Size
      BY <1>1, <1>3, <3>1 DEF TreeInv
    <3>2. CASE n = Size + 1
      BY <1>1, <1>4, <1>5, <3>2
    <3> QED BY <1>1, <3>1, <3>2
  <2>2. \A i \in 1 .. Len(path') : /\ i \in 1 .. Len(path) \/ i = Len(path) + 1
                                   /\ path'[i] \in 1 .. Size'
    <3>1. \A i \in 1 .. Len(path) : path[i] \in 1 .. Size
      BY <1>3 DEF TreeInv
    <3> QED BY <1>1, <3>1
  <2>3. path'[1] = 1
    <3>1. CASE path = <<>>
      BY <1>1, <1>4, <3>1
    <3>2. CASE path # <<>>
      BY <1>1, <1>3, <1>5, <3>2 DEF TreeInv
    <3> QED BY <3>1, <3>2
  <2>4. \A i, j \in 1 .. Len(path') : i < j => path'[i] < path'[j]
    <3> SUFFICES ASSUME NEW i \in 1 .. Len(path'), NEW j \in 1 .. Len(path'), i < j
                 PROVE  path'[i] < path'[j]
      OBVIOUS
    <3>1. i \in 1 .. Len(path) /\ path[i] \in 1 .. Size
      BY <1>1, <1>3 DEF TreeInv
    <3>2. CASE j \in 1 .. Len(path)
      BY <1>1, <1>3, <3>1, <3>2 DEF TreeInv
    <3>3. CASE j = Len(path) + 1
      BY <1>1, <3>1, <3>3
    <3> QED BY <2>2, <3>2, <3>3
  <2>5. \A i \in 1 .. Len(path') : i > 1 => blob'[path'[i]].parent = path'[i - 1]
    <3> SUFFICES ASSUME NEW i \in 1 .. Len(path'), i > 1
                 PROVE  blob'[path'[i]].parent = path'[i - 1]
      OBVIOUS
    <3>1. CASE i \in 1 .. Len(path)
      <4>1. i - 1 \in 1 .. Len(path) /\ path[i] \in 1 .. Size
        BY <1>3, <3>1 DEF TreeInv
      <4>2. blob[path[i]].parent = path[i - 1]
        BY <1>3, <3>1 DEF TreeInv
      <4> QED BY <1>1, <3>1, <4>1, <4>2
    <3>2. CASE i = Len(path) + 1
      <4>1. path # <<>> /\ Len(path) \in 1 .. Len(path)
        BY <1>1, <1>4, <3>2
      <4>2. i - 1 = Len(path) /\ path'[Len(path)] = path[Len(path)]
        BY <1>1, <3>2, <4>1
      <4> QED BY <1>1, <1>5, <3>2, <4>1, <4>2
    <3> QED BY <2>2, <3>1, <3>2
  <2>6. \A i \in 1 .. Len(path') : (path[i] = Size \/ ~IsLeaf(path[i]))'
    <3> SUFFICES ASSUME NEW i \in 1 .. Len(path') PROVE (path[i] = Size \/ ~IsLeaf(path[i]))'
      BY Zenon
    <3>1. CASE i = Len(path) + 1
      BY <1>1, <3>1
    <3>2. CASE i \in 1 .. Len(path)
      <4>1. PICK n : n = path[i]
        OBVIOUS
      <4>2. n \in 1 .. Size /\ path # <<>> /\ Len(path) \in 1 .. Len(path) /\ path'[i] = n
        BY <1>1, <1>3, <1>4, <3>2, <4>1 DEF TreeInv
      <4>3. CASE i = Len(path)
        <5>1. ~IsLeaf(n)'
          BY <1>5, <1>6, <4>1, <4>2, <4>3
        <5> QED BY <4>2, <5>1, Zenon DEF IsLeaf
      <4>4. CASE i < Len(path)
        <5>1. path[i] < path[Len(path)] /\ path[Len(path)] \in 1 .. Size
          BY <1>3, <3>2, <4>2, <4>4 DEF TreeInv
        <5>2. path[i] # Size
          BY <4>1, <4>2, <5>1
        <5>3. ~IsLeaf(n)
          BY <1>3, <3>2, <4>1, <5>2 DEF TreeInv
        <5>4. ~IsLeaf(n)'
          BY <1>6, <4>2, <5>3
        <5> QED BY <4>2, <5>4, Zenon DEF IsLeaf
      <4> QED BY <1>1, <3>2, <4>3, <4>4
    <3> QED BY <2>2, <3>1, <3>2, Zenon
  <2> QED BY <1>2, <2>1, <2>2, <2>3, <2>4, <2>5, <2>6, Zenon DEF TreeInv
<1>13. CurrentInv'
  <2>1. Inner' = Size + 1
    BY <1>1 DEF Inner, depth
  <2>2. CASE path = <<>>
    <3>1. current' = Absent /\ Len(path') = 1
      BY <1>1, <1>2, <1>3, <1>4, <2>2 DEF CurrentInv
    <3> QED BY <3>1 DEF CurrentInv
  <2>3. CASE path # <<>>
    <3>1. /\ current' = [node |-> Size + 1, compatible |-> <<>>, reg |-> <<>>, cells |-> cells]
          /\ Len(path') > 1 /\ Size > 0
      BY <1>1, <1>2, <1>5, <2>3
    <3>2. current'.node = Size' /\ current'.compatible = <<>> /\ current'.reg = <<>>
          /\ current'.cells = cells
      BY <1>1, <3>1
    <3>3. cells = CellsOf(1)'
      BY <1>3, <1>9, <3>1 DEF RootInv
    <3>4. current' # Absent
      <4>1. current' \in Info
        <5>1. Size + 1 \in Nat /\ cells \in AllCells /\ <<>> \in RegValues
          BY <1>1, <1>3 DEF DtbType, RegValues
        <5> QED BY <3>1, <5>1 DEF Info
      <4> QED BY <4>1, DtbAssumption
    <3>5. blob'[Size'].compatible = Absent /\ blob'[Size'].reg = Absent
      BY <1>1
    <3>6. AsRead(current)'
      BY <3>2, <3>5 DEF AsRead
    <3> QED BY <1>1, <2>1, <3>1, <3>2, <3>3, <3>4, <3>6 DEF CurrentInv
  <2> QED BY <2>2, <2>3
<1>14. FoundInv'
  <2>1. ASSUME NEW n \in 2 .. Size, ~Open(n)
        PROVE  n \in 2 .. Size' /\ ~Open(n)' /\ (IsLeaf(n)' <=> IsLeaf(n)) /\ blob'[n] = blob[n]
    <3>1. n \in 1 .. Size /\ Size > 0 /\ n \in 2 .. Size'
      BY <1>1
    <3>2. path = <<>> \/ n # Inner
      BY <1>5, <2>1
    <3> QED BY <1>1, <1>6, <1>7, <2>1, <3>1, <3>2
  <2>2. ASSUME NEW k \in 1 .. Len(found')
        PROVE  (/\ found[k].node \in 2 .. Size /\ ~Open(found[k].node)
                /\ IsLeaf(found[k].node) /\ AsRead(found[k]))'
    <3>1. k \in 1 .. Len(found) /\ found'[k] = found[k]
      BY <1>2
    <3>2. PICK info : info = found[k]
      OBVIOUS
    <3>3. PICK n : n = info.node
      OBVIOUS
    <3>4. n \in 2 .. Size /\ ~Open(n) /\ IsLeaf(n) /\ AsRead(info)
      BY <1>3, <3>1, <3>2, <3>3 DEF FoundInv
    <3>5. n \in 2 .. Size' /\ ~Open(n)' /\ IsLeaf(n)' /\ blob'[n] = blob[n]
      BY <2>1, <3>4
    <3>6. CellsOf(1)' = CellsOf(1)
      BY <1>1, <1>9, <3>4
    <3>7. AsRead(info)'
      BY <3>3, <3>4, <3>5, <3>6 DEF AsRead
    <3>8. found'[k] = info
      BY <3>1, <3>2, Zenon
    <3> QED BY <3>3, <3>5, <3>7, <3>8, Zenon DEF Open, IsLeaf, AsRead
  <2>3. ASSUME NEW n \in 2 .. Size', ~Open(n)', IsLeaf(n)', blob'[n].compatible # Absent
        PROVE  \E k \in 1 .. Len(found') : found'[k].node = n
    <3>1. n # Size + 1
      BY <1>8, <2>3
    <3>2. n \in 2 .. Size /\ n \in 1 .. Size
      BY <1>1, <3>1
    <3>3. ~Open(n) /\ IsLeaf(n) /\ blob'[n] = blob[n]
      BY <1>1, <1>6, <1>7, <2>3, <3>2
    <3> QED BY <1>2, <1>3, <2>3, <3>2, <3>3 DEF FoundInv
  <2>4. \A k, l \in 1 .. Len(found') : found'[k].node = found'[l].node => k = l
    BY <1>2, <1>3 DEF FoundInv
  <2> QED BY <2>2, <2>3, <2>4, Zenon DEF FoundInv
<1>15. RootInv'
  <2>1. cells' = CellsOf(1)' /\ Size' # 0
    BY <1>1, <1>2, <1>3, <1>9, <1>10 DEF RootInv
  <2>2. root_compat' = blob'[1].compatible
    BY <1>1, <1>2, <1>3 DEF RootInv
  <2>3. {n \in DOMAIN blob' : IsBank(n)'} = {n \in DOMAIN blob : IsBank(n)}
    BY <1>1 DEF IsBank
  <2>4. CASE Size = 0
    <3>1. {n \in DOMAIN blob : IsBank(n)} = {}
      BY <1>1, <2>4
    <3>2. memory' = Absent
      BY <1>2, <1>3, <3>1 DEF RootInv, MemoryRead
    <3>3. MemoryRead'
      BY <2>3, <3>1, <3>2 DEF MemoryRead
    <3> QED BY <2>1, <2>2, <3>3 DEF RootInv
  <2>5. CASE Size > 0
    <3>1. CellsOf(1)' = CellsOf(1)
      BY <1>9, <2>5
    <3>2. MemoryRead'
      BY <1>2, <1>3, <2>3, <3>1 DEF MemoryRead, RootInv
    <3> QED BY <2>1, <2>2, <3>2 DEF RootInv
  <2> QED BY <1>1, <2>4, <2>5
<1> QED BY <1>11, <1>12, <1>13, <1>14, <1>15, Zenon DEF DtbInv

-----------------------------------------------------------------------------
(* A node ends *)

LEMMA EndNodeStep ==
  ASSUME DtbInv, EndNode
  PROVE  DtbInv'
<1>1. DtbType /\ TreeInv /\ CurrentInv /\ FoundInv /\ RootInv
  BY DEF DtbInv
<1>2. /\ UNCHANGED <<blob, done, cells, memory, root_compat>> /\ ~done /\ path # <<>>
      /\ current' = Absent
      /\ path' = SubSeq(path, 1, Len(path) - 1)
  BY DEF EndNode, depth
<1>3. PICK d \in Nat : Len(path) = d + 1
  <2>1. Len(path) - 1 \in Nat /\ Len(path) = (Len(path) - 1) + 1
    BY <1>1, <1>2 DEF DtbType
  <2> QED BY <2>1, Zenon
<1>4. /\ path' \in Seq(Nat) /\ Len(path') = d
      /\ \A i \in 1 .. d : path'[i] = path[i] /\ i \in 1 .. Len(path)
  <2>1. path \in Seq(Nat) /\ Len(path) - 1 = d
    BY <1>1, <1>3 DEF DtbType
  <2>2. path' = SubSeq(path, 1, d)
    BY <1>2, <2>1
  <2> QED BY <1>3, <2>1, <2>2
<1>5. PICK m : m = Inner
  OBVIOUS
<1>6. /\ Size \in Nat \ {0} /\ m \in 1 .. Size /\ Open(m) /\ m = path[d + 1]
      /\ d + 1 \in 1 .. Len(path) /\ (d = 0 <=> m = 1)
  BY <1>1, <1>2, <1>3, <1>5, PathFacts
<1>7. \A i \in 1 .. d : path[i] < m /\ path[i] \in 1 .. Size
  BY <1>1, <1>3, <1>4, <1>6 DEF TreeInv
<1>8. ~Open(m)' /\ \A n : n # m => (Open(n)' <=> Open(n))
  <2>1. ASSUME NEW n PROVE Open(n)' <=> \E i \in 1 .. d : path[i] = n
    BY <1>4 DEF Open
  <2>2. ASSUME NEW n PROVE Open(n) <=> (n = m \/ \E i \in 1 .. d : path[i] = n)
    BY <1>3, <1>6 DEF Open
  <2>4. ~(\E i \in 1 .. d : path[i] = m)
    BY <1>6, <1>7
  <2> QED BY <2>1, <2>2, <2>4
<1>9. Size' = Size /\ CellsOf(1)' = CellsOf(1) /\ \A n : IsLeaf(n)' <=> IsLeaf(n)
  BY <1>2 DEF Size, CellsOf, IsLeaf
<1>10. current # Absent => /\ current \in Info /\ current.node = Size /\ m = Size
                           /\ AsRead(current) /\ d > 0 /\ m > 1
  BY <1>1, <1>3, <1>5, <1>6 DEF CurrentInv, DtbType
<1>11. DtbType'
  <2>1. found' \in Seq(Info)
    <3>1. found' = found \/ (current # Absent /\ found' = Append(found, current))
      BY DEF EndNode
    <3> QED BY <1>1, <1>10, <3>1 DEF DtbType
  <2> QED BY <1>1, <1>2, <1>4, <2>1 DEF DtbType
<1>12. TreeInv'
  <2>1. path' # <<>> => d > 0 /\ path'[1] = 1
    <3> SUFFICES ASSUME path' # <<>> PROVE d > 0 /\ path'[1] = 1
      OBVIOUS
    <3>1. 1 \in 1 .. d
      BY <1>4
    <3> QED BY <1>1, <1>2, <1>4, <3>1 DEF TreeInv
  <2>2. \A i \in 1 .. Len(path') : path'[i] \in 1 .. Size'
    BY <1>4, <1>7, <1>9
  <2>3. \A i, j \in 1 .. Len(path') : i < j => path'[i] < path'[j]
    BY <1>1, <1>4, Zenon DEF TreeInv
  <2>4. \A i \in 1 .. Len(path') : i > 1 => blob'[path'[i]].parent = path'[i - 1]
    <3> SUFFICES ASSUME NEW i \in 1 .. d, i > 1 PROVE blob'[path'[i]].parent = path'[i - 1]
      BY <1>4
    <3>1. i - 1 \in 1 .. d
      OBVIOUS
    <3>2. path'[i] = path[i] /\ path'[i - 1] = path[i - 1] /\ i \in 1 .. Len(path)
      BY <1>4, <3>1
    <3> QED BY <1>1, <1>2, <3>2, Zenon DEF TreeInv
  <2>5. \A i \in 1 .. Len(path') : (path[i] = Size \/ ~IsLeaf(path[i]))'
    <3> SUFFICES ASSUME NEW i \in 1 .. d PROVE (path[i] = Size \/ ~IsLeaf(path[i]))'
      BY <1>4, Zenon
    <3>1. PICK n : n = path[i]
      OBVIOUS
    <3>2. path'[i] = n /\ (n = Size \/ ~IsLeaf(n))
      BY <1>1, <1>4, <3>1 DEF TreeInv
    <3>3. n = Size' \/ ~IsLeaf(n)'
      BY <1>9, <3>2
    <3> QED BY <3>2, <3>3, Zenon DEF IsLeaf
  <2>6. \A n \in 1 .. Size' : blob'[n].parent < n /\ (n > 1 => blob'[n].parent > 0)
    BY <1>1, <1>2, <1>9 DEF TreeInv
  <2>7. ~done'
    BY <1>2
  <2> QED BY <2>1, <2>2, <2>3, <2>4, <2>5, <2>6, <2>7, Zenon DEF TreeInv
<1>13. CurrentInv'
  <2>1. ASSUME Len(path') > 1 PROVE Inner' # Size'
    <3>1. d \in 1 .. d /\ path'[d] = path[d]
      BY <1>4, <2>1
    <3>2. Inner' = path[d]
      BY <1>4, <3>1 DEF Inner, depth
    <3> QED BY <1>6, <1>7, <1>9, <3>1, <3>2
  <2> QED BY <1>2, <2>1 DEF CurrentInv
<1>14. RootInv'
  <2>1. MemoryRead'
    BY <1>1, <1>2 DEF RootInv, MemoryRead, IsBank, CellsOf
  <2> QED BY <1>1, <1>2, <1>9, <2>1 DEF RootInv
<1>15. ASSUME NEW n, ~Open(n) PROVE n # m /\ ~Open(n)'
  BY <1>6, <1>8, <1>15, Zenon
<1>16. \A info : AsRead(info) => AsRead(info)'
  BY <1>2, <1>9 DEF AsRead
<1>17. CASE UNCHANGED found /\ ~(current # Absent /\ (current.compatible # <<>> \/ HasBase(current.reg)))
  <2>1. ASSUME NEW k \in 1 .. Len(found')
        PROVE  (/\ found[k].node \in 2 .. Size /\ ~Open(found[k].node)
                /\ IsLeaf(found[k].node) /\ AsRead(found[k]))'
    <3>1. k \in 1 .. Len(found) /\ found'[k] = found[k]
      BY <1>17
    <3>2. PICK info, n : info = found[k] /\ n = info.node
      OBVIOUS
    <3>3. n \in 2 .. Size /\ ~Open(n) /\ IsLeaf(n) /\ AsRead(info)
      BY <1>1, <3>1, <3>2 DEF FoundInv
    <3>4. n \in 2 .. Size' /\ ~Open(n)' /\ IsLeaf(n)' /\ AsRead(info)'
      BY <1>9, <1>15, <1>16, <3>3
    <3>5. found'[k] = info /\ n = info.node
      BY <3>1, <3>2, Zenon
    <3> QED BY <3>4, <3>5, Zenon DEF Open, IsLeaf, AsRead
  <2>2. \A k, l \in 1 .. Len(found') : found'[k].node = found'[l].node => k = l
    BY <1>1, <1>17 DEF FoundInv
  <2>3. ASSUME NEW n \in 2 .. Size', ~Open(n)', IsLeaf(n)', blob'[n].compatible # Absent
        PROVE  \E k \in 1 .. Len(found') : found'[k].node = n
    <3>1. n # m
      <4> SUFFICES ASSUME n = m PROVE FALSE
        OBVIOUS
      <4>1. m = Size /\ d > 0
        <5>1. m = Size \/ ~IsLeaf(m)
          BY <1>1, <1>6 DEF TreeInv
        <5> QED BY <1>6, <1>9, <2>3, <5>1
      <4>2. current # Absent /\ AsRead(current) /\ current.node = m
        BY <1>1, <1>3, <1>5, <4>1 DEF CurrentInv
      <4>3. current.compatible = blob[m].compatible /\ blob[m].compatible # Absent
        BY <1>2, <2>3, <4>2 DEF AsRead
      <4>4. blob[m].compatible \in Compats
        <5>1. blob[m] \in NodeRec
          BY <1>1, <1>6 DEF DtbType, Size
        <5> QED BY <4>3, <5>1 DEF NodeRec
      <4>5. current.compatible # <<>>
        BY <4>3, <4>4, DtbAssumption
      <4> QED BY <1>17, <4>2, <4>5
    <3>2. n \in 2 .. Size /\ ~Open(n) /\ IsLeaf(n) /\ blob[n].compatible # Absent
      BY <1>2, <1>8, <1>9, <2>3, <3>1
    <3> QED BY <1>1, <1>17, <3>2 DEF FoundInv
  <2>4. FoundInv'
    BY <2>1, <2>2, <2>3, Zenon DEF FoundInv
  <2> QED BY <1>11, <1>12, <1>13, <1>14, <2>4, Zenon DEF DtbInv
<1>18. CASE found' = Append(found, current) /\ current # Absent
  <2>1. PICK last \in Nat : last = Len(found)
    BY <1>1 DEF DtbType
  <2>2. PICK info : info = current
    OBVIOUS
  <2>3. /\ Len(found') = last + 1 /\ found'[last + 1] = info
        /\ \A k \in 1 .. last : found'[k] = found[k]
    BY <1>1, <1>10, <1>18, <2>1, <2>2 DEF DtbType
  <2>4. info.node = m /\ AsRead(info) /\ m = Size /\ m > 1
    BY <1>10, <1>18, <2>2
  <2>5. IsLeaf(m)
    <3>1. IsLeaf(Size)
      BY <1>1, <1>6, LastIsLeaf
    <3> QED BY <2>4, <3>1
  <2>6. ASSUME NEW k \in 1 .. Len(found')
        PROVE  (/\ found[k].node \in 2 .. Size /\ ~Open(found[k].node)
                /\ IsLeaf(found[k].node) /\ AsRead(found[k]))'
    <3>1. PICK i, n : i = found'[k] /\ n = i.node
      OBVIOUS
    <3>2. n \in 2 .. Size' /\ ~Open(n)' /\ IsLeaf(n)' /\ AsRead(i)'
      <4>1. CASE k = last + 1
        <5>1. i = info /\ n = m
          BY <2>3, <2>4, <3>1, <4>1
        <5> QED BY <1>6, <1>8, <1>9, <1>16, <2>4, <2>5, <5>1
      <4>2. CASE k \in 1 .. last
        <5>1. i = found[k] /\ k \in 1 .. Len(found)
          BY <2>1, <2>3, <3>1, <4>2
        <5>2. n \in 2 .. Size /\ ~Open(n) /\ IsLeaf(n) /\ AsRead(i)
          BY <1>1, <3>1, <5>1 DEF FoundInv
        <5> QED BY <1>9, <1>15, <1>16, <5>2
      <4> QED BY <2>3, <4>1, <4>2
    <3> QED BY <3>1, <3>2, Zenon DEF Open, IsLeaf, AsRead
  <2>7. ASSUME NEW k \in 1 .. last PROVE found[k].node # m
    <3>1. ~Open(found[k].node)
      BY <1>1, <2>1 DEF FoundInv
    <3> QED BY <1>6, <3>1, Zenon
  <2>8. \A k, l \in 1 .. Len(found') : found'[k].node = found'[l].node => k = l
    <3> SUFFICES ASSUME NEW k \in 1 .. Len(found'), NEW l \in 1 .. Len(found'),
                        found'[k].node = found'[l].node
                 PROVE  k = l
      OBVIOUS
    <3>1. CASE k \in 1 .. last /\ l \in 1 .. last
      BY <1>1, <2>1, <2>3, <3>1 DEF FoundInv
    <3>2. CASE k = last + 1 /\ l \in 1 .. last
      BY <2>3, <2>4, <2>7, <3>2
    <3>3. CASE l = last + 1 /\ k \in 1 .. last
      BY <2>3, <2>4, <2>7, <3>3
    <3> QED BY <2>3, <3>1, <3>2, <3>3
  <2>9. ASSUME NEW n \in 2 .. Size', ~Open(n)', IsLeaf(n)', blob'[n].compatible # Absent
        PROVE  \E k \in 1 .. Len(found') : found'[k].node = n
    <3>1. CASE n = m
      BY <2>3, <2>4, <3>1
    <3>2. CASE n # m
      <4>1. n \in 2 .. Size /\ ~Open(n) /\ IsLeaf(n) /\ blob[n].compatible # Absent
        BY <1>2, <1>8, <1>9, <2>9, <3>2
      <4>2. PICK k \in 1 .. Len(found) : found[k].node = n
        BY <1>1, <4>1 DEF FoundInv
      <4> QED BY <2>1, <2>3, <4>2
    <3> QED BY <3>1, <3>2
  <2>10. FoundInv'
    BY <2>6, <2>8, <2>9, Zenon DEF FoundInv
  <2> QED BY <1>11, <1>12, <1>13, <1>14, <2>10, Zenon DEF DtbInv
<1>19. \/ UNCHANGED found /\ ~(current # Absent /\ (current.compatible # <<>> \/ HasBase(current.reg)))
       \/ found' = Append(found, current) /\ current # Absent
  BY DEF EndNode
<1> QED BY <1>17, <1>18, <1>19, Zenon

-----------------------------------------------------------------------------
(* A property of the last node *)

\* The tree stays as it is, and so does what was reported.
LEMMA PropKeeps ==
  ASSUME DtbInv, path # <<>>, Inner = Size, NEW rec \in NodeRec,
         rec.parent = blob[Size].parent,
         blob' = [blob EXCEPT ![Size] = rec],
         UNCHANGED <<path, done, found>>
  PROVE  /\ Size' = Size /\ Size \in Nat \ {0} /\ Inner' = Size
         /\ blob' \in Seq(NodeRec) /\ DOMAIN blob = 1 .. Size /\ DOMAIN blob' = 1 .. Size
         /\ blob'[Size] = rec /\ \A n \in 1 .. Size : n # Size => blob'[n] = blob[n]
         /\ Len(path) \in Nat \ {0} /\ (Len(path) = 1 <=> Size = 1)
         /\ TreeInv' /\ FoundInv'
<1>1. DtbType /\ TreeInv /\ CurrentInv /\ FoundInv /\ RootInv
  BY DEF DtbInv
<1>2. /\ Size \in Nat \ {0} /\ Open(Size) /\ Inner = path[Len(path)]
      /\ Len(path) \in Nat \ {0} /\ (Len(path) = 1 <=> Size = 1)
  BY <1>1, PathFacts
<1>3. /\ blob' \in Seq(NodeRec) /\ DOMAIN blob = 1 .. Size /\ DOMAIN blob' = 1 .. Size
      /\ blob'[Size] = rec /\ \A n \in 1 .. Size : n # Size => blob'[n] = blob[n]
      /\ Len(blob') = Len(blob)
  <2>0. PICK z : z = Size
    OBVIOUS
  <2>1. PICK t : t = [blob EXCEPT ![z] = rec]
    BY Zenon
  <2>2. blob \in Seq(NodeRec) /\ Len(blob) = z /\ z \in 1 .. Len(blob)
    <3>1. blob \in Seq(NodeRec)
      BY <1>1, Zenon DEF DtbType
    <3>2. Len(blob) = z /\ z \in Nat \ {0}
      BY <1>2, <2>0, Zenon DEF Size
    <3> QED BY <3>1, <3>2
  <2>3. t \in Seq(NodeRec) /\ Len(t) = Len(blob)
    BY <2>1, <2>2
  <2>4. t[z] = rec /\ \A n \in 1 .. z : n # z => t[n] = blob[n]
    BY <2>1, <2>2
  <2>5. blob' = t /\ Size = z /\ DOMAIN blob = 1 .. z /\ DOMAIN t = 1 .. z
    BY <2>0, <2>1, <2>2, <2>3
  <2> QED BY <2>2, <2>3, <2>4, <2>5, Zenon
<1>4. Size' = Size /\ Inner' = Size
  BY <1>3, Zenon DEF Size, Inner, depth
<1>5. \A n \in 1 .. Size : blob'[n].parent = blob[n].parent
  BY <1>3
<1>6. \A n : (IsLeaf(n)' <=> IsLeaf(n)) /\ (Open(n)' <=> Open(n))
  BY <1>3, <1>5 DEF IsLeaf, Open
<1>7. TreeInv'
  <2>1. \A i \in 1 .. Len(path') : (path[i] = Size \/ ~IsLeaf(path[i]))'
    <3> SUFFICES ASSUME NEW i \in 1 .. Len(path) PROVE (path[i] = Size \/ ~IsLeaf(path[i]))'
      BY Zenon
    <3>1. PICK n : n = path[i]
      OBVIOUS
    <3>2. path'[i] = n /\ (n = Size' \/ ~IsLeaf(n)')
      BY <1>1, <1>4, <1>6, <3>1 DEF TreeInv
    <3> QED BY <3>2, Zenon DEF IsLeaf
  <2>2. \A i \in 1 .. Len(path') : i > 1 => blob'[path'[i]].parent = path'[i - 1]
    BY <1>1, <1>5 DEF TreeInv
  <2>3. \A n \in 1 .. Size' : blob'[n].parent < n /\ (n > 1 => blob'[n].parent > 0)
    BY <1>1, <1>4, <1>5 DEF TreeInv
  <2>4. /\ \A i \in 1 .. Len(path') : path'[i] \in 1 .. Size'
        /\ path' # <<>> => path'[1] = 1
        /\ \A i, j \in 1 .. Len(path') : i < j => path'[i] < path'[j]
        /\ done' => path' = <<>> /\ Size' > 0
    BY <1>1, <1>4 DEF TreeInv
  <2> QED BY <2>1, <2>2, <2>3, <2>4, Zenon DEF TreeInv
<1>8. FoundInv'
  <2>1. ASSUME NEW n \in 2 .. Size, ~Open(n)
        PROVE  blob'[n] = blob[n] /\ CellsOf(1)' = CellsOf(1)
    <3>1. n # Size /\ n \in 1 .. Size
      BY <1>2, <2>1
    <3>2. 1 \in 1 .. Size /\ 1 # Size
      BY <1>2, <3>1
    <3> QED BY <1>3, <3>1, <3>2 DEF CellsOf
  <2>2. ASSUME NEW k \in 1 .. Len(found')
        PROVE  (/\ found[k].node \in 2 .. Size /\ ~Open(found[k].node)
                /\ IsLeaf(found[k].node) /\ AsRead(found[k]))'
    <3>1. k \in 1 .. Len(found) /\ found'[k] = found[k]
      OBVIOUS
    <3>2. PICK info, n : info = found[k] /\ n = info.node
      OBVIOUS
    <3>3. n \in 2 .. Size /\ ~Open(n) /\ IsLeaf(n) /\ AsRead(info)
      BY <1>1, <3>1, <3>2 DEF FoundInv
    <3>4. n \in 2 .. Size' /\ ~Open(n)' /\ IsLeaf(n)' /\ AsRead(info)'
      BY <1>4, <1>6, <2>1, <3>2, <3>3, Zenon DEF AsRead
    <3>5. found'[k] = info /\ n = info.node
      BY <3>1, <3>2, Zenon
    <3> QED BY <3>4, <3>5, Zenon DEF Open, IsLeaf, AsRead
  <2>3. \A k, l \in 1 .. Len(found') : found'[k].node = found'[l].node => k = l
    BY <1>1, Zenon DEF FoundInv
  <2>4. ASSUME NEW n \in 2 .. Size', ~Open(n)', IsLeaf(n)', blob'[n].compatible # Absent
        PROVE  \E k \in 1 .. Len(found') : found'[k].node = n
    <3>1. n \in 2 .. Size /\ ~Open(n) /\ IsLeaf(n)
      BY <1>4, <1>6, <2>4
    <3>2. blob[n].compatible # Absent
      BY <2>1, <2>4, <3>1
    <3> QED BY <1>1, <3>1, <3>2, Zenon DEF FoundInv
  <2> QED BY <2>2, <2>3, <2>4, Zenon DEF FoundInv
<1> QED BY <1>2, <1>3, <1>4, <1>7, <1>8, Zenon

LEMMA InfoNotAbsent ==
  ASSUME NEW info \in Info
  PROVE  info # Absent
BY DtbAssumption

\* What the three steps have in common.
LEMMA PropRec ==
  ASSUME DtbInv, path # <<>>, Inner = Size
  PROVE  blob[Size] \in NodeRec /\ Size \in 1 .. Len(blob)
<1>1. Size \in Nat \ {0}
  BY PathFacts DEF DtbInv
<1> QED BY <1>1 DEF DtbInv, DtbType, Size

LEMMA PropCompatibleStep ==
  ASSUME DtbInv, NEW value \in Compats, PropCompatible(value)
  PROVE  DtbInv'
<1>1. DtbType /\ TreeInv /\ CurrentInv /\ FoundInv /\ RootInv
  BY DEF DtbInv
<1>2. /\ path # <<>> /\ Inner = Size /\ blob[Size].compatible = Absent
      /\ UNCHANGED <<path, done, cells, found, memory>>
      /\ root_compat' = IF Len(path) = 1 /\ root_compat = Absent THEN value ELSE root_compat
      /\ current' = IF current = Absent THEN Absent ELSE [current EXCEPT !.compatible = value]
  BY DEF PropCompatible, MayHave, Node, Size, depth
<1>3. PICK rec : rec = [blob[Size] EXCEPT !.compatible = value]
  BY Zenon
<1>4. blob' = [blob EXCEPT ![Size] = rec]
  BY <1>2, <1>3 DEF PropCompatible
<1>5. /\ rec \in NodeRec /\ rec.parent = blob[Size].parent /\ rec.name = blob[Size].name
      /\ rec.reg = blob[Size].reg /\ rec.cells = blob[Size].cells /\ rec.compatible = value
  <2>1. blob[Size] \in NodeRec
    BY <1>2, PropRec
  <2> QED BY <1>3, <2>1 DEF NodeRec
<1>6. /\ Size' = Size /\ Size \in Nat \ {0} /\ Inner' = Size
      /\ blob' \in Seq(NodeRec) /\ DOMAIN blob = 1 .. Size /\ DOMAIN blob' = 1 .. Size
      /\ blob'[Size] = rec /\ \A n \in 1 .. Size : n # Size => blob'[n] = blob[n]
      /\ Len(path) \in Nat \ {0} /\ (Len(path) = 1 <=> Size = 1)
      /\ TreeInv' /\ FoundInv'
  BY <1>2, <1>4, <1>5, PropKeeps, Zenon
<1>7. \A n \in 1 .. Size : /\ blob'[n].cells = blob[n].cells /\ blob'[n].reg = blob[n].reg
                           /\ blob'[n].name = blob[n].name /\ blob'[n].parent = blob[n].parent
  BY <1>5, <1>6
<1>8. CellsOf(1)' = CellsOf(1)
  <2>1. blob'[1].cells = blob[1].cells
    BY <1>6, <1>7
  <2> QED BY <2>1 DEF CellsOf
<1>9. current # Absent =>
        /\ current' \in Info /\ current'.node = current.node /\ current'.compatible = value
        /\ current'.reg = current.reg /\ current'.cells = current.cells
  BY <1>1, <1>2, Zenon DEF DtbType, Info
<1>10. DtbType'
  BY <1>1, <1>2, <1>6, <1>9 DEF DtbType
<1>11. CurrentInv'
  <2>1. CASE current = Absent
    BY <1>1, <1>2, <1>6, <2>1 DEF CurrentInv
  <2>2. CASE current # Absent
    <3>1. Len(path) > 1 /\ current.node = Size /\ AsRead(current)
          /\ (blob[Size].cells = Absent => current.cells = CellsOf(1))
      BY <1>1, <2>2 DEF CurrentInv
    <3>2. current' # Absent
      BY <1>9, <2>2, InfoNotAbsent
    <3>3. current'.compatible = blob'[Size].compatible /\ blob'[Size].compatible # Absent
      BY <1>5, <1>6, <1>9, <2>2, DtbAssumption
    <3>4. AsRead(current)'
      BY <1>5, <1>6, <1>8, <1>9, <2>2, <3>1, <3>3 DEF AsRead
    <3> QED BY <1>2, <1>5, <1>6, <1>8, <1>9, <2>2, <3>1, <3>2, <3>4 DEF CurrentInv
  <2> QED BY <2>1, <2>2
<1>12. RootInv'
  <2>1. root_compat' = blob'[1].compatible
    <3>1. CASE Size = 1
      BY <1>1, <1>2, <1>5, <1>6, <3>1 DEF RootInv
    <3>2. CASE Size # 1
      BY <1>1, <1>2, <1>6, <3>2 DEF RootInv
    <3> QED BY <3>1, <3>2
  <2>2. {n \in DOMAIN blob' : IsBank(n)'} = {n \in DOMAIN blob : IsBank(n)}
    BY <1>6, <1>7 DEF IsBank
  <2>3. MemoryRead'
    BY <1>1, <1>2, <1>8, <2>2 DEF MemoryRead, RootInv
  <2> QED BY <1>1, <1>2, <1>6, <1>8, <2>1, <2>3 DEF RootInv
<1> QED BY <1>6, <1>10, <1>11, <1>12, Zenon DEF DtbInv

LEMMA PropCellsStep ==
  ASSUME DtbInv, NEW c \in Cells, PropCells(c)
  PROVE  DtbInv'
<1>1. DtbType /\ TreeInv /\ CurrentInv /\ FoundInv /\ RootInv
  BY DEF DtbInv
<1>2. /\ path # <<>> /\ Inner = Size /\ blob[Size].cells = Absent
      /\ UNCHANGED <<path, done, found, memory, root_compat>>
      /\ cells' = IF Len(path) = 1 THEN c ELSE cells
      /\ current' = IF current = Absent THEN Absent ELSE [current EXCEPT !.cells = c]
  BY DEF PropCells, MayHave, Node, Size, depth
<1>3. PICK rec : rec = [blob[Size] EXCEPT !.cells = c]
  BY Zenon
<1>4. blob' = [blob EXCEPT ![Size] = rec]
  BY <1>2, <1>3 DEF PropCells
<1>5. /\ rec \in NodeRec /\ rec.parent = blob[Size].parent /\ rec.name = blob[Size].name
      /\ rec.reg = blob[Size].reg /\ rec.compatible = blob[Size].compatible /\ rec.cells = c
      /\ c # Absent
  <2>1. blob[Size] \in NodeRec
    BY <1>2, PropRec
  <2> QED BY <1>3, <2>1, DtbAssumption DEF NodeRec
<1>6. /\ Size' = Size /\ Size \in Nat \ {0} /\ Inner' = Size
      /\ blob' \in Seq(NodeRec) /\ DOMAIN blob = 1 .. Size /\ DOMAIN blob' = 1 .. Size
      /\ blob'[Size] = rec /\ \A n \in 1 .. Size : n # Size => blob'[n] = blob[n]
      /\ Len(path) \in Nat \ {0} /\ (Len(path) = 1 <=> Size = 1)
      /\ TreeInv' /\ FoundInv'
  BY <1>2, <1>4, <1>5, PropKeeps, Zenon
<1>7. \A n \in 1 .. Size : /\ blob'[n].compatible = blob[n].compatible /\ blob'[n].reg = blob[n].reg
                           /\ blob'[n].name = blob[n].name /\ blob'[n].parent = blob[n].parent
  BY <1>5, <1>6
<1>8. current # Absent =>
        /\ current' \in Info /\ current'.node = current.node /\ current'.reg = current.reg
        /\ current'.compatible = current.compatible
  BY <1>1, <1>2 DEF DtbType, Info, AllCells
<1>9. DtbType'
  BY <1>1, <1>2, <1>6, <1>8 DEF DtbType, AllCells
<1>10. CurrentInv'
  <2>1. CASE current = Absent
    BY <1>1, <1>2, <1>6, <2>1 DEF CurrentInv
  <2>2. CASE current # Absent
    <3>1. Len(path) > 1 /\ current.node = Size /\ AsRead(current)
      BY <1>1, <2>2 DEF CurrentInv
    <3>2. current' # Absent
      BY <1>8, <2>2, InfoNotAbsent
    <3>3. AsRead(current)'
      BY <1>5, <1>6, <1>8, <2>2, <3>1, Zenon DEF AsRead
    <3> QED BY <1>2, <1>5, <1>6, <1>8, <2>2, <3>1, <3>2, <3>3 DEF CurrentInv
  <2> QED BY <2>1, <2>2
<1>11. RootInv'
  <2>1. root_compat' = blob'[1].compatible
    BY <1>1, <1>2, <1>6, <1>7 DEF RootInv
  <2>2. {n \in DOMAIN blob' : IsBank(n)'} = {n \in DOMAIN blob : IsBank(n)}
    BY <1>6, <1>7, Zenon DEF IsBank
  <2>3. CASE Size = 1
    <3>1. cells' = c /\ CellsOf(1)' = c
      BY <1>2, <1>5, <1>6, <2>3 DEF CellsOf
    <3>2. {n \in DOMAIN blob : IsBank(n)} = {}
      <4>1. \A n \in DOMAIN blob : n = 1 /\ blob[n].parent < 1
        BY <1>1, <1>6, <2>3 DEF TreeInv
      <4> QED BY <4>1 DEF IsBank
    <3>3. MemoryRead'
      BY <1>1, <1>2, <2>2, <3>2 DEF MemoryRead, RootInv
    <3> QED BY <1>6, <2>1, <3>1, <3>3, Zenon DEF RootInv
  <2>4. CASE Size # 1
    <3>1. cells' = cells /\ CellsOf(1)' = CellsOf(1)
      BY <1>2, <1>6, <2>4 DEF CellsOf
    <3>2. MemoryRead'
      BY <1>1, <1>2, <2>2, <3>1 DEF MemoryRead, RootInv
    <3> QED BY <1>1, <1>6, <2>1, <3>1, <3>2 DEF RootInv
  <2> QED BY <2>3, <2>4
<1> QED BY <1>6, <1>9, <1>10, <1>11, Zenon DEF DtbInv

LEMMA PropRegStep ==
  ASSUME DtbInv, NEW words \in RegWords, PropReg(words)
  PROVE  DtbInv'
<1>1. DtbType /\ TreeInv /\ CurrentInv /\ FoundInv /\ RootInv
  BY DEF DtbInv
<1>2. /\ path # <<>> /\ Inner = Size /\ blob[Size].reg = Absent
      /\ UNCHANGED <<path, done, cells, found, root_compat>>
      /\ current' = IF current = Absent THEN Absent
                    ELSE [current EXCEPT !.reg = Entries(words, current.cells)]
      /\ memory' = IF memory = Absent /\ Len(path) = 2 /\ blob[Size].name = "memory"
                   THEN [node |-> Size, base |-> read_cells(1, cells.address),
                         size |-> read_cells(cells.address + 1, cells.size)]
                   ELSE memory
  BY DEF PropReg, MayHave, Node, Size, depth
<1>3. PICK rec : rec = [blob[Size] EXCEPT !.reg = words]
  BY Zenon
<1>4. blob' = [blob EXCEPT ![Size] = rec]
  BY <1>2, <1>3 DEF PropReg
<1>5. /\ rec \in NodeRec /\ rec.parent = blob[Size].parent /\ rec.name = blob[Size].name
      /\ rec.cells = blob[Size].cells /\ rec.compatible = blob[Size].compatible
      /\ rec.reg = words /\ words # Absent
  <2>1. blob[Size] \in NodeRec
    BY <1>2, PropRec
  <2> QED BY <1>3, <2>1, DtbAssumption DEF NodeRec
<1>6. /\ Size' = Size /\ Size \in Nat \ {0} /\ Inner' = Size
      /\ blob' \in Seq(NodeRec) /\ DOMAIN blob = 1 .. Size /\ DOMAIN blob' = 1 .. Size
      /\ blob'[Size] = rec /\ \A n \in 1 .. Size : n # Size => blob'[n] = blob[n]
      /\ Len(path) \in Nat \ {0} /\ (Len(path) = 1 <=> Size = 1)
      /\ TreeInv' /\ FoundInv'
  BY <1>2, <1>4, <1>5, PropKeeps, Zenon
<1>7. \A n \in 1 .. Size : /\ blob'[n].compatible = blob[n].compatible
                           /\ blob'[n].cells = blob[n].cells
                           /\ blob'[n].name = blob[n].name /\ blob'[n].parent = blob[n].parent
  BY <1>5, <1>6
<1>8. CellsOf(1)' = CellsOf(1)
  <2>1. blob'[1].cells = blob[1].cells
    BY <1>6, <1>7
  <2> QED BY <2>1 DEF CellsOf
<1>9. current # Absent =>
        /\ current' \in Info /\ current'.node = current.node /\ current'.cells = current.cells
        /\ current'.compatible = current.compatible
        /\ current'.reg = Entries(words, current.cells)
  <2> SUFFICES ASSUME current # Absent
               PROVE  /\ current' \in Info /\ current'.node = current.node
                      /\ current'.cells = current.cells
                      /\ current'.compatible = current.compatible
                      /\ current'.reg = Entries(words, current.cells)
    OBVIOUS
  <2>1. current \in Info
    BY <1>1 DEF DtbType
  <2>2. current.cells \in AllCells
    BY <2>1 DEF Info
  <2>3. Entries(words, current.cells) \in RegValues
    BY <2>2 DEF RegValues
  <2>4. PICK e : e = Entries(words, current.cells)
    OBVIOUS
  <2>5. current' = [current EXCEPT !.reg = e]
    BY <1>2, <2>4
  <2> QED BY <2>1, <2>3, <2>4, <2>5 DEF Info
<1>10. DtbType'
  BY <1>1, <1>2, <1>6, <1>9 DEF DtbType
<1>11. CurrentInv'
  <2>1. CASE current = Absent
    BY <1>1, <1>2, <1>6, <2>1 DEF CurrentInv
  <2>2. CASE current # Absent
    <3>1. Len(path) > 1 /\ current.node = Size /\ AsRead(current)
          /\ (blob[Size].cells = Absent => current.cells = CellsOf(1))
      BY <1>1, <2>2 DEF CurrentInv
    <3>2. current' # Absent
      BY <1>9, <2>2, InfoNotAbsent
    <3>3. AsRead(current)'
      BY <1>5, <1>6, <1>8, <1>9, <2>2, <3>1 DEF AsRead
    <3> QED BY <1>2, <1>5, <1>6, <1>8, <1>9, <2>2, <3>1, <3>2, <3>3 DEF CurrentInv
  <2> QED BY <2>1, <2>2
<1>12. Len(path) = 2 <=> blob[Size].parent = 1
  <2>1. CASE Len(path) = 1
    BY <1>1, <1>6, <2>1 DEF TreeInv
  <2>2. CASE Len(path) > 1
    <3>1. PICK p \in Nat : Len(path) = p + 1
      <4>1. Len(path) - 1 \in Nat /\ Len(path) = (Len(path) - 1) + 1
        BY <1>6
      <4> QED BY <4>1, Zenon
    <3>2. p \in 1 .. Len(path) /\ p + 1 \in 1 .. Len(path) /\ 1 \in 1 .. Len(path)
      BY <2>2, <3>1
    <3>3. path[p + 1] = Size
      BY <1>2, <3>1 DEF Inner, depth
    <3>4. blob[path[p + 1]].parent = path[(p + 1) - 1]
      BY <1>1, <2>2, <3>1, <3>2 DEF TreeInv
    <3>5. blob[Size].parent = path[p]
      BY <3>1, <3>3, <3>4
    <3>6. path[1] = 1 /\ (p > 1 => path[1] < path[p])
      BY <1>1, <1>2, <3>2 DEF TreeInv
    <3>7. p = 1 <=> path[p] = 1
      BY <2>2, <3>1, <3>6
    <3> QED BY <3>1, <3>5, <3>7
  <2>3. Len(path) = 1 \/ Len(path) > 1
    <3>1. Len(path) \in Nat \ {0}
      BY <1>6, Zenon
    <3>2. \A x \in Nat \ {0} : x = 1 \/ x > 1
      OBVIOUS
    <3> QED BY <3>1, <3>2, Zenon
  <2> QED BY <2>1, <2>2, <2>3, Zenon
<1>13. PICK banks : banks = {n \in DOMAIN blob : IsBank(n)}
  BY Zenon
<1>14. PICK after : after = {n \in DOMAIN blob' : IsBank(n)'}
  BY Zenon
<1>15. \A n \in 1 .. Size : n # Size => (n \in after <=> n \in banks)
  BY <1>6, <1>13, <1>14 DEF IsBank
<1>16. Size \notin banks /\ after \subseteq 1 .. Size /\ banks \subseteq 1 .. Size
  BY <1>2, <1>6, <1>13, <1>14 DEF IsBank
<1>17. Size \in after <=> (Len(path) = 2 /\ blob[Size].name = "memory")
  BY <1>5, <1>6, <1>12, <1>14 DEF IsBank
<1>18. cells = CellsOf(1) /\ cells \in AllCells
  BY <1>1, <1>6 DEF RootInv, DtbType
<1>19. PICK c : c = CellsOf(1)
  OBVIOUS
<1>20. IF banks = {} THEN memory = Absent
       ELSE \E n \in banks : /\ \A m \in banks : n <= m
                             /\ memory = [node |-> n, base |-> read_cells(1, c.address),
                                          size |-> read_cells(c.address + 1, c.size)]
  BY <1>1, <1>13, <1>19, Zenon DEF RootInv, MemoryRead
<1>21. ASSUME NEW n \in Nat
       PROVE  [node |-> n, base |-> read_cells(1, c.address),
               size |-> read_cells(c.address + 1, c.size)] # Absent
  BY <1>18, <1>19, DtbAssumption
<1>22. IF after = {} THEN memory' = Absent
       ELSE \E n \in after : /\ \A m \in after : n <= m
                             /\ memory' = [node |-> n, base |-> read_cells(1, c.address),
                                           size |-> read_cells(c.address + 1, c.size)]
  <2>1. CASE banks = {}
    <3>1. memory = Absent
      BY <1>20, <2>1
    <3>2. CASE Size \in after
      <4>1. after = {Size}
        BY <1>15, <1>16, <2>1, <3>2, Zenon
      <4>2. memory' = [node |-> Size, base |-> read_cells(1, c.address),
                       size |-> read_cells(c.address + 1, c.size)]
        BY <1>2, <1>17, <1>18, <1>19, <3>1, <3>2
      <4> QED BY <1>6, <4>1, <4>2
    <3>3. CASE Size \notin after
      <4>1. after = {}
        BY <1>15, <1>16, <2>1, <3>3
      <4> QED BY <1>2, <1>17, <3>1, <3>3, <4>1
    <3> QED BY <3>2, <3>3
  <2>2. CASE banks # {}
    <3>1. PICK n \in banks : /\ \A m \in banks : n <= m
                             /\ memory = [node |-> n, base |-> read_cells(1, c.address),
                                          size |-> read_cells(c.address + 1, c.size)]
      BY <1>20, <2>2, Zenon
    <3>2. memory' = memory
      BY <1>2, <1>16, <1>21, <3>1
    <3>3. n \in after /\ \A m \in after : n <= m
      BY <1>6, <1>15, <1>16, <3>1
    <3> QED BY <3>1, <3>2, <3>3, Zenon
  <2> QED BY <2>1, <2>2
<1>23. MemoryRead'
  BY <1>8, <1>14, <1>19, <1>22, Zenon DEF MemoryRead
<1>24. RootInv'
  BY <1>1, <1>2, <1>6, <1>7, <1>8, <1>23 DEF RootInv
<1> QED BY <1>6, <1>10, <1>11, <1>24, Zenon DEF DtbInv

-----------------------------------------------------------------------------
(* The invariant *)

LEMMA DtbUnchanged ==
  ASSUME DtbInv, UNCHANGED <<blob, path, cells, current, found, memory, root_compat>>,
         done' \in BOOLEAN, done' => path = <<>> /\ Size > 0
  PROVE  DtbInv'
<1>1. /\ Size' = Size /\ CellsOf(1)' = CellsOf(1) /\ Inner' = Inner
      /\ \A n : (IsLeaf(n)' <=> IsLeaf(n)) /\ (Open(n)' <=> Open(n)) /\ (IsBank(n)' <=> IsBank(n))
      /\ \A info : AsRead(info)' <=> AsRead(info)
  BY DEF Size, CellsOf, IsLeaf, Open, IsBank, AsRead, Inner, depth
<1>2. DtbType'
  BY DEF DtbInv, DtbType
<1>3. TreeInv'
  BY Zenon DEF DtbInv, TreeInv, IsLeaf, Size
<1>4. CurrentInv'
  BY Zenon DEF DtbInv, CurrentInv, AsRead, Size, CellsOf, Inner, depth
<1>5. FoundInv'
  BY Zenon DEF DtbInv, FoundInv, AsRead, Size, CellsOf, IsLeaf, Open
<1>6. RootInv'
  BY Zenon DEF DtbInv, RootInv, MemoryRead, IsBank, CellsOf, Size
<1> QED BY <1>2, <1>3, <1>4, <1>5, <1>6, Zenon DEF DtbInv

LEMMA DtbNextInv ==
  ASSUME DtbInv, [DtbNext]_dtbVars
  PROVE  DtbInv'
<1>1. ASSUME NEW name \in NodeNames, BeginNode(name) PROVE DtbInv'
  BY <1>1, BeginStep
<1>2. ASSUME EndNode PROVE DtbInv'
  BY <1>2, EndNodeStep
<1>3. ASSUME NEW value \in Compats, PropCompatible(value) PROVE DtbInv'
  BY <1>3, PropCompatibleStep
<1>4. ASSUME NEW words \in RegWords, PropReg(words) PROVE DtbInv'
  BY <1>4, PropRegStep
<1>5. ASSUME NEW c \in Cells, PropCells(c) PROVE DtbInv'
  BY <1>5, PropCellsStep
<1>6. ASSUME End PROVE DtbInv'
  <2>1. blob # <<>> /\ blob \in Seq(NodeRec)
    BY <1>6 DEF End, DtbInv, DtbType
  <2>2. Size > 0
    BY <2>1 DEF Size
  <2> QED BY <1>6, <2>2, DtbUnchanged DEF End
<1>7. ASSUME UNCHANGED dtbVars PROVE DtbInv'
  BY <1>7, DtbUnchanged, Zenon DEF dtbVars, DtbInv, DtbType, TreeInv
<1> QED BY <1>1, <1>2, <1>3, <1>4, <1>5, <1>6, <1>7, Zenon DEF DtbNext

LEMMA InvTreeIsRead ==
  ASSUME DtbInv
  PROVE  TreeIsRead
<1> SUFFICES ASSUME done PROVE TreeIsRead
  BY DEF TreeIsRead, LeavesFound, RootFacts
<1>1. DtbType /\ TreeInv /\ FoundInv /\ RootInv
  BY DEF DtbInv
<1>2. path = <<>> /\ Size > 0 /\ Size \in Nat /\ DOMAIN blob = 1 .. Size
      /\ DOMAIN found = 1 .. Len(found)
  BY <1>1 DEF TreeInv, DtbType, Size
<1>3. \A n : ~Open(n)
  BY <1>2 DEF Open
<1>4. ASSUME NEW n \in DOMAIN blob \ {1}, IsLeaf(n), blob[n].compatible # Absent
      PROVE  \E k \in DOMAIN found : /\ \A l \in DOMAIN found : found[l].node = n <=> l = k
                                     /\ AsRead(found[k])
  <2>1. n \in 2 .. Size
    BY <1>2
  <2>2. PICK k \in 1 .. Len(found) : found[k].node = n
    BY <1>1, <1>3, <1>4, <2>1 DEF FoundInv
  <2>3. AsRead(found[k]) /\ \A l \in 1 .. Len(found) : found[l].node = n => l = k
    BY <1>1, <2>2 DEF FoundInv
  <2> QED BY <1>2, <2>2, <2>3
<1>5. LeavesFound
  BY <1>4, Zenon DEF LeavesFound
<1>6. RootFacts
  BY <1>1, <1>2 DEF RootInv, RootFacts
<1> QED BY <1>5, <1>6 DEF TreeIsRead

\* The devices, the memory and the root's strings are read from every tree as
\* they stand in it, however it is nested and in whatever order its properties
\* come.
THEOREM TreesAreRead == DtbSpec => []TreeIsRead
<1>1. DtbInv /\ [DtbNext]_dtbVars => DtbInv'
  BY DtbNextInv
<1> QED BY <1>1, DtbInitInv, InvTreeIsRead, PTL DEF DtbSpec

LEMMA LeastNumber ==
  ASSUME NEW T \in SUBSET Nat, T # {}
  PROVE  \E x \in T : \A y \in T : x <= y
<1> DEFINE Less == OpToRel(<, Nat)
<1>1. IsWellFoundedOn(Less, Nat)
  BY NatLessThanWellFounded, Zenon
<1>2. \A a, b \in Nat : a < b => <<a, b>> \in Less
  BY DEF OpToRel
<1> HIDE DEF Less
<1>3. PICK x \in T : \A y \in T : ~ (<<y, x>> \in Less)
  BY <1>1, WFMin, Zenon
<1>4. \A y \in T : x <= y
  <2> TAKE y \in T
  <2>1. x \in Nat /\ y \in Nat
    OBVIOUS
  <2>2. ~ (y < x)
    BY <1>2, <1>3, <2>1, Zenon
  <2> QED BY <2>1, <2>2
<1> QED BY <1>4

-----------------------------------------------------------------------------
(* The devices and the board *)

LEMMA LeastIs ==
  ASSUME NEW T \in SUBSET Nat, T # {}
  PROVE  Least(T) \in T /\ \A y \in T : Least(T) <= y
<1>1. \E x \in T : \A y \in T : x <= y
  BY LeastNumber
<1> QED BY <1>1, Zenon DEF Least

\* What find_compatible() gives for a string is a leaf of the tree that has it.
LEMMA FoundIsALeaf ==
  ASSUME DtbInv, NEW target, NEW k \in find_compatible(target)
  PROVE  /\ k \in Nat /\ k \in DOMAIN found
         /\ found[k] # Absent /\ AsRead(found[k])
         /\ found[k].node \in DOMAIN blob \ {1} /\ IsLeaf(found[k].node)
         /\ blob[found[k].node].compatible # Absent
         /\ target \in Range(blob[found[k].node].compatible)
<1>1. DtbType /\ FoundInv
  BY DEF DtbInv
<1>2. k \in DOMAIN found /\ target \in Range(found[k].compatible)
  BY DEF find_compatible
<1>3. k \in 1 .. Len(found) /\ k \in Nat /\ found[k] \in Info
  BY <1>1, <1>2 DEF DtbType
<1>4. found[k].node \in 2 .. Size /\ IsLeaf(found[k].node) /\ AsRead(found[k])
  BY <1>1, <1>3 DEF FoundInv
<1>5. DOMAIN blob = 1 .. Size
  BY <1>1 DEF DtbType, Size
<1>6. found[k].node \in DOMAIN blob \ {1}
  BY <1>4, <1>5
<1>7. found[k].compatible # <<>>
  <2>1. Range(<<>>) = {}
    BY DEF Range
  <2> QED BY <1>2, <2>1
<1>8. blob[found[k].node].compatible # Absent
      /\ found[k].compatible = blob[found[k].node].compatible
  BY <1>4, <1>7, Zenon DEF AsRead
<1> QED BY <1>2, <1>3, <1>4, <1>6, <1>8, InfoNotAbsent

\* And every such leaf is given.
LEMMA LeafIsFound ==
  ASSUME DtbInv, done, NEW target, NEW n \in DOMAIN blob \ {1}, IsLeaf(n),
         blob[n].compatible # Absent, target \in Range(blob[n].compatible)
  PROVE  find_compatible(target) # {}
<1>1. TreeIsRead
  BY InvTreeIsRead
<1>2. PICK k \in DOMAIN found : (\A l \in DOMAIN found : found[l].node = n <=> l = k)
                                /\ AsRead(found[k])
  BY <1>1, Zenon DEF TreeIsRead, LeavesFound
<1>3. found[k].node = n
  BY <1>2
<1>4. found[k].compatible = blob[n].compatible
  BY <1>2, <1>3 DEF AsRead
<1> QED BY <1>2, <1>4 DEF find_compatible

LEMMA FindFirstRight ==
  ASSUME DtbInv, done, NEW kind \in Kinds
  PROVE  DeviceFromTree(FindFirst(CompatiblesOf[kind]), kind)
<1>1. PICK targets : targets = CompatiblesOf[kind]
  OBVIOUS
<1>2. PICK hits : hits = {i \in DOMAIN targets : find_compatible(targets[i]) # {}}
  BY Zenon
<1>3. PICK leaves : leaves = {n \in DOMAIN blob \ {1} : Wants(n, kind) /\ IsLeaf(n)}
  BY Zenon
<1>4. PICK device : device = FindFirst(CompatiblesOf[kind])
  OBVIOUS
<1>5. targets \in Seq(Range(targets)) /\ hits \in SUBSET Nat
  BY <1>1, <1>2, BoardAssumption
<1>6. CASE hits = {}
  <2>1. device = Absent
    BY <1>1, <1>2, <1>4, <1>6 DEF FindFirst
  <2>2. leaves = {}
    <3> SUFFICES ASSUME NEW n \in leaves PROVE FALSE
      OBVIOUS
    <3>1. n \in DOMAIN blob \ {1} /\ IsLeaf(n) /\ blob[n].compatible # Absent
      BY <1>3 DEF Wants
    <3>2. PICK i \in DOMAIN targets : targets[i] \in Range(blob[n].compatible)
      BY <1>1, <1>3 DEF Wants, Range
    <3>3. find_compatible(targets[i]) # {}
      BY <3>1, <3>2, LeafIsFound
    <3> QED BY <1>2, <1>6, <3>3
  <2> QED BY <1>3, <1>4, <2>1, <2>2, Zenon DEF DeviceFromTree
<1>7. CASE hits # {}
  <2>1. PICK i : i = Least(hits)
    OBVIOUS
  <2>2. i \in hits
    BY <1>5, <1>7, <2>1, LeastIs
  <2>3. PICK places : places = find_compatible(targets[i])
    OBVIOUS
  <2>4. places # {} /\ i \in DOMAIN targets
    BY <1>2, <2>2, <2>3
  <2>5. places \in SUBSET Nat
    BY <2>3, FoundIsALeaf
  <2>6. PICK k : k = Least(places)
    OBVIOUS
  <2>7. k \in places
    BY <2>4, <2>5, <2>6, LeastIs
  <2>8. device = found[k]
    BY <1>1, <1>2, <1>4, <1>7, <2>1, <2>3, <2>6, Zenon DEF FindFirst
  <2>9. /\ found[k] # Absent /\ AsRead(found[k])
        /\ found[k].node \in DOMAIN blob \ {1} /\ IsLeaf(found[k].node)
        /\ blob[found[k].node].compatible # Absent
        /\ targets[i] \in Range(blob[found[k].node].compatible)
    BY <2>3, <2>7, FoundIsALeaf, Zenon
  <2>10. targets[i] \in Range(CompatiblesOf[kind])
    BY <1>1, <2>4 DEF Range
  <2>11. Wants(found[k].node, kind)
    BY <2>9, <2>10, Zenon DEF Wants
  <2>12. device.node \in leaves
    BY <1>3, <2>8, <2>9, <2>11, Zenon
  <2>13. AsRead(device) /\ device # Absent
    BY <2>8, <2>9, Zenon
  <2> QED BY <1>3, <1>4, <2>12, <2>13 DEF DeviceFromTree
<1> QED BY <1>6, <1>7

LEMMA BestBoard ==
  ASSUME DtbInv, root_compat # Absent, boards \in Seq(Range(BuiltinBoards)), dt
  PROVE  BoardFromTree(Chosen(boards))
<1> SUFFICES ASSUME NEW i \in DOMAIN root_compat, NEW b \in Range(boards),
                    root_compat[i] \in b.compatible
             PROVE  \E j \in 1 .. i : root_compat[j] \in Chosen(boards).compatible
  BY Zenon DEF BoardFromTree
<1>1. root_compat \in Compats
  <2>1. blob[1] \in NodeRec /\ root_compat = blob[1].compatible
    BY DEF DtbInv, DtbType, RootInv, Size
  <2> QED BY <2>1 DEF NodeRec
<1>2. DOMAIN root_compat \subseteq Nat \ {0}
  BY <1>1, DtbAssumption
<1>3. PICK hits : hits = {n \in DOMAIN root_compat :
                            find_board_by_compatible(boards, root_compat[n]) # {}}
  BY Zenon
<1>4. i \in hits
  BY <1>3 DEF find_board_by_compatible, Range
<1>5. hits \in SUBSET Nat
  BY <1>2, <1>3
<1>6. PICK j : j = Least(hits)
  OBVIOUS
<1>7. j \in hits /\ j <= i
  BY <1>4, <1>5, <1>6, LeastIs
<1>8. PICK places : places = find_board_by_compatible(boards, root_compat[j])
  OBVIOUS
<1>9. places # {} /\ j \in DOMAIN root_compat
  BY <1>3, <1>7, <1>8
<1>10. places \in SUBSET Nat
  BY <1>8 DEF find_board_by_compatible
<1>11. PICK k : k = Least(places)
  OBVIOUS
<1>12. k \in places
  BY <1>9, <1>10, <1>11, LeastIs
<1>13. k \in DOMAIN boards /\ root_compat[j] \in boards[k].compatible
  BY <1>8, <1>12 DEF find_board_by_compatible
<1>14. boards[k] # Absent
  BY <1>13, BoardAssumption
<1>15. find_best_board(boards, root_compat) = boards[k]
  <2>1. hits # {}
    BY <1>4
  <2> QED BY <1>3, <1>6, <1>8, <1>11, <2>1, Zenon DEF find_best_board
<1>16. Chosen(boards) = boards[k]
  BY <1>14, <1>15, Zenon DEF Chosen
<1>17. j \in 1 .. i
  BY <1>2, <1>7, <1>9
<1> QED BY <1>13, <1>16, <1>17

-----------------------------------------------------------------------------
(* Boot *)

\* What the boot has chosen was chosen from the whole tree.
BootInv ==
  /\ DtbInv
  /\ boards \in Seq(Range(BuiltinBoards)) /\ registered \in 0 .. Len(BuiltinBoards)
  /\ stage # "dtb" => done
  /\ active # Absent => stage \notin {"dtb", "mm", "board"}
  /\ config # Absent => stage \notin {"dtb", "mm", "board", "config"}
  /\ PlatformFromTree

LEMMA BootInitInv == PlatformInit => BootInv
<1> SUFFICES ASSUME PlatformInit PROVE BootInv
  OBVIOUS
<1>1. DtbInv
  BY DtbInitInv DEF PlatformInit
<1>2. boards \in Seq(Range(BuiltinBoards)) /\ registered \in 0 .. Len(BuiltinBoards)
  BY BoardAssumption DEF PlatformInit
<1>3. stage = "dtb" /\ active = Absent /\ config = Absent
  BY DEF PlatformInit
<1> QED BY <1>1, <1>2, <1>3, Zenon DEF BootInv, PlatformFromTree

\* After FDT_END no token is read.
LEMMA TreeIsDone ==
  ASSUME DtbNext
  PROVE  ~done
BY Zenon DEF DtbNext, BeginNode, EndNode, PropCompatible, PropReg, PropCells, End, MayBegin, MayHave

LEMMA KeepsConfig ==
  ASSUME UNCHANGED dtbVars, UNCHANGED <<dt, config>>,
         config # Absent => \A k \in Kinds :
           IF dt THEN DeviceFromTree(config.device[k], k) ELSE config.device[k] = Absent
  PROVE  (config # Absent => \A k \in Kinds :
           IF dt THEN DeviceFromTree(config.device[k], k) ELSE config.device[k] = Absent)'
<1>1. blob' = blob
  BY Zenon DEF dtbVars
<1>2. ASSUME NEW device, NEW k PROVE DeviceFromTree(device, k)' <=> DeviceFromTree(device, k)
  BY <1>1, Zenon DEF DeviceFromTree, Wants, IsLeaf, AsRead, CellsOf
<1>3. ASSUME NEW k PROVE DeviceFromTree(config.device[k], k)' <=> DeviceFromTree(config.device[k], k)
  <2>1. PICK device : device = config.device[k]
    OBVIOUS
  <2>2. config'.device[k] = device
    BY <2>1
  <2>3. DeviceFromTree(config.device[k], k)' <=> DeviceFromTree(device, k)'
    BY <2>2, Zenon DEF DeviceFromTree, AsRead
  <2> QED BY <1>2, <2>1, <2>3, Zenon
<1> QED BY <1>3

LEMMA KeepsBoard ==
  ASSUME UNCHANGED dtbVars, UNCHANGED <<dt, boards, active>>,
         (active # Absent /\ dt /\ root_compat # Absent) => BoardFromTree(active)
  PROVE  ((active # Absent /\ dt /\ root_compat # Absent) => BoardFromTree(active))'
BY Zenon DEF dtbVars, BoardFromTree

LEMMA BootStep ==
  ASSUME BootInv, [PlatformNext]_<<dtbVars, bootVars>>
  PROVE  BootInv'
<1>1. /\ DtbInv /\ boards \in Seq(Range(BuiltinBoards)) /\ registered \in 0 .. Len(BuiltinBoards)
      /\ stage # "dtb" => done
      /\ active # Absent => stage \notin {"dtb", "mm", "board"}
      /\ config # Absent => stage \notin {"dtb", "mm", "board", "config"}
      /\ config # Absent => \A k \in Kinds :
           IF dt THEN DeviceFromTree(config.device[k], k) ELSE config.device[k] = Absent
      /\ (active # Absent /\ dt /\ root_compat # Absent) => BoardFromTree(active)
  BY DEF BootInv, PlatformFromTree
<1>2. CASE DtbNext /\ UNCHANGED bootVars
  <2>1. DtbInv'
    BY <1>1, <1>2, DtbNextInv
  <2>2. ~done /\ stage = "dtb" /\ active = Absent /\ config = Absent
    BY <1>1, <1>2, TreeIsDone
  <2> QED BY <1>1, <1>2, <2>1, <2>2 DEF BootInv, PlatformFromTree, bootVars
<1>3. ASSUME UNCHANGED dtbVars PROVE DtbInv' /\ done' = done /\ root_compat' = root_compat
  BY <1>1, <1>3, DtbNextInv DEF dtbVars
<1>4. CASE FindTree
  <2>1. /\ done /\ stage = "dtb" /\ stage' = "mm" /\ UNCHANGED dtbVars
        /\ UNCHANGED <<boards, registered, active, config>>
    BY <1>4 DEF FindTree, Boot
  <2>2. active = Absent /\ config = Absent
    BY <1>1, <2>1, Zenon
  <2> QED BY <1>1, <1>3, <2>1, <2>2 DEF BootInv, PlatformFromTree
<1>5. ASSUME done, UNCHANGED dtbVars, UNCHANGED <<dt, boards, registered, active, config>>,
             stage' \notin {"dtb", "mm"},
             stage' \in {"board", "config"} => stage \in {"dtb", "mm", "board"}
      PROVE  BootInv'
  <2>1. DtbInv' /\ done'
    BY <1>3, <1>5
  <2>2. (config # Absent => \A k \in Kinds :
           IF dt THEN DeviceFromTree(config.device[k], k) ELSE config.device[k] = Absent)'
    BY <1>1, <1>5, KeepsConfig, Zenon
  <2>3. ((active # Absent /\ dt /\ root_compat # Absent) => BoardFromTree(active))'
    BY <1>1, <1>5, KeepsBoard, Zenon
  <2>4. PlatformFromTree'
    BY <2>2, <2>3, Zenon DEF PlatformFromTree
  <2>5. /\ active' # Absent => stage' \notin {"dtb", "mm", "board"}
        /\ config' # Absent => stage' \notin {"dtb", "mm", "board", "config"}
    BY <1>1, <1>5
  <2>6. boards' \in Seq(Range(BuiltinBoards)) /\ registered' \in 0 .. Len(BuiltinBoards)
    BY <1>1, <1>5
  <2> QED BY <2>1, <2>4, <2>5, <2>6, Zenon DEF BootInv
<1>6. CASE InitMemory
  <2>1. /\ done /\ stage = "mm" /\ stage' = "board" /\ UNCHANGED dtbVars
        /\ UNCHANGED <<dt, boards, registered, active, config>>
    BY <1>6 DEF InitMemory, Boot
  <2> QED BY <1>5, <2>1
<1>7. CASE register_builtin_boards
  <2>1. /\ done /\ stage = "board" /\ stage' = "board" /\ UNCHANGED dtbVars
        /\ UNCHANGED <<dt, active, config>>
        /\ registered < Len(BuiltinBoards) /\ registered' = registered + 1
        /\ boards' = register_builtin_board(boards, BuiltinBoards[registered + 1])
    BY <1>7 DEF register_builtin_boards, Boot
  <2>2. active = Absent /\ config = Absent
    BY <1>1, <2>1
  <2>3. Len(BuiltinBoards) \in Nat
    BY BoardAssumption
  <2>4. registered + 1 \in 1 .. Len(BuiltinBoards) /\ registered' \in 0 .. Len(BuiltinBoards)
    BY <1>1, <2>1, <2>3
  <2>5. PICK b : b = BuiltinBoards[registered + 1]
    OBVIOUS
  <2>6. b \in Range(BuiltinBoards)
    BY <2>4, <2>5, BoardAssumption
  <2>7. boards' = boards \/ boards' = Append(boards, b)
    BY <2>1, <2>5, Zenon DEF register_builtin_board
  <2>8. boards' \in Seq(Range(BuiltinBoards))
    <3>1. PICK S : S = Range(BuiltinBoards)
      OBVIOUS
    <3>2. boards \in Seq(S) /\ b \in S
      BY <1>1, <2>6, <3>1, Zenon
    <3>3. Append(boards, b) \in Seq(S)
      BY <3>2
    <3> QED BY <2>7, <3>1, <3>2, <3>3, Zenon
  <2> QED BY <1>3, <2>1, <2>2, <2>4, <2>8 DEF BootInv, PlatformFromTree
<1>8. CASE init_board_system
  <2>1. /\ done /\ stage = "board" /\ stage' = "config" /\ UNCHANGED dtbVars
        /\ UNCHANGED <<dt, boards, registered, config>>
        /\ active' = Chosen(boards)
    BY <1>8 DEF init_board_system, Boot
  <2>2. config = Absent /\ config' = Absent
    BY <1>1, <2>1
  <2>3. (dt /\ root_compat # Absent) => BoardFromTree(Chosen(boards))
    BY <1>1, BestBoard
  <2>4. PICK board : board = Chosen(boards)
    OBVIOUS
  <2>5. (dt' /\ root_compat' # Absent) => BoardFromTree(board)'
    BY <2>1, <2>3, <2>4 DEF BoardFromTree, dtbVars
  <2>6. ((active # Absent /\ dt /\ root_compat # Absent) => BoardFromTree(active))'
    BY <2>1, <2>4, <2>5 DEF BoardFromTree
  <2>7. PlatformFromTree'
    BY <2>2, <2>6, Zenon DEF PlatformFromTree
  <2>8. DtbInv' /\ done'
    BY <1>3, <2>1
  <2>9. boards' \in Seq(Range(BuiltinBoards)) /\ registered' \in 0 .. Len(BuiltinBoards)
    BY <1>1, <2>1
  <2> QED BY <2>1, <2>2, <2>7, <2>8, <2>9 DEF BootInv
<1>9. CASE probe_platform
  <2>1. /\ done /\ stage = "config" /\ stage' = "mmu" /\ UNCHANGED dtbVars
        /\ UNCHANGED <<dt, boards, registered, active>>
        /\ config' = [device |-> [k \in Kinds |->
                        IF dt THEN FindFirst(CompatiblesOf[k]) ELSE Absent],
                      cpus |-> IF dt THEN count_cpus ELSE 1]
    BY <1>9 DEF probe_platform, Boot
  <2>2. ASSUME NEW k \in Kinds
        PROVE  (IF dt THEN DeviceFromTree(config.device[k], k) ELSE config.device[k] = Absent)'
    <3>1. PICK device : device = IF dt THEN FindFirst(CompatiblesOf[k]) ELSE Absent
      OBVIOUS
    <3>2. config'.device[k] = device
      BY <2>1, <3>1
    <3>3. CASE ~dt
      BY <2>1, <3>1, <3>2, <3>3
    <3>4. CASE dt
      <4>1. DeviceFromTree(device, k)
        BY <1>1, <2>1, <3>1, <3>4, FindFirstRight, Zenon
      <4>2. DeviceFromTree(device, k)'
        BY <2>1, <4>1, Zenon DEF DeviceFromTree, Wants, IsLeaf, AsRead, CellsOf, dtbVars
      <4>3. DeviceFromTree(config.device[k], k)'
        BY <3>2, <4>2, Zenon DEF DeviceFromTree, AsRead
      <4> QED BY <2>1, <3>4, <4>3
    <3> QED BY <3>3, <3>4
  <2>3. ((active # Absent /\ dt /\ root_compat # Absent) => BoardFromTree(active))'
    BY <1>1, <2>1, KeepsBoard, Zenon
  <2>4. PlatformFromTree'
    BY <2>2, <2>3, Zenon DEF PlatformFromTree
  <2>5. DtbInv' /\ done'
    BY <1>3, <2>1
  <2>6. boards' \in Seq(Range(BuiltinBoards)) /\ registered' \in 0 .. Len(BuiltinBoards)
    BY <1>1, <2>1
  <2> QED BY <2>1, <2>4, <2>5, <2>6 DEF BootInv
<1>10. ASSUME NEW from \in {"mmu", "irqchip", "timer"}, NEW to \in {"irqchip", "timer", "proc"},
              InitOrHalt(from, to)
       PROVE  BootInv'
  <2>1. /\ done /\ stage' \in {to, "halted"} /\ UNCHANGED dtbVars
        /\ UNCHANGED <<dt, boards, registered, active, config>>
    BY <1>10 DEF InitOrHalt, Boot
  <2> QED BY <1>5, <2>1
<1>11. CASE InitRest
  <2>1. /\ done /\ stage' \in {"smp", "shell"} /\ UNCHANGED dtbVars
        /\ UNCHANGED <<dt, boards, registered, active, config>>
    BY <1>11 DEF InitRest, Boot
  <2> QED BY <1>5, <2>1
<1>12. CASE start_smp
  <2>1. /\ done /\ stage' = "shell" /\ UNCHANGED dtbVars
        /\ UNCHANGED <<dt, boards, registered, active, config>>
    BY <1>12 DEF start_smp, Boot
  <2> QED BY <1>5, <2>1
<1>13. CASE UNCHANGED <<dtbVars, bootVars>>
  <2>1. UNCHANGED dtbVars /\ UNCHANGED <<stage, dt, boards, registered, active, config>>
    BY <1>13 DEF bootVars
  <2>2. (config # Absent => \A k \in Kinds :
           IF dt THEN DeviceFromTree(config.device[k], k) ELSE config.device[k] = Absent)'
    BY <1>1, <2>1, KeepsConfig, Zenon
  <2>3. ((active # Absent /\ dt /\ root_compat # Absent) => BoardFromTree(active))'
    BY <1>1, <2>1, KeepsBoard, Zenon
  <2>4. PlatformFromTree'
    BY <2>2, <2>3, Zenon DEF PlatformFromTree
  <2> QED BY <1>1, <1>3, <2>1, <2>4 DEF BootInv
<1> QED BY <1>2, <1>4, <1>6, <1>7, <1>8, <1>9, <1>10, <1>11, <1>12, <1>13, Zenon DEF PlatformNext

\* Whatever the tree, the kernel boots with the tree's devices and the board that
\* fits it best.
THEOREM PlatformsAreFromTheTree == PlatformSpec => []PlatformFromTree
<1>1. BootInv /\ [PlatformNext]_<<dtbVars, bootVars>> => BootInv'
  BY BootStep
<1>2. BootInv => PlatformFromTree
  BY Zenon DEF BootInv
<1> QED BY <1>1, <1>2, BootInitInv, PTL DEF PlatformSpec
=============================================================================
