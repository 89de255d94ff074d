--------------------------------- MODULE Dtb --------------------------------
(***************************************************************************)
(* The device tree parser of src/src/dtb/mod.rs.  A blob is given to the   *)
(* parser token by token; `blob' keeps the nodes it describes and is the   *)
(* reference.  Three of its scanners read the same tokens: scan_nodes(),   *)
(* find_memory_region() and scan_root_compatible().  The words of a reg    *)
(* property are its positions 1, 2, 3 ..., so an address or a size is the  *)
(* positions it was read from.                                             *)
(***************************************************************************)
EXTENDS Integers, Sequences, FiniteSets, Functions

CONSTANTS
  NodeNames,      \* names of nodes, up to the "@"; "memory" and "cpu" mean something
  Compats,    \* values of compatible: sequences of strings, none empty
  Cells,      \* values of #address-cells and #size-cells, as records
  RegWords,   \* lengths of a reg property, in words
  MaxNodes,   \* bound on the nodes, the root included
  Absent

VARIABLES
  blob,       \* the nodes so far: name, parent and properties
  path,       \* the nodes begun and not ended, the root first
  done,       \* FDT_END has been read
  cells,      \* root_address_cells, root_size_cells
  current,    \* current_info of scan_nodes(), with its cells, or Absent
  found,      \* the nodes that scan_nodes() gave to its callback
  memory,     \* what find_memory_region() returns, Absent until it does
  root_compat \* what scan_root_compatible() collected

dtbVars == <<blob, path, done, cells, current, found, memory, root_compat>>

DefaultCells == [address |-> 2, size |-> 1]

DtbInit ==
  /\ blob = <<>> /\ path = <<>> /\ done = FALSE
  /\ cells = DefaultCells
  /\ current = Absent
  /\ found = <<>>
  /\ memory = Absent
  /\ root_compat = Absent

depth == Len(path)
Inner == path[depth]
Node == blob[Inner]

\* A token comes in the order of the format: the properties of a node, each
\* once, before its children; one root.  A memory node has no children.
MayBegin ==
  /\ ~done /\ Len(blob) < MaxNodes
  /\ IF path = <<>> THEN blob = <<>> ELSE Node.name # "memory"

MayHave(value) == ~done /\ path # <<>> /\ Inner = Len(blob) /\ value = Absent

-----------------------------------------------------------------------------
(* Reading a reg property *)

\* One or two words, or nothing.
read_cells(at, n) == IF n \in {1, 2} THEN [i \in 1 .. n |-> at + i - 1] ELSE <<>>

\* The (base, size) pairs of a property of so many words.
Entries(words, c) ==
  LET entry_size == c.address + c.size
  IN  [i \in 1 .. words \div entry_size |->
         LET at == (i - 1) * entry_size + 1
         IN  [base |-> read_cells(at, c.address), size |-> read_cells(at + c.address, c.size)]]

\* What is kept of a node, and of the memory, is never taken for nothing.
AllCells == Cells \cup {DefaultCells}
RegValues == {<<>>} \cup {Entries(words, c) : words \in RegWords, c \in AllCells}
Info == [node : Nat, compatible : Compats \cup {<<>>}, reg : RegValues, cells : AllCells]

ASSUME DtbAssumption ==
  /\ Absent \notin Compats /\ Absent \notin Cells /\ Absent \notin RegWords
  /\ Absent \notin Info
  /\ \A c \in AllCells :
       Absent \notin [node : Nat, base : {read_cells(1, c.address)},
                      size : {read_cells(c.address + 1, c.size)}]
  /\ <<>> \notin Compats /\ \A value \in Compats : value \in Seq(Range(value))

-----------------------------------------------------------------------------
(* Tokens *)

\* Inside the root, whatever node was being read is replaced.
BeginNode(name) ==
  /\ MayBegin
  /\ blob' = Append(blob, [name |-> name, parent |-> IF path = <<>> THEN 0 ELSE Inner,
                           compatible |-> Absent, reg |-> Absent, cells |-> Absent])
  /\ path' = Append(path, Len(blob'))
  /\ current' = IF depth > 0
                THEN [node |-> Len(blob'), compatible |-> <<>>, reg |-> <<>>, cells |-> cells]
                ELSE current
  /\ UNCHANGED <<done, cells, found, memory, root_compat>>

\* reg_base # 0: an address of no words is read as 0.
HasBase(reg) == reg # <<>> /\ reg[1].base # <<>>

\* The node being read goes to the callback if it has a compatible string or
\* an address.
EndNode ==
  /\ ~done /\ path # <<>>
  /\ path' = SubSeq(path, 1, depth - 1)
  /\ found' = IF current # Absent /\ (current.compatible # <<>> \/ HasBase(current.reg))
              THEN Append(found, current) ELSE found
  /\ current' = Absent
  /\ UNCHANGED <<blob, done, cells, memory, root_compat>>

PropCompatible(value) ==
  /\ MayHave(Node.compatible)
  /\ blob' = [blob EXCEPT ![Inner].compatible = value]
  /\ root_compat' = IF depth = 1 /\ root_compat = Absent THEN value ELSE root_compat
  /\ current' = IF current = Absent THEN Absent ELSE [current EXCEPT !.compatible = value]
  /\ UNCHANGED <<path, done, cells, found, memory>>

PropReg_DefaultCells(words) ==
  /\ MayHave(Node.reg)
  /\ blob' = [blob EXCEPT ![Inner].reg = words]
  /\ current' = IF current = Absent THEN Absent
                ELSE [current EXCEPT !.reg = Entries(words, DefaultCells)]
  /\ memory' = IF memory = Absent /\ depth = 2 /\ Node.name = "memory"
               THEN [node |-> Inner, base |-> read_cells(1, DefaultCells.address),
                     size |-> read_cells(DefaultCells.address + 1, DefaultCells.size)]
               ELSE memory
  /\ UNCHANGED <<path, done, cells, found, root_compat>>

\* scan_nodes() takes all entries, with the cells it has for the node;
\* find_memory_region() the first one, with those of the root.
PropReg(words) ==
  /\ MayHave(Node.reg)
  /\ blob' = [blob EXCEPT ![Inner].reg = words]
  /\ current' = IF current = Absent THEN Absent
                ELSE [current EXCEPT !.reg = Entries(words, current.cells)]
  /\ memory' = IF memory = Absent /\ depth = 2 /\ Node.name = "memory"
               THEN [node |-> Inner, base |-> read_cells(1, cells.address),
                     size |-> read_cells(cells.address + 1, cells.size)]
               ELSE memory
  /\ UNCHANGED <<path, done, cells, found, root_compat>>

\* #address-cells and #size-cells: those of the root are kept, and a node's
\* own ones are used for what is left of its properties.
PropCells(c) ==
  /\ MayHave(Node.cells)
  /\ blob' = [blob EXCEPT ![Inner].cells = c]
  /\ cells' = IF depth = 1 THEN c ELSE cells
  /\ current' = IF current = Absent THEN Absent ELSE [current EXCEPT !.cells = c]
  /\ UNCHANGED <<path, done, found, memory, root_compat>>

End ==
  /\ ~done /\ path = <<>> /\ blob # <<>>
  /\ done' = TRUE
  /\ UNCHANGED <<blob, path, cells, current, found, memory, root_compat>>

DtbNext ==
  \/ \E name \in NodeNames : BeginNode(name)
  \/ EndNode
  \/ \E value \in Compats : PropCompatible(value)
  \/ \E words \in RegWords : PropReg(words)
  \/ \E c \in Cells : PropCells(c)
  \/ End

DtbSpec == DtbInit /\ [][DtbNext]_dtbVars

-----------------------------------------------------------------------------
(* What the rest of the kernel asks *)

\* The places in `found' of the nodes that have the string.
find_compatible(target) == {i \in DOMAIN found : target \in Range(found[i].compatible)}

Least(places) == CHOOSE i \in places : \A j \in places : i <= j

\* The first device of the first string of the list that has one: find_gic(),
\* find_plic(), find_clint() and find_uart().
FindFirst(targets) ==
  LET hits == {i \in DOMAIN targets : find_compatible(targets[i]) # {}}
  IN  IF hits = {} THEN Absent ELSE found[Least(find_compatible(targets[Least(hits)]))]

count_cpus ==
  LET n == Cardinality({i \in DOMAIN found : blob[found[i].node].name = "cpu"})
  IN  IF n = 0 THEN 1 ELSE n

-----------------------------------------------------------------------------
(* Properties *)

IsLeaf(n) == \A m \in DOMAIN blob : blob[m].parent # n

CellsOf(n) == IF blob[n].cells = Absent THEN DefaultCells ELSE blob[n].cells

\* A node as the tree has it.
AsRead(info) ==
  LET n == info.node
  IN  /\ info.compatible = IF blob[n].compatible = Absent THEN <<>> ELSE blob[n].compatible
      /\ blob[n].cells = Absent =>
           info.reg = IF blob[n].reg = Absent THEN <<>> ELSE Entries(blob[n].reg, CellsOf(1))

\* Every device without children is reported once, with its compatible strings,
\* and one that has no cells of its own with all its addresses and sizes,
\* whatever nodes and cells come before and around it.
LeavesFound ==
  done => \A n \in DOMAIN blob \ {1} :
    (IsLeaf(n) /\ blob[n].compatible # Absent) =>
      \E k \in DOMAIN found : /\ \A l \in DOMAIN found : found[l].node = n <=> l = k
                              /\ AsRead(found[k])

\* The memory region is read from the first memory node below the root that has
\* one, with the root's cells wherever they stand; the board is identified by
\* the compatible strings of the root and of no other node.
IsBank(n) == blob[n].parent = 1 /\ blob[n].name = "memory" /\ blob[n].reg # Absent

MemoryRead ==
  LET banks == {n \in DOMAIN blob : IsBank(n)}
      c == CellsOf(1)
  IN  IF banks = {} THEN memory = Absent
      ELSE \E n \in banks :
             /\ \A m \in banks : n <= m
             /\ memory = [node |-> n, base |-> read_cells(1, c.address),
                          size |-> read_cells(c.address + 1, c.size)]

RootFacts == done => MemoryRead /\ root_compat = blob[1].compatible

\* The devices, the memory and the root's strings are read from the tree as
\* they stand in it.
TreeIsRead == LeavesFound /\ RootFacts

\* "DTB를 순회하며 지정된 compatible 문자열을 가진 모든 노드를 찾아 반환"
\* (dtb/mod.rs): find_compatible() returns all nodes that have the string.
AllNodesFound ==
  done => \A n \in DOMAIN blob \ {1} : \A value \in Compats :
    blob[n].compatible = value =>
      \A s \in Range(value) : \E i \in find_compatible(s) : found[i].node = n
=============================================================================
