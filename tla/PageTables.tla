----------------------------- MODULE PageTables -----------------------------
(***************************************************************************)
(* The page tables of src/src/arch/riscv64/mmu.rs and                      *)
(* src/src/arch/aarch64/mmu.rs, from the empty root table to the address   *)
(* space the MMU is enabled with.  Addresses count pages; a table has FAN  *)
(* entries; there are three levels, the last two of which may hold leaves: *)
(* blocks of FAN pages and single pages.  (AArch64 has one more level      *)
(* above, with one table.)                                                 *)
(***************************************************************************)
EXTENDS Integers, Sequences, SequencesExt

CONSTANTS
  FAN,         \* entries of a table
  RamStarts,   \* where the RAM may start
  RamSizes,    \* how large it may be
  MmioPages,   \* the pages of the UART, of the interrupt controller ...
  HIGH,        \* KERNEL_VIRT_BASE, of RISC-V
  FrameCounts, \* frames there may be for tables
  None

VARIABLES
  arch, ram, frames, \* chosen at the start
  tables,      \* the tables, the root first: index -> entry
  todo,        \* the mappings still to be made
  result,      \* "mapping", "enabled" or "failed"
  made         \* history: the mappings made, virtual page -> physical page

vars == <<arch, ram, frames, tables, todo, result, made>>

Empty == [kind |-> "empty", to |-> 0, device |-> FALSE]
Table(f) == [kind |-> "table", to |-> f, device |-> FALSE]
Leaf(p, device) == [kind |-> "leaf", to |-> p, device |-> device]
NewTable == [i \in 0 .. FAN - 1 |-> Empty]

Block(page) == (page \div FAN) * FAN
Top(v) == (v \div (FAN * FAN)) % FAN
Mid(v) == (v \div FAN) % FAN
Low(v) == v % FAN

\* The calls of create_mapping() and create_identity_mapping(), in order: the
\* RAM in blocks, on RISC-V once more in the higher half, and the devices.
MapBlock(v, p) == [call |-> "block", virt |-> Block(v), phys |-> Block(p)]
MapPage(p) == [call |-> "page", virt |-> p, phys |-> p]

create_mapping_FullBlocks(a, r) ==
  LET n == r.size \div FAN
  IN  [k \in 1 .. n |-> MapBlock(r.start + (k - 1) * FAN, r.start + (k - 1) * FAN)]
      \o (IF a = "aarch64" THEN <<>>
          ELSE [k \in 1 .. n |-> MapBlock(HIGH + (k - 1) * FAN, r.start + (k - 1) * FAN)])
      \o [k \in DOMAIN MmioPages |-> MapPage(MmioPages[k])]

create_mapping(a, r) ==
  LET n == (r.size + FAN - 1) \div FAN
  IN  [k \in 1 .. n |-> MapBlock(r.start + (k - 1) * FAN, r.start + (k - 1) * FAN)]
      \o (IF a = "aarch64" THEN <<>>
          ELSE [k \in 1 .. n |-> MapBlock(HIGH + (k - 1) * FAN, r.start + (k - 1) * FAN)])
      \o [k \in DOMAIN MmioPages |-> MapPage(MmioPages[k])]

Init ==
  /\ arch \in {"aarch64", "riscv64"}
  /\ ram \in [start : RamStarts, size : RamSizes]
  /\ frames \in FrameCounts
  /\ tables = <<NewTable>>
  /\ todo = create_mapping(arch, ram)
  /\ result = "mapping"
  /\ made = [v \in {} |-> None]

-----------------------------------------------------------------------------
(* One call *)

\* The table below an entry, made if there is none; nothing if no frame is left
\* or, on RISC-V, if the entry is a leaf.  AArch64 takes a block for a table:
\* 0 stands for the memory of the block.
get_or_create_next_level(ts, t, i) ==
  LET entry == ts[t][i]
  IN  CASE entry.kind = "table" -> [ok |-> TRUE, tables |-> ts, table |-> entry.to]
        [] entry.kind = "leaf" -> [ok |-> arch = "aarch64", tables |-> ts, table |-> 0]
        [] OTHER -> IF Len(ts) >= frames THEN [ok |-> FALSE, tables |-> ts, table |-> 0]
                    ELSE [ok |-> TRUE, table |-> Len(ts) + 1,
                          tables |-> Append([ts EXCEPT ![t][i] = Table(Len(ts) + 1)], NewTable)]

\* A write to the memory of a block changes no table.
set_entry(ts, t, i, entry) == IF t = 0 THEN ts ELSE [ts EXCEPT ![t][i] = entry]

map_block(v, p) ==
  LET mid == get_or_create_next_level(tables, 1, Top(v))
  IN  [ok |-> mid.ok,
       tables |-> IF mid.ok THEN set_entry(mid.tables, mid.table, Mid(v), Leaf(p, FALSE))
                  ELSE mid.tables]

\* A failure at the second level leaves the table of the first.
map_page(v, p) ==
  LET mid == get_or_create_next_level(tables, 1, Top(v))
      low == IF mid.ok THEN get_or_create_next_level(mid.tables, mid.table, Mid(v)) ELSE mid
  IN  [ok |-> low.ok,
       tables |-> IF low.ok THEN set_entry(low.tables, low.table, Low(v), Leaf(p, TRUE))
                  ELSE low.tables]

Pages(c) == IF c.call = "block" THEN c.virt .. c.virt + FAN - 1 ELSE {c.virt}

Map ==
  /\ result = "mapping" /\ todo # <<>>
  /\ LET c == Head(todo)
         mapped == IF c.call = "block" THEN map_block(c.virt, c.phys) ELSE map_page(c.virt, c.phys)
     IN  /\ tables' = mapped.tables
         /\ result' = IF mapped.ok THEN result ELSE "failed"
         /\ made' = IF mapped.ok
                    THEN [v \in DOMAIN made \union Pages(c) |->
                            IF v \in Pages(c) THEN c.phys + (v - c.virt) ELSE made[v]]
                    ELSE made
  /\ todo' = Tail(todo)
  /\ UNCHANGED <<arch, ram, frames>>

\* enable_mmu(), and the test of a word of the RAM that follows it.
enable_mmu ==
  /\ result = "mapping" /\ todo = <<>>
  /\ result' = "enabled"
  /\ UNCHANGED <<arch, ram, frames, tables, todo, made>>

Next == Map \/ enable_mmu

Spec == Init /\ [][Next]_vars

-----------------------------------------------------------------------------
(* Properties *)

\* The walk of the hardware: the leaf of a virtual page, or Empty.
Walk(v) ==
  LET top == tables[1][Top(v)]
      mid == IF top.kind = "table" THEN tables[top.to][Mid(v)] ELSE Empty
  IN  CASE mid.kind = "leaf" -> Leaf(mid.to + Low(v), mid.device)
        [] mid.kind = "table" -> tables[mid.to][Low(v)]
        [] OTHER -> Empty

\* Whatever mappings went before and also after one failed for want of a frame,
\* every virtual page translates to what the last call for it asked for and no
\* other page translates; the MMU is enabled only with all of the RAM mapped to
\* itself as memory and the devices to themselves as devices.
AddressSpaceExact ==
  /\ \A v \in 0 .. FAN * FAN * FAN - 1 :
       IF v \in DOMAIN made THEN Walk(v).kind = "leaf" /\ Walk(v).to = made[v]
       ELSE Walk(v).kind = "empty"
  /\ result = "enabled" =>
       /\ \A v \in ram.start .. ram.start + ram.size - 1 : Walk(v) = Leaf(v, FALSE)
       /\ \A p \in Range(MmioPages) : Walk(p) = Leaf(p, TRUE)
=============================================================================
