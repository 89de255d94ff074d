------------------------------- MODULE Devices ------------------------------
(***************************************************************************)
(* Block devices and their nodes in /dev: the registry of                  *)
(* src/src/block/mod.rs, the RAM disk of block/ramdisk.rs, and the devices *)
(* of fs/devfs/mod.rs.  Threads are numbers and write that number.           *)
(* A node moves any range of bytes with whole blocks, one step for every   *)
(* call of the device; nothing locks the node.                             *)
(***************************************************************************)
EXTENDS Integers, Sequences, SequencesExt, FiniteSetsExt

CONSTANTS
  Threads,
  Names,       \* names of block devices
  Disks,       \* the devices, and how many blocks each has
  BlockCount,
  BlockSize,
  ReadOnly,    \* the disks made by from_data()
  MaxDevices,  \* bound on the registry
  None

VARIABLES
  devices,   \* BLOCK_DEVICES
  devfs,     \* the devices of the root of devfs
  disk,      \* disk -> its bytes
  pc, call,  \* where each thread is, and the node and range it writes
  block_buf, \* the buffer of a write
  intended,  \* history: disk -> the bytes as the writes ask for them
  clash      \* history: the blocks two writes were in the middle of at once

vars == <<devices, devfs, disk, pc, call, block_buf, intended, clash>>
writeVars == <<disk, pc, call, block_buf, intended, clash>>

capacity(d) == BlockCount[d] * BlockSize
Blank(d) == [i \in 1 .. capacity(d) |-> 0]
NoCall == [disk |-> None, offset |-> 0, n |-> 0, block |-> 0]

Init ==
  /\ devices = <<>>
  /\ devfs = <<>>
  /\ disk = [d \in Disks |-> Blank(d)]
  /\ intended = disk
  /\ pc = [t \in Threads |-> "idle"]
  /\ call = [t \in Threads |-> NoCall]
  /\ block_buf = [t \in Threads |-> <<>>]
  /\ clash = {}

-----------------------------------------------------------------------------
(* The registry, and the nodes made from it *)

Find(table, name) == {i \in DOMAIN table : table[i].name = name}

\* A name may be registered twice.  (Nothing calls unregister_device().)
register_device(name, d) ==
  /\ Len(devices) < MaxDevices
  /\ devices' = Append(devices, [name |-> name, disk |-> d])
  /\ UNCHANGED <<devfs, writeVars>>

\* The first device of the name.
get_device(name) == devices[Min(Find(devices, name))].disk

\* DevFsRoot::register() replaces the device of a name or adds one.
register(table, name, d) ==
  LET node == [name |-> name, disk |-> d]
  IN  IF Find(table, name) = {} THEN Append(table, node)
      ELSE [table EXCEPT ![Min(Find(table, name))] = node]

\* Every registered device gets a node unless its name has one.
register_block_devices_to_devfs ==
  /\ devfs' = FoldLeft(LAMBDA table, name :
                         IF Find(table, name) # {} THEN table
                         ELSE register(table, name, get_device(name)),
                       devfs, [i \in DOMAIN devices |-> devices[i].name])
  /\ UNCHANGED <<devices, writeVars>>

-----------------------------------------------------------------------------
(* Blocks of a range of bytes.  Blocks and offsets count from 0. *)

\* The part of the block that the range covers: from block_start up to, and
\* without, block_end.
block_start(offset, b) == IF b = offset \div BlockSize THEN offset % BlockSize ELSE 0

block_end(offset, n, b) ==
  IF b = (offset + n - 1) \div BlockSize THEN ((offset + n - 1) % BlockSize) + 1
  ELSE BlockSize

read_block(d, b) == SubSeq(disk[d], b * BlockSize + 1, (b + 1) * BlockSize)

\* read() of a node, the disk being left alone meanwhile.
NodeRead(d, offset, len) ==
  LET n == Min({len, capacity(d) - offset})
      first == offset \div BlockSize
      last == (offset + n - 1) \div BlockSize
      part(b) == SubSeq(read_block(d, b), block_start(offset, b) + 1, block_end(offset, n, b))
  IN  IF offset >= capacity(d) \/ n = 0 THEN <<>>
      ELSE FlattenSeq([i \in 1 .. last - first + 1 |-> part(first + i - 1)])

-----------------------------------------------------------------------------
(* write() of a node *)

Ends(t) ==
  /\ pc' = [pc EXCEPT ![t] = "idle"]
  /\ call' = [call EXCEPT ![t] = NoCall]
  /\ block_buf' = [block_buf EXCEPT ![t] = <<>>]

\* Where the next block of a write starts: a partial block is read first.
NextBlock(t, c) ==
  /\ call' = [call EXCEPT ![t] = c]
  /\ pc' = [pc EXCEPT ![t] = IF \/ block_start(c.offset, c.block) # 0
                                \/ block_end(c.offset, c.n, c.block) # BlockSize
                             THEN "read" ELSE "write"]

\* A read-only disk and an offset past the end are refused.
write(t, d, offset, len) ==
  /\ pc[t] = "idle"
  /\ d \notin ReadOnly /\ offset < capacity(d)
  /\ NextBlock(t, [disk |-> d, offset |-> offset, n |-> Min({len, capacity(d) - offset}),
                   block |-> offset \div BlockSize])
  /\ block_buf' = [block_buf EXCEPT ![t] = [i \in 1 .. BlockSize |-> 0]]
  /\ UNCHANGED <<devices, devfs, disk, intended, clash>>

ReadPartial_Skipped(t) ==
  /\ pc[t] = "read"
  /\ pc' = [pc EXCEPT ![t] = "write"]
  /\ UNCHANGED <<devices, devfs, disk, call, block_buf, intended, clash>>

ReadPartial(t) ==
  /\ pc[t] = "read"
  /\ block_buf' = [block_buf EXCEPT ![t] = read_block(call[t].disk, call[t].block)]
  /\ pc' = [pc EXCEPT ![t] = "write"]
  /\ UNCHANGED <<devices, devfs, disk, call, intended, clash>>

\* The bytes of the range are put into the buffer and the block is written.
\* Another thread that has read this block will write it back as it was.
WriteBlock(t) ==
  LET c == call[t]
      at == c.block * BlockSize
      mine(i) == /\ i > at + block_start(c.offset, c.block)
                 /\ i <= at + block_end(c.offset, c.n, c.block)
      last == (c.offset + c.n - 1) \div BlockSize
      others == {u \in Threads \ {t} : /\ pc[u] = "write" /\ call[u].disk = c.disk
                                       /\ call[u].block = c.block}
  IN  /\ pc[t] = "write"
      /\ disk' = [disk EXCEPT ![c.disk] = [i \in DOMAIN @ |->
                    IF mine(i) THEN t
                    ELSE IF i \in at + 1 .. at + BlockSize THEN block_buf[t][i - at] ELSE @[i]]]
      /\ intended' = [intended EXCEPT ![c.disk] = [i \in DOMAIN @ |->
                        IF mine(i) THEN t ELSE @[i]]]
      /\ clash' = IF others = {} THEN clash ELSE clash \cup {<<c.disk, c.block>>}
      /\ IF c.block = last THEN Ends(t)
         ELSE NextBlock(t, [c EXCEPT !.block = @ + 1]) /\ UNCHANGED block_buf
      /\ UNCHANGED <<devices, devfs>>

Registration ==
  \/ \E name \in Names, d \in Disks : register_device(name, d)
  \/ register_block_devices_to_devfs

\* A node, once looked up, is written whatever the registry does.
Writing ==
  \E t \in Threads :
    \/ \E d \in Disks, offset \in 0 .. 2 * BlockSize, len \in 1 .. 2 * BlockSize :
         write(t, d, offset, len)
    \/ ReadPartial(t) \/ WriteBlock(t)

Next == Registration \/ Writing

Spec == Init /\ [][Next]_vars

-----------------------------------------------------------------------------
(* Properties *)

\* The node of a block device is a flat file: a read of any range gives the
\* bytes of the range up to the end of the device, and a write changes those
\* of its range and no other, whatever its ends and whatever blocks other
\* threads write; only writers in the middle of one block at once are excepted.
NodeIsFlat ==
  \A d \in Disks :
    /\ \A b \in 0 .. BlockCount[d] - 1 : <<d, b>> \notin clash =>
         read_block(d, b) = SubSeq(intended[d], b * BlockSize + 1, (b + 1) * BlockSize)
    /\ (\A t \in Threads : pc[t] = "idle") =>
         \A offset \in 0 .. capacity(d), len \in 0 .. 2 * BlockSize :
           NodeRead(d, offset, len) = SubSeq(disk[d], offset + 1, Min({offset + len, capacity(d)}))

\* The node of a name in /dev is the device that get_device() finds under the
\* name, in whatever order devices are registered and nodes are made, although
\* two devices may have one name.
NodeIsDevice ==
  \A i \in DOMAIN devfs :
    /\ Find(devices, devfs[i].name) # {}
    /\ devfs[i].disk = get_device(devfs[i].name)

\* The exception is needed: two threads that write different bytes of one block
\* at once may undo each other's write.
NoWriteUndone == disk = intended
=============================================================================
