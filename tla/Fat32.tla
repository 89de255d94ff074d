------------------------------- MODULE Fat32 --------------------------------
(***************************************************************************)
(* The FAT32 file system, src/src/fs/fat32: the allocation table, the      *)
(* directories, and files through handles (Fat32File) that keep their own  *)
(* copy of the start cluster and the size.                                 *)
(*                                                                         *)
(* Each operation is one step: the code has no lock across an operation,   *)
(* so this takes the callers to be serialised, and block I/O to succeed.   *)
(* A directory is one cluster of Slots entries, not counting "." and "..", *)
(* which no lookup finds; the code never extends it.                       *)
(* A byte that is written is the number of the slot of its file, so that   *)
(* files are told apart; the disk is empty, all 0, at first.               *)
(***************************************************************************)
EXTENDS Integers, Sequences, FiniteSets, FiniteSetsExt

CONSTANTS total_clusters, cluster_size,
          Slots,        \* entries in a cluster of a directory
          Names,
          LongNames,    \* the names that do not fit 8.3 ...
          Cut,          \* ... and what is left of each of them when they are cut
          Handles,      \* bound: the handles open at a time
          MaxSize       \* bound: file sizes

ASSUME FatAssumption ==
  /\ total_clusters \in Nat \ {0} /\ cluster_size \in Nat \ {0}
  /\ Slots \in Nat /\ MaxSize \in Nat
  /\ LongNames \subseteq Names /\ Cut \notin LongNames

VARIABLES fat,      \* FAT_FREE, FAT_EOC or the next cluster
          data,     \* the bytes of the clusters of files
          dir,      \* the entries of the clusters of directories
          handle,
          content   \* what was written, for each entry: the file as its users see it

fatVars == <<fat, data, dir, handle, content>>

FAT_FREE == 0
FAT_EOC == -1
Clusters == 2 .. total_clusters + 1
root_cluster == 2

\* Bytes that were never written: those that truncate() adds, and the gap that a
\* write beyond the end leaves.
Unwritten == -1

EndEntry == [kind |-> "end", name |-> "", cluster |-> 0, size |-> 0]
\* mark_deleted(); the other fields stay in the code, and nothing reads them.
DeletedEntry == [EndEntry EXCEPT !.kind = "deleted"]
Blank == [i \in 1 .. Slots |-> EndEntry]
NoHandle == [dir |-> 0, slot |-> 0, start |-> 0, size |-> 0]

FatInit ==
  /\ fat = [c \in Clusters |-> IF c = root_cluster THEN FAT_EOC ELSE FAT_FREE]
  /\ data = [c \in Clusters |-> [i \in 1 .. cluster_size |-> 0]]
  /\ dir = [c \in Clusters |-> Blank]
  /\ handle = [h \in Handles |-> NoHandle]
  /\ content = [c \in Clusters |-> [i \in 1 .. Slots |-> <<>>]]

-----------------------------------------------------------------------------
(* The table; f is its contents in the middle of an operation *)

\* read_chain() after n rounds of its loop, which stops at an entry that is no
\* cluster, ...
Followed(f, start) ==
  LET upto[n \in 0 .. total_clusters + 1] ==
        IF n = 0 THEN <<>>
        ELSE LET s == upto[n - 1]
                 c == IF s = <<>> THEN start ELSE f[s[Len(s)]]
             IN  IF c \in Clusters /\ Len(s) = n - 1 THEN Append(s, c) ELSE s
  IN  upto

\* ... or when the chain is longer than the disk.
ReadChain(f, start) == Followed(f, start)[total_clusters + 1]

Free(f) == {c \in Clusters : f[c] = FAT_FREE}

\* The clusters alloc_clusters() takes: the lowest free ones, for a table object
\* is made for each operation and its search starts at 2 ...
Lowest(f, count) == {c \in Free(f) : Cardinality({b \in Free(f) : b < c}) < count}

\* ... linked in that order.
alloc_clusters(f, count) ==
  LET new == Lowest(f, count)
  IN  [c \in Clusters |-> IF c \notin new THEN f[c]
                          ELSE IF c = Max(new) THEN FAT_EOC
                          ELSE Min({b \in new : b > c})]

extend_chain_NotLinked(f, last, count) == alloc_clusters(f, count)

extend_chain(f, last, count) ==
  [alloc_clusters(f, count) EXCEPT ![last] = Min(Lowest(f, count))]

InChain(f, start) == LET chain == ReadChain(f, start) IN {chain[i] : i \in 1 .. Len(chain)}

free_chain(f, start) ==
  [c \in Clusters |-> IF c \in InChain(f, start) THEN FAT_FREE ELSE f[c]]

truncate_chain_NoEnd(f, start, keep) ==
  LET chain == ReadChain(f, start)
  IN  [c \in Clusters |-> IF \E i \in keep + 1 .. Len(chain) : c = chain[i]
                          THEN FAT_FREE ELSE f[c]]

\* keep is at least 1 where it is called.
truncate_chain(f, start, keep) ==
  LET chain == ReadChain(f, start)
  IN  IF keep >= Len(chain) THEN f
      ELSE [c \in Clusters |->
              IF c = chain[keep] THEN FAT_EOC
              ELSE IF \E i \in keep + 1 .. Len(chain) : c = chain[i] THEN FAT_FREE
              ELSE f[c]]

Needed(size) == (size + cluster_size - 1) \div cluster_size

-----------------------------------------------------------------------------
(* Directories *)

Directories ==
  {root_cluster} \cup {dir[root_cluster][i].cluster :
                         i \in {j \in 1 .. Slots : dir[root_cluster][j].kind = "dir"}}

Entries_StopAtDeleted(d) ==
  {i \in 1 .. Slots : \A j \in 1 .. i : dir[d][j].kind \in {"file", "dir"}}

\* parse_entries_with_offsets(): the slots up to the end mark that have a file or
\* a directory.
Entries(d) ==
  {i \in 1 .. Slots : dir[d][i].kind \in {"file", "dir"}
                      /\ \A j \in 1 .. i : dir[d][j].kind # "end"}

\* The slots lookup() may take for a name; it takes the first.
Matches(d, n) == {i \in Entries(d) : dir[d][i].name = n}
Lookup(d, n) == {i \in Matches(d, n) : \A j \in Matches(d, n) : i <= j}

\* None or one: the first that was never used or is deleted.
find_free_entry_slot(d) ==
  {i \in 1 .. Slots : /\ dir[d][i].kind \in {"end", "deleted"}
                      /\ \A j \in 1 .. i - 1 : dir[d][j].kind \notin {"end", "deleted"}}

\* Users open a file once at a time and do not unlink it while it is open.  The
\* code does not check this: a second handle would work on copies that go stale.
InUse(d, i) == \E h \in Handles : handle[h].dir = d /\ handle[h].slot = i

set_name(n) == IF n \in LongNames THEN Cut ELSE n

\* create() of a file, which returns a handle for it.
CreateFile(h, d, n) ==
  /\ handle[h] = NoHandle
  /\ Lookup(d, n) = {}
  /\ \E i \in find_free_entry_slot(d) :
       /\ ~InUse(d, i)
       /\ dir' = [dir EXCEPT ![d][i] =
                    [kind |-> "file", name |-> set_name(n), cluster |-> 0, size |-> 0]]
       /\ handle' = [handle EXCEPT ![h] = [dir |-> d, slot |-> i, start |-> 0, size |-> 0]]
       /\ content' = [content EXCEPT ![d][i] = <<>>]
  /\ UNCHANGED <<fat, data>>

\* create() of a directory, in the root: the cluster first, then the entry; when
\* the parent has no slot left the cluster stays allocated.
CreateDirectory(n) ==
  /\ Lookup(root_cluster, n) = {}
  /\ Free(fat) # {}
  /\ LET c == Min(Free(fat))
     IN  /\ fat' = [fat EXCEPT ![c] = FAT_EOC]
         /\ data' = [data EXCEPT ![c] = [i \in 1 .. cluster_size |-> 0]]
         /\ dir' = [k \in Clusters |->
              IF k = c THEN Blank
              ELSE IF k = root_cluster
              THEN [i \in 1 .. Slots |->
                      IF i \in find_free_entry_slot(root_cluster)
                      THEN [kind |-> "dir", name |-> set_name(n), cluster |-> c, size |-> 0]
                      ELSE dir[k][i]]
              ELSE dir[k]]
  /\ UNCHANGED <<handle, content>>

unlink(d, n) ==
  /\ \E i \in Lookup(d, n) :
       /\ dir[d][i].kind = "file"
       /\ ~InUse(d, i)
       /\ fat' = free_chain(fat, dir[d][i].cluster)
       /\ dir' = [dir EXCEPT ![d][i] = DeletedEntry]
       /\ content' = [content EXCEPT ![d][i] = <<>>]
  /\ UNCHANGED <<data, handle>>

\* No file of the directory is open, not even one that was unlinked.
rmdir(n) ==
  /\ \E i \in Lookup(root_cluster, n) :
       LET c == dir[root_cluster][i].cluster
       IN  /\ dir[root_cluster][i].kind = "dir"
           /\ Entries(c) = {}
           /\ \A h \in Handles : handle[h].dir # c
           /\ fat' = free_chain(fat, c)
           /\ dir' = [dir EXCEPT ![root_cluster][i] = DeletedEntry, ![c] = Blank]
           /\ data' = [data EXCEPT ![c] = [j \in 1 .. cluster_size |-> 0]]
  /\ UNCHANGED <<handle, content>>

-----------------------------------------------------------------------------
(* Files *)

Open(h, d, n) ==
  /\ handle[h] = NoHandle
  /\ \E i \in Lookup(d, n) :
       /\ dir[d][i].kind = "file"
       /\ ~InUse(d, i)
       /\ handle' = [handle EXCEPT ![h] =
            [dir |-> d, slot |-> i, start |-> dir[d][i].cluster, size |-> dir[d][i].size]]
  /\ UNCHANGED <<fat, data, dir, content>>

Close(h) ==
  /\ handle[h] # NoHandle
  /\ handle' = [handle EXCEPT ![h] = NoHandle]
  /\ UNCHANGED <<fat, data, dir, content>>

\* update_dir_entry(): whatever the slot holds now.
UpdateEntry(h, start, size) ==
  /\ handle' = [handle EXCEPT ![h].start = start, ![h].size = size]
  /\ dir' = [dir EXCEPT ![handle[h].dir][handle[h].slot].cluster = start,
                        ![handle[h].dir][handle[h].slot].size = size]

\* A file without clusters gets its first.
WithFirst(f, start) == IF start \in Clusters THEN f ELSE alloc_clusters(f, 1)
FirstOf(f, start) == IF start \in Clusters THEN start ELSE Min(Free(f))

\* The table after the chain has been extended to need clusters, if it has fewer.
Grown(f, start, need) ==
  LET chain == ReadChain(f, start)
  IN  IF need > Len(chain) THEN extend_chain(f, chain[Len(chain)], need - Len(chain)) ELSE f
Room(f, start, need) == Cardinality(Free(f)) >= need - Len(ReadChain(f, start))

\* The file after len bytes v at offset, and the file cut or extended to size.
Overwritten(file, offset, len, v) ==
  [i \in 1 .. Max({Len(file), offset + len}) |->
     IF i \in offset + 1 .. offset + len THEN v ELSE IF i <= Len(file) THEN file[i] ELSE Unwritten]
Resized(file, size) == [i \in 1 .. size |-> IF i <= Len(file) THEN file[i] ELSE Unwritten]

\* write() of len bytes.
write(h, offset, len) ==
  LET start == FirstOf(fat, handle[h].start)
      f == WithFirst(fat, handle[h].start)
      need == Needed(offset + len)
      grown == Grown(f, start, need)
      chain == ReadChain(grown, start)
      size == Max({handle[h].size, offset + len})
  IN  /\ handle[h] # NoHandle
      /\ handle[h].start \in Clusters \/ Free(fat) # {}
      /\ Room(f, start, need)
      /\ fat' = grown
      /\ data' = [c \in Clusters |-> [i \in 1 .. cluster_size |->
           IF \E k \in 1 .. Len(chain) :
                chain[k] = c /\ (k - 1) * cluster_size + i \in offset + 1 .. offset + len
           THEN handle[h].slot ELSE data[c][i]]]
      /\ UpdateEntry(h, start, size)
      /\ content' = [content EXCEPT ![handle[h].dir][handle[h].slot] =
                       Overwritten(@, offset, len, handle[h].slot)]

\* write() or truncate() to the new end fails, the disk is full: what was
\* allocated for the extension is freed again, but an empty file keeps its first
\* cluster, in the handle only.
NoSpace(h, end) ==
  LET start == FirstOf(fat, handle[h].start)
      f == WithFirst(fat, handle[h].start)
  IN  /\ handle[h] # NoHandle
      /\ handle[h].start \in Clusters \/ Free(fat) # {}
      /\ ~Room(f, start, Needed(end))
      /\ fat' = f
      /\ handle' = [handle EXCEPT ![h].start = start]
      /\ UNCHANGED <<data, dir, content>>

truncate(h, new_size) ==
  LET start == handle[h].start
      first == FirstOf(fat, start)
      f == WithFirst(fat, start)
      size == handle[h].size
  IN  /\ handle[h] # NoHandle
      /\ \/ /\ new_size = 0
            /\ fat' = free_chain(fat, start)
            /\ UpdateEntry(h, 0, 0)
         \/ /\ 0 < new_size /\ new_size < size
            /\ fat' = truncate_chain(fat, start, Needed(new_size))
            /\ UpdateEntry(h, start, new_size)
         \/ /\ 0 < new_size /\ new_size = size
            /\ UNCHANGED fat
            /\ UpdateEntry(h, start, size)
         \/ /\ new_size > size
            /\ start \in Clusters \/ Free(fat) # {}
            /\ Room(f, first, Needed(new_size))
            /\ fat' = Grown(f, first, Needed(new_size))
            /\ UpdateEntry(h, first, new_size)
      /\ content' = [content EXCEPT ![handle[h].dir][handle[h].slot] = Resized(@, new_size)]
      /\ UNCHANGED data

FatNext ==
  \/ \E d \in Directories, n \in Names :
       \/ unlink(d, n)
       \/ \E h \in Handles : CreateFile(h, d, n) \/ Open(h, d, n)
  \/ \E n \in Names : CreateDirectory(n) \/ rmdir(n)
  \/ \E h \in Handles :
       \/ Close(h)
       \/ \E size \in 0 .. MaxSize : truncate(h, size)
       \/ \E end \in 1 .. MaxSize : NoSpace(h, end)
       \/ \E offset \in 0 .. MaxSize - 1 :
            \E len \in 1 .. MaxSize - offset : write(h, offset, len)

FatSpec == FatInit /\ [][FatNext]_fatVars

-----------------------------------------------------------------------------
(* Properties *)

\* The files and directories there are, and the cluster each starts with.
Live == {e \in Directories \X (1 .. Slots) : dir[e[1]][e[2]].kind \in {"file", "dir"}}
StartOf(e) == dir[e[1]][e[2]].cluster

\* A cluster that a file, a directory or another cluster leads to is allocated,
\* only one of them leads to it, and none to the root: chains are not shared and
\* do not run in circles.  And the chain of a file is long enough for its size.
ChainsSound ==
  /\ \A c \in Clusters :
       LET leading == Cardinality({e \in Live : StartOf(e) = c})
                      + Cardinality({b \in Clusters : fat[b] = c})
       IN  leading > 0 => leading = 1 /\ fat[c] # FAT_FREE /\ c # root_cluster
  /\ \A e \in Live :
       Len(ReadChain(fat, StartOf(e))) * cluster_size >= dir[e[1]][e[2]].size

\* Every byte of every file, as its users see it and as read() finds it, agree in
\* the positions of which the file says one of some values.
Agree(values, Meaning(_)) ==
  \A e \in Live : dir[e[1]][e[2]].kind = "file" =>
    LET file == content[e[1]][e[2]]
        chain == ReadChain(fat, StartOf(e))
    IN  \A pos \in 0 .. Len(file) - 1 :
          file[pos + 1] \in values =>
            /\ pos \div cluster_size < Len(chain)
            /\ data[chain[(pos \div cluster_size) + 1]][(pos % cluster_size) + 1]
                 = Meaning(file[pos + 1])

\* A file reads back as it was written: its size, and every byte that a write put
\* there, after any sequence of operations on it and on other files.
ReadsBack ==
  /\ \A e \in Live : dir[e[1]][e[2]].kind = "file" =>
       dir[e[1]][e[2]].size = Len(content[e[1]][e[2]])
  /\ Agree(1 .. Slots, LAMBDA v : v)

\* The bytes that truncate() adds, and the gaps that write() leaves, read as zeros.
AddedAreZero == Agree({Unwritten}, LAMBDA v : 0)

\* A directory has no two entries of one name, unless it is what was left of a
\* long name: create() looks for the long name, and never finds the short one.
NamesUnique ==
  \A d \in Clusters : \A i, j \in Entries(d) :
    dir[d][i].name = dir[d][j].name /\ dir[d][i].name # Cut => i = j
=============================================================================
