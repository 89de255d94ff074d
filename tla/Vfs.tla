-------------------------------- MODULE Vfs ---------------------------------
(***************************************************************************)
(* The name space of src/src/fs: the mount table of mod.rs, the paths of   *)
(* path.rs, the directories of ramfs/mod.rs, and the system calls of       *)
(* syscall/fs.rs that walk them.  A path is its sequence of components; a  *)
(* name keeps its length, which is what mount() sorts by.  Every file      *)
(* system is a RamFs.  Each directory has a lock of its own, so a walk is  *)
(* one step per component.                                                 *)
(***************************************************************************)
EXTENDS Integers, Sequences, FiniteSets, Optional

CONSTANTS
  Names,        \* names of files and directories
  NameLen,      \* the number of bytes of each name
  Dot, DotDot,  \* the components "." and ".."
  FileSystems,  \* a file system is identified with its root directory
  RamRoot,      \* the one that init_vfs() makes the root
  Nodes,        \* nodes created later
  RawPaths,     \* the paths callers give, before normalize()
  MountPaths,   \* the paths file systems are mounted at
  MaxMounts,    \* bound on the mount table
  VfsThreads

VARIABLES
  mounts,     \* MOUNT_TABLE
  root_fs,    \* ROOT_FS
  kind,       \* node type; None before the node is created
  children,   \* directory -> its entries, pairs <<name, node>>
  walkpc, walkcall,   \* where each thread is, and the arguments of its call
  cur, rest   \* the node a walk is at, and the components still to look up

vfsVars == <<mounts, root_fs, kind, children, walkpc, walkcall, cur, rest>>
treeVars == <<kind, children>>
mountVars == <<mounts, root_fs>>

AllNodes == FileSystems \cup Nodes

\* No node type is mistaken for no node.
ASSUME KindAssumption == None \notin {"dir", "file"}

\* A name is not empty: two slashes have nothing between them.
ASSUME PathAssumption ==
  NameLen \in [Names -> Nat \ {0}] /\ MountPaths \subseteq Seq(Names)

NoWalk == [op |-> "none", path |-> <<>>, creat |-> FALSE]

VfsInit ==
  /\ mounts = <<>>
  /\ root_fs = None
  /\ kind = [n \in AllNodes |-> IF n \in FileSystems THEN "dir" ELSE None]
  /\ children = [n \in AllNodes |-> {}]
  /\ walkpc = [t \in VfsThreads |-> "idle"]
  /\ walkcall = [t \in VfsThreads |-> NoWalk]
  /\ cur = [t \in VfsThreads |-> None]
  /\ rest = [t \in VfsThreads |-> <<>>]

-----------------------------------------------------------------------------
(* Paths *)

Parent(path) == SubSeq(path, 1, Len(path) - 1)
LastName(path) == path[Len(path)]

\* "." disappears, ".." removes the component before it and is ignored at the
\* root.  (A path is absolute: the others are refused.)
normalize(raw) ==
  LET upto[n \in 0 .. Len(raw)] ==
        IF n = 0 THEN <<>>
        ELSE LET done == upto[n - 1]
             IN  CASE raw[n] = Dot -> done
                   [] raw[n] = DotDot -> IF done = <<>> THEN done ELSE Parent(done)
                   [] OTHER -> Append(done, raw[n])
  IN  upto[Len(raw)]

\* The bytes of a path: those of every component, with a slash before it as
\* number 0, or a lone slash.
BytesOf(path) == UNION {{i} \X (0 .. NameLen[path[i]]) : i \in 1 .. Len(path)}
PathLen(path) == IF path = <<>> THEN 1 ELSE Cardinality(BytesOf(path))

-----------------------------------------------------------------------------
(* The mount table *)

\* The match of find_mount(): the path itself, or what follows it and a slash.
Matches(m, path) == Len(m.path) <= Len(path) /\ SubSeq(path, 1, Len(m.path)) = m.path

find_mount(path) ==
  LET hits == {i \in DOMAIN mounts : Matches(mounts[i], path)}
      m == mounts[CHOOSE i \in hits : \A j \in hits : i <= j]
  IN  IF hits = {} THEN None
      ELSE [fs |-> m.fs, relative |-> SubSeq(path, Len(m.path) + 1, Len(path))]

\* sort_by() is stable, and puts the longest first.
LongestFirst(table, p) ==
  LET Size(i) == PathLen(table[p[i]].path)
  IN  \A i, j \in DOMAIN table :
        i < j => Size(i) > Size(j) \/ (Size(i) = Size(j) /\ p[i] < p[j])

SortedByLength(table) ==
  LET order == CHOOSE p \in [DOMAIN table -> DOMAIN table] : LongestFirst(table, p)
  IN  [k \in DOMAIN table |-> table[order[k]]]

\* Called once, by init_vfs().
set_root_fs ==
  /\ root_fs = None
  /\ root_fs' = RamRoot
  /\ mounts' = Append(mounts, [path |-> <<>>, fs |-> RamRoot])
  /\ UNCHANGED <<treeVars, walkpc, walkcall, cur, rest>>

mount_Unsorted(path, fs) ==
  /\ Len(mounts) < MaxMounts
  /\ \A i \in DOMAIN mounts : mounts[i].path # path
  /\ mounts' = Append(mounts, [path |-> path, fs |-> fs])
  /\ UNCHANGED <<root_fs, treeVars, walkpc, walkcall, cur, rest>>

\* That the directory exists is not required.
mount(path, fs) ==
  /\ Len(mounts) < MaxMounts
  /\ \A i \in DOMAIN mounts : mounts[i].path # path
  /\ mounts' = SortedByLength(Append(mounts, [path |-> path, fs |-> fs]))
  /\ UNCHANGED <<root_fs, treeVars, walkpc, walkcall, cur, rest>>

Without(table, i) == SubSeq(table, 1, i - 1) \o SubSeq(table, i + 1, Len(table))

unmount(path) ==
  /\ path # <<>>
  /\ \E i \in DOMAIN mounts : mounts[i].path = path /\ mounts' = Without(mounts, i)
  /\ UNCHANGED <<root_fs, treeVars, walkpc, walkcall, cur, rest>>

-----------------------------------------------------------------------------
(* Directories.  unlink() holds the lock of the parent while it looks into *)
(* the child, whose own lock it has let go when it removes the entry.       *)

WalkGoto(t, l) == walkpc' = [walkpc EXCEPT ![t] = l] /\ UNCHANGED <<walkcall, cur, rest>>

\* The call ends, with an error or not.
WalkReturns(t) ==
  /\ walkpc' = [walkpc EXCEPT ![t] = "idle"]
  /\ walkcall' = [walkcall EXCEPT ![t] = NoWalk]
  /\ cur' = [cur EXCEPT ![t] = None]
  /\ rest' = [rest EXCEPT ![t] = <<>>]

\* A walk starts at a directory.
Walk(t, l, c, from, components) ==
  /\ walkpc' = [walkpc EXCEPT ![t] = l]
  /\ walkcall' = [walkcall EXCEPT ![t] = c]
  /\ cur' = [cur EXCEPT ![t] = from]
  /\ rest' = [rest EXCEPT ![t] = components]

Unlocked(dir) == \A t \in VfsThreads : walkpc[t] = "removing" => cur[t] # dir

EntriesOf(dir, name) == {e \in children[dir] : e[1] = name}

FreeNodes == {n \in Nodes : kind[n] = None}

create_NoLookup(dir, name, type) ==
  \E n \in FreeNodes :
    /\ \A m \in FreeNodes : n <= m
    /\ kind' = [kind EXCEPT ![n] = type]
    /\ children' = [children EXCEPT ![dir] = @ \cup {<<name, n>>}]

\* create() of a directory; a file answers NotADirectory.
create(dir, name, type) ==
  IF kind[dir] = "dir" /\ EntriesOf(dir, name) = {}
  THEN \E n \in FreeNodes :
         /\ \A m \in FreeNodes : n <= m
         /\ kind' = [kind EXCEPT ![n] = type]
         /\ children' = [children EXCEPT ![dir] = @ \cup {<<name, n>>}]
  ELSE UNCHANGED treeVars

-----------------------------------------------------------------------------
(* System calls *)

\* lookup_path(): the path is normalized and the file system found at once.
sys_open_path(t, raw, creat) ==
  LET path == normalize(raw)
      found == find_mount(path)
  IN  /\ walkpc[t] = "idle" /\ root_fs # None
      /\ Walk(t, "lookup", [op |-> "open", path |-> path, creat |-> creat],
              found.fs, found.relative)
      /\ UNCHANGED <<mountVars, treeVars>>

\* resolve_parent(): from the root of the root file system, whatever is
\* mounted on the way; a path without a last component is refused.
resolve_parent(t, c) ==
  IF c.path = <<>> THEN WalkReturns(t) ELSE Walk(t, "parent", c, root_fs, Parent(c.path))

\* sys_mkdir() and sys_unlink()
sys_change(t, op, raw) ==
  /\ walkpc[t] = "idle" /\ root_fs # None
  /\ resolve_parent(t, [op |-> op, path |-> normalize(raw), creat |-> FALSE])
  /\ UNCHANGED <<mountVars, treeVars>>

\* The next component: a lookup under the lock of the directory.  A failed
\* walk ends the call, except that a missing name starts the creation.
lookup(t) ==
  /\ walkpc[t] \in {"lookup", "parent"} /\ rest[t] # <<>>
  /\ Unlocked(cur[t])
  /\ LET hits == EntriesOf(cur[t], Head(rest[t]))
     IN  \/ \E e \in hits : Walk(t, walkpc[t], walkcall[t], e[2], Tail(rest[t]))
         \/ /\ hits = {}
            /\ IF walkpc[t] = "lookup" /\ walkcall[t].creat /\ kind[cur[t]] = "dir"
               THEN resolve_parent(t, walkcall[t]) ELSE WalkReturns(t)
  /\ UNCHANGED <<mountVars, treeVars>>

\* The file exists and is opened.
OpenFound(t) ==
  /\ walkpc[t] = "lookup" /\ rest[t] = <<>>
  /\ WalkReturns(t)
  /\ UNCHANGED <<mountVars, treeVars>>

\* The parent has been found: a file or a directory is created in it.
CreateAtParent(t) ==
  /\ walkpc[t] = "parent" /\ rest[t] = <<>> /\ walkcall[t].op # "unlink"
  /\ Unlocked(cur[t])
  /\ create(cur[t], LastName(walkcall[t].path), IF walkcall[t].op = "mkdir" THEN "dir" ELSE "file")
  /\ WalkReturns(t)
  /\ UNCHANGED mountVars

\* unlink() takes the parent's lock, finds the entry and lists the child.
UnlinkCheck(t) ==
  LET hits == EntriesOf(cur[t], LastName(walkcall[t].path))
  IN  /\ walkpc[t] = "parent" /\ rest[t] = <<>> /\ walkcall[t].op = "unlink"
      /\ Unlocked(cur[t])
      /\ \A e \in hits : Unlocked(e[2])
      /\ IF hits # {} /\ \A e \in hits : children[e[2]] = {}
         THEN WalkGoto(t, "removing") ELSE WalkReturns(t)
      /\ UNCHANGED <<mountVars, treeVars>>

UnlinkRemove(t) ==
  /\ walkpc[t] = "removing"
  /\ children' = [children EXCEPT ![cur[t]] = @ \ EntriesOf(cur[t], LastName(walkcall[t].path))]
  /\ WalkReturns(t)
  /\ UNCHANGED <<mountVars, kind>>

VfsStep(t) ==
  \/ \E raw \in RawPaths, creat \in BOOLEAN : sys_open_path(t, raw, creat)
  \/ \E raw \in RawPaths, op \in {"mkdir", "unlink"} : sys_change(t, op, raw)
  \/ lookup(t) \/ OpenFound(t) \/ CreateAtParent(t)
  \/ UnlinkCheck(t) \/ UnlinkRemove(t)

VfsNext ==
  \/ set_root_fs
  \/ \E path \in MountPaths, fs \in FileSystems \ {RamRoot} : mount(path, fs)
  \/ \E path \in MountPaths : unmount(path)
  \/ \E t \in VfsThreads : VfsStep(t)

VfsSpec == VfsInit /\ [][VfsNext]_vfsVars

-----------------------------------------------------------------------------
(* Properties *)

ShortPaths == UNION {[1 .. n -> Names] : n \in 0 .. 2}

\* A path is served by the mount that covers the most of it, and the rest of the
\* path is what is looked up there.
ServedByDeepest(path) ==
  LET over == {m \in {mounts[i] : i \in DOMAIN mounts} : Matches(m, path)}
      found == find_mount(path)
  IN  IF over = {} THEN found = None
      ELSE \E m \in over : /\ \A o \in over : Len(o.path) <= Len(m.path)
                           /\ found.fs = m.fs /\ m.path \o found.relative = path

\* The order kept by mount(), set_root_fs() and unmount() makes the first match
\* of find_mount() the right one.
DeepestMountWins == \A path \in ShortPaths : ServedByDeepest(path)

\* Whatever calls race, the directories form a tree: no directory has two
\* entries of one name, and no node is in two places.
OneNamePerNode ==
  /\ \A d \in AllNodes : \A e, f \in children[d] : e[1] = f[1] => e = f
  /\ \A c, d \in AllNodes : \A e \in children[c], f \in children[d] : e[2] = f[2] => c = d

\* "디렉토리인 경우 비어있어야 함" (ramfs/mod.rs): what unlink() removes from its
\* directory is a file or an empty directory.
RemovesOnlyEmpty ==
  [][\A d \in AllNodes : \A e \in children[d] \ children'[d] : children[e[2]] = {}]_vfsVars

\* A file that open() creates is found at the path it was created at.
CreatedIsFound ==
  [][\A t \in VfsThreads :
       (walkpc[t] = "parent" /\ walkcall[t].op = "open" /\ kind' # kind /\ walkpc'[t] = "idle")
         => find_mount(walkcall[t].path).fs = root_fs]_vfsVars
=============================================================================
