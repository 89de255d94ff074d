------------------------------ MODULE FileTable -----------------------------
(***************************************************************************)
(* Open files: the descriptor table and the OpenFile of src/src/fs/fd.rs,  *)
(* a file of ramfs/mod.rs, and the system calls of syscall/fs.rs that use  *)
(* them.  Of a file only its size is kept.  Three locks are taken one      *)
(* after the other: the table's, the offset's of the open file, and the    *)
(* data's.  Descriptors 0, 1 and 2, which with_stdio() opens on the        *)
(* console, are left out; the table starts after them.                     *)
(***************************************************************************)
EXTENDS Integers, Sequences, Functions, Optional

CONSTANTS
  FileThreads,
  Files,      \* the files of the file system
  OpenFiles,  \* bound: the OpenFile objects, numbered from 1
  Flags,      \* the flags used: records of readable, writable and append
  MaxFds,     \* max_fds
  Counts,     \* numbers of bytes that are read or written
  MaxSize     \* the space for a file, and bound on an offset

\* An OpenFile: what sys_open() makes.
OpenFile == [file : Files, flags : Flags, offset : Int]

ASSUME FileAssumption ==
  None \notin FileThreads \union OpenFiles /\ None \notin OpenFile /\ Counts \subseteq Int

VARIABLES
  files,    \* the table: descriptor -> OpenFile or None
  open,     \* OpenFile -> its file, flags and offset; None when not allocated
  holder,   \* OpenFile -> the thread that holds its offset lock, or None
  size,     \* file -> its number of bytes
  filepc, filecall  \* where each thread is, and its arguments

fileVars == <<files, open, holder, size, filepc, filecall>>

\* `at' is the position at which the call moved its bytes.
NoFileCall == [op |-> "none", file |-> None, n |-> 0, at |-> 0]

FileInit ==
  /\ files = <<>>
  /\ open = [o \in OpenFiles |-> None]
  /\ holder = [o \in OpenFiles |-> None]
  /\ size = [f \in Files |-> 0]
  /\ filepc = [t \in FileThreads |-> "idle"]
  /\ filecall = [t \in FileThreads |-> NoFileCall]

Smaller(m, n) == IF m < n THEN m ELSE n
Larger(m, n) == IF m < n THEN n ELSE m

-----------------------------------------------------------------------------
(* The table *)

\* insert() takes the first empty slot, or a new one at the end.
insert(o) ==
  LET empty == {i \in DOMAIN files : files[i] = None}
  IN  IF empty # {}
      THEN [files EXCEPT ![CHOOSE i \in empty : \A j \in empty : i <= j] = o]
      ELSE IF Len(files) < MaxFds THEN Append(files, o) ELSE files

get(fd) == IF fd \in DOMAIN files THEN files[fd] ELSE None

\* The table, the calls and the open files after a step: an OpenFile goes with
\* the last descriptor or call that refers to it.
Update(table, calls, objects) ==
  LET live == Range(table) \cup {calls[t].file : t \in FileThreads}
  IN  /\ files' = table
      /\ filecall' = calls
      /\ open' = [o \in OpenFiles |-> IF o \in live THEN objects[o] ELSE None]

FileGoto(t, l) == filepc' = [filepc EXCEPT ![t] = l]
FileEnded(t) == [filecall EXCEPT ![t] = NoFileCall]

\* The end of sys_open(): the file has been looked up or created; it is
\* emptied when asked to, and stays so when there is no free descriptor.
sys_open(t, file, flags, trunc) ==
  \E o \in OpenFiles :
    /\ filepc[t] = "idle"
    /\ open[o] = None /\ \A p \in OpenFiles : open[p] = None => o <= p
    /\ Update(insert(o), filecall,
              [open EXCEPT ![o] = [file |-> file, flags |-> flags, offset |-> 0]])
    /\ size' = IF trunc /\ flags.writable THEN [size EXCEPT ![file] = 0] ELSE size
    /\ UNCHANGED <<holder, filepc>>

close(t, fd) ==
  /\ filepc[t] = "idle"
  /\ get(fd) # None
  /\ Update([files EXCEPT ![fd] = None], filecall, open)
  /\ UNCHANGED <<holder, size, filepc>>

close_all(t) ==
  /\ filepc[t] = "idle"
  /\ Update(<<>>, filecall, open)
  /\ UNCHANGED <<holder, size, filepc>>

\* Every other call first gets the OpenFile, and keeps it alive.
Begin(t, op, fd, n) ==
  /\ filepc[t] = "idle"
  /\ get(fd) # None
  /\ op = "read" => open[get(fd)].flags.readable
  /\ op = "write" => open[get(fd)].flags.writable
  /\ FileGoto(t, IF op \in {"dup", "dup2"} THEN op ELSE "lock")
  /\ filecall' = [filecall EXCEPT ![t] = [op |-> op, file |-> get(fd), n |-> n, at |-> 0]]
  /\ UNCHANGED <<files, open, holder, size>>

\* The descriptor is inserted in a second hold of the table's lock.
dup(t) ==
  /\ filepc[t] = "dup"
  /\ Update(insert(filecall[t].file), FileEnded(t), open)
  /\ FileGoto(t, "idle")
  /\ UNCHANGED <<holder, size>>

\* The table grows up to the new descriptor, whose file is replaced.
dup2(t) ==
  LET fd == filecall[t].n
  IN  /\ filepc[t] = "dup2"
      /\ Update([i \in 1 .. Larger(fd, Len(files)) |->
                   IF i = fd THEN filecall[t].file ELSE get(i)], FileEnded(t), open)
      /\ FileGoto(t, "idle")
      /\ UNCHANGED <<holder, size>>

-----------------------------------------------------------------------------
(* read(), write() and seek() of an OpenFile *)

LockOffset_Shared(t) ==
  LET o == filecall[t].file
  IN  /\ filepc[t] = "lock"
      /\ holder' = [holder EXCEPT ![o] = t]
      /\ FileGoto(t, IF filecall[t].op = "write" /\ open[o].flags.append THEN "append"
                 ELSE filecall[t].op)
      /\ UNCHANGED <<files, open, size, filecall>>

\* The offset is locked for writing.
LockOffset(t) ==
  LET o == filecall[t].file
  IN  /\ filepc[t] = "lock"
      /\ holder[o] = None
      /\ holder' = [holder EXCEPT ![o] = t]
      /\ FileGoto(t, IF filecall[t].op = "write" /\ open[o].flags.append THEN "append"
                 ELSE filecall[t].op)
      /\ UNCHANGED <<files, open, size, filecall>>

\* In append mode a write moves the offset to the size stat() gives.
AppendStat(t) ==
  LET o == filecall[t].file
  IN  /\ filepc[t] = "append"
      /\ open' = [open EXCEPT ![o].offset = size[open[o].file]]
      /\ FileGoto(t, "write")
      /\ UNCHANGED <<files, holder, size, filecall>>

\* The bytes are moved at the offset, under the lock of the data: as many as
\* are there, or as are written.
Move(t) ==
  LET o == filecall[t].file
      file == open[o].file
      at == open[o].offset
      there == Larger(0, size[file] - at)
      n == IF filepc[t] = "read" THEN Smaller(filecall[t].n, there) ELSE filecall[t].n
  IN  /\ filepc[t] \in {"read", "write"}
      /\ filepc[t] = "write" => at + n <= MaxSize
      /\ size' = IF filepc[t] = "read" THEN size
                 ELSE [size EXCEPT ![file] = Larger(@, at + n)]
      /\ filecall' = [filecall EXCEPT ![t].n = n, ![t].at = at]
      /\ FileGoto(t, "advance")
      /\ UNCHANGED <<files, open, holder>>

\* The new offset is stored, the lock and the OpenFile are let go.
Leave(t, offset) ==
  /\ holder' = [holder EXCEPT ![filecall[t].file] = None]
  /\ FileGoto(t, "idle")
  /\ Update(files, FileEnded(t), [open EXCEPT ![filecall[t].file].offset = offset])
  /\ UNCHANGED size

\* An error of the file system, here for want of space, leaves the offset.
MoveFails(t) ==
  LET o == filecall[t].file
  IN  /\ filepc[t] = "write"
      /\ open[o].offset + filecall[t].n > MaxSize
      /\ Leave(t, open[o].offset)

Advance(t) ==
  filepc[t] = "advance" /\ Leave(t, open[filecall[t].file].offset + filecall[t].n)

\* From the start, the offset or the size; a negative result is refused.
seek(t, whence) ==
  LET o == filecall[t].file
      to == filecall[t].n + CASE whence = "start" -> 0
                          [] whence = "current" -> open[o].offset
                          [] whence = "end" -> size[open[o].file]
  IN  /\ filepc[t] = "seek"
      /\ Leave(t, IF to \in 0 .. MaxSize THEN to ELSE open[o].offset)

FileStep(t) ==
  \/ \E file \in Files, flags \in Flags, trunc \in BOOLEAN : sys_open(t, file, flags, trunc)
  \/ \E fd \in 1 .. MaxFds :
       \/ close(t, fd)
       \/ \E n \in Counts : Begin(t, "read", fd, n) \/ Begin(t, "write", fd, n)
       \/ \E n \in {-1, 1} : Begin(t, "seek", fd, n)
       \/ Begin(t, "dup", fd, 0)
       \/ \E n \in 1 .. MaxFds : Begin(t, "dup2", fd, n)
  \/ close_all(t) \/ dup(t) \/ dup2(t)
  \/ LockOffset(t) \/ AppendStat(t) \/ Move(t) \/ MoveFails(t) \/ Advance(t)
  \/ \E whence \in {"start", "current", "end"} : seek(t, whence)

FileNext == \E t \in FileThreads : FileStep(t)

FileSpec == FileInit /\ [][FileNext]_fileVars

-----------------------------------------------------------------------------
(* Properties *)

\* Descriptors made by dup() and dup2() share one offset.  However the calls on
\* them interleave, with each other and with close(), the bytes a call moves
\* are those its own advance of the offset covers: none is moved twice, none is
\* skipped, and the OpenFile is there until the call is done with it.
OffsetShared ==
  \A t \in FileThreads : filepc[t] = "advance" =>
    /\ open[filecall[t].file] # None
    /\ open[filecall[t].file].offset = filecall[t].at

\* "추가 모드면 파일 끝으로 이동" (fd.rs): in append mode a write goes to the end
\* of the file.
AppendsAtEnd ==
  [][\A t \in FileThreads :
       (filepc[t] = "write" /\ filepc'[t] = "advance" /\ open[filecall[t].file].flags.append)
         => filecall'[t].at = size[open[filecall[t].file].file]]_fileVars
=============================================================================
