---------------------------- MODULE ObjectProofs ----------------------------
(***************************************************************************)
(* Proofs about objects that threads share by number or by name: open      *)
(* files, the directories and mounts of the name space, and the registry   *)
(* of message queues.                                                      *)
(***************************************************************************)
EXTENDS FileTable, Vfs, MessageQueueRegistry,
        FiniteSetTheorems, WellFoundedInduction, TLAPS

-----------------------------------------------------------------------------
(* Open files *)

\* The places at which a call holds the lock of the offset.
FileLocked == {"append", "read", "write", "seek", "advance"}
FilePlaces == FileLocked \union {"idle", "lock", "dup", "dup2"}

FileCall == [op : {"none", "read", "write", "seek", "dup", "dup2"},
             file : OpenFiles \union {None}, n : Int, at : Int]

\* Whatever a descriptor or a call refers to is there; a call past the lock of
\* an offset has it to itself, and finds the offset where it moved its bytes.
FileInv ==
  /\ files \in Seq(OpenFiles \union {None})
  /\ open \in [OpenFiles -> OpenFile \union {None}]
  /\ size \in [Files -> Int]
  /\ holder \in [OpenFiles -> FileThreads \union {None}]
  /\ filepc \in [FileThreads -> FilePlaces]
  /\ filecall \in [FileThreads -> FileCall]
  /\ \A i \in 1 .. Len(files) : files[i] # None => open[files[i]] # None
  /\ \A t \in FileThreads :
       /\ filepc[t] # "idle" =>
            filecall[t].file \in OpenFiles /\ open[filecall[t].file] # None
       /\ filepc[t] = "lock" => filecall[t].op \in {"read", "write", "seek"}
       /\ filepc[t] = "dup2" => filecall[t].n \in Nat
       /\ filepc[t] \in FileLocked => holder[filecall[t].file] = t
       /\ filepc[t] = "advance" => open[filecall[t].file].offset = filecall[t].at

\* The new table: OpenFiles of the old one, or the one inserted.
LEMMA InsertTable ==
  ASSUME FileInv, NEW o \in OpenFiles
  PROVE  /\ insert(o) \in Seq(OpenFiles \union {None})
         /\ \A i \in 1 .. Len(insert(o)) :
              insert(o)[i] = o \/ \E j \in 1 .. Len(files) : insert(o)[i] = files[j]
<1> DEFINE empty == {i \in DOMAIN files : files[i] = None}
           first == CHOOSE i \in empty : \A j \in empty : i <= j
<1>1. /\ files \in Seq(OpenFiles \union {None})
      /\ Len(files) \in Nat /\ DOMAIN files = 1 .. Len(files)
  BY DEF FileInv
<1>2. CASE insert(o) = [files EXCEPT ![first] = o]
  <2> HIDE DEF first
  <2>1. insert(o) = [i \in 1 .. Len(files) |-> IF i = first THEN o ELSE files[i]]
    BY <1>1, <1>2, Zenon
  <2>2. insert(o) \in Seq(OpenFiles \union {None}) /\ Len(insert(o)) = Len(files)
    <3>1. insert(o) \in [1 .. Len(files) -> OpenFiles \union {None}]
      BY <1>1, <2>1
    <3> QED BY <1>1, <3>1
  <2> QED BY <1>2, <2>1, <2>2
<1>3. CASE insert(o) = Append(files, o)
  <2>1. /\ Append(files, o) \in Seq(OpenFiles \union {None})
        /\ Len(Append(files, o)) = Len(files) + 1
        /\ Append(files, o)[Len(files) + 1] = o
        /\ \A i \in 1 .. Len(files) : Append(files, o)[i] = files[i]
    BY <1>1
  <2>2. \A i \in 1 .. Len(files) + 1 : i \in 1 .. Len(files) \/ i = Len(files) + 1
    BY <1>1
  <2> QED BY <1>3, <2>1, <2>2
<1>4. CASE insert(o) = files
  BY <1>1, <1>4
<1> QED BY <1>2, <1>3, <1>4 DEF insert

\* After Update() what the table and the calls refer to is as the objects say.
LEMMA UpdateKeeps ==
  ASSUME NEW table \in Seq(OpenFiles \union {None}), NEW calls \in [FileThreads -> FileCall],
         NEW objects \in [OpenFiles -> OpenFile \union {None}],
         Update(table, calls, objects)
  PROVE  /\ files' = table /\ filecall' = calls
         /\ open' \in [OpenFiles -> OpenFile \union {None}]
         /\ \A i \in 1 .. Len(table) :
              table[i] \in OpenFiles => open'[table[i]] = objects[table[i]]
         /\ \A t \in FileThreads :
              calls[t].file \in OpenFiles => open'[calls[t].file] = objects[calls[t].file]
<1>1. DOMAIN table = 1 .. Len(table)
  OBVIOUS
<1>2. \A i \in 1 .. Len(table) : table[i] \in Range(table)
  BY <1>1 DEF Range
<1>3. open' = [o \in OpenFiles |-> IF o \in Range(table) \cup {calls[t].file : t \in FileThreads}
                                   THEN objects[o] ELSE None]
  BY DEF Update
<1>4. open' \in [OpenFiles -> OpenFile \union {None}]
  BY <1>3
<1>5. \A i \in 1 .. Len(table) : table[i] \in OpenFiles => open'[table[i]] = objects[table[i]]
  BY <1>2, <1>3
<1>6. \A t \in FileThreads :
        calls[t].file \in OpenFiles => open'[calls[t].file] = objects[calls[t].file]
  BY <1>3
<1> QED BY <1>4, <1>5, <1>6 DEF Update

\* What the step of a thread has to leave to the others ...
OthersKept(t) ==
  \A u \in FileThreads : u # t /\ filepc[u] # "idle" =>
    /\ filecall'[u] = filecall[u]
    /\ open'[filecall[u].file] # None
    /\ filepc[u] \in FileLocked => holder'[filecall[u].file] = u
    /\ filepc[u] = "advance" =>
         open'[filecall[u].file].offset = open[filecall[u].file].offset

\* ... and to show for itself, at the place it goes to.
CallSound(t, l) ==
  l # "idle" =>
    /\ filecall'[t].file \in OpenFiles /\ open'[filecall'[t].file] # None
    /\ l = "lock" => filecall'[t].op \in {"read", "write", "seek"}
    /\ l = "dup2" => filecall'[t].n \in Nat
    /\ l \in FileLocked => holder'[filecall'[t].file] = t
    /\ l = "advance" => open'[filecall'[t].file].offset = filecall'[t].at

\* The state besides the places of the threads.
FileTyped ==
  /\ files \in Seq(OpenFiles \union {None})
  /\ open \in [OpenFiles -> OpenFile \union {None}]
  /\ size \in [Files -> Int]
  /\ holder \in [OpenFiles -> FileThreads \union {None}]
  /\ filecall \in [FileThreads -> FileCall]
  /\ \A i \in 1 .. Len(files) : files[i] # None => open[files[i]] # None

LEMMA FileKept ==
  ASSUME FileInv, NEW t \in FileThreads, NEW l \in FilePlaces,
         filepc' = [filepc EXCEPT ![t] = l], FileTyped', OthersKept(t), CallSound(t, l)
  PROVE  FileInv'
<1>1. /\ filepc' \in [FileThreads -> FilePlaces] /\ filepc'[t] = l
      /\ \A u \in FileThreads : u # t => filepc'[u] = filepc[u]
  BY DEF FileInv
<1>2. \A u \in FileThreads :
       /\ filepc'[u] # "idle" =>
            filecall'[u].file \in OpenFiles /\ open'[filecall'[u].file] # None
       /\ filepc'[u] = "lock" => filecall'[u].op \in {"read", "write", "seek"}
       /\ filepc'[u] = "dup2" => filecall'[u].n \in Nat
       /\ filepc'[u] \in FileLocked => holder'[filecall'[u].file] = u
       /\ filepc'[u] = "advance" => open'[filecall'[u].file].offset = filecall'[u].at
  <2> TAKE u \in FileThreads
  <2>1. "idle" \notin FileLocked
    BY DEF FileLocked
  <2>2. CASE u = t
    BY <1>1, <2>1, <2>2 DEF CallSound
  <2>3. CASE u # t
    BY <1>1, <2>1, <2>3 DEF FileInv, OthersKept
  <2> QED BY <2>2, <2>3
<1> QED BY <1>1, <1>2, Zenon DEF FileInv, FileTyped, FilePlaces, FileLocked, FileCall, OpenFile

\* Two calls past the lock of an offset are not on the same OpenFile.
LEMMA OneLocked ==
  ASSUME FileInv, NEW t \in FileThreads, filepc[t] \in FileLocked,
         NEW u \in FileThreads, u # t, filepc[u] \in FileLocked
  PROVE  filecall[u].file # filecall[t].file
BY DEF FileInv

LEMMA NoFileCallType == NoFileCall \in FileCall
BY DEF NoFileCall, FileCall

LEMMA OpenFileStep ==
  ASSUME FileInv, NEW t \in FileThreads, NEW file \in Files, NEW flags \in Flags,
         NEW trunc \in BOOLEAN, sys_open(t, file, flags, trunc)
  PROVE  FileInv'
<1> DEFINE new == [file |-> file, flags |-> flags, offset |-> 0]
<1>1. PICK o \in OpenFiles :
        /\ filepc[t] = "idle" /\ open[o] = None
        /\ Update(insert(o), filecall, [open EXCEPT ![o] = new])
        /\ size' = IF trunc /\ flags.writable THEN [size EXCEPT ![file] = 0] ELSE size
        /\ UNCHANGED <<holder, filepc>>
  BY Zenon DEF sys_open
<1>2. new \in OpenFile /\ new # None
  BY FileAssumption DEF OpenFile
<1>3. new.offset = 0
  OBVIOUS
<1> HIDE DEF new
<1>4. [open EXCEPT ![o] = new] \in [OpenFiles -> OpenFile \union {None}]
  BY <1>2 DEF FileInv
<1>5. PICK table, objects : table = insert(o) /\ objects = [open EXCEPT ![o] = new]
  BY Zenon
<1>6. /\ table \in Seq(OpenFiles \union {None}) /\ filecall \in [FileThreads -> FileCall]
      /\ Update(table, filecall, objects)
      /\ objects[o] = new /\ \A p \in OpenFiles : p # o => objects[p] = open[p]
      /\ \A i \in 1 .. Len(table) : table[i] = o \/ \E j \in 1 .. Len(files) : table[i] = files[j]
  BY <1>1, <1>5, InsertTable, Zenon DEF FileInv
<1>7. /\ files' = table /\ filecall' = filecall
      /\ open' \in [OpenFiles -> OpenFile \union {None}]
      /\ \A i \in 1 .. Len(table) : table[i] \in OpenFiles => open'[table[i]] = objects[table[i]]
      /\ \A u \in FileThreads : filecall[u].file \in OpenFiles =>
           open'[filecall[u].file] = objects[filecall[u].file]
  <2>1. objects \in [OpenFiles -> OpenFile \union {None}]
    BY <1>4, <1>5
  <2> QED BY <1>6, <2>1, UpdateKeeps, Zenon
<1>8. \A i \in 1 .. Len(files') : files'[i] # None => open'[files'[i]] # None
  <2> SUFFICES ASSUME NEW i \in 1 .. Len(table), table[i] # None
               PROVE  open'[table[i]] # None
    BY <1>7
  <2>1. table[i] \in OpenFiles
    BY <1>6
  <2>2. CASE table[i] = o
    BY <1>2, <1>6, <1>7, <2>1, <2>2
  <2>3. CASE table[i] # o
    <3>1. PICK j \in 1 .. Len(files) : table[i] = files[j]
      BY <1>6, <2>3
    <3>2. open[table[i]] # None
      BY <3>1, Zenon DEF FileInv
    <3> QED BY <1>6, <1>7, <2>1, <2>3, <3>2
  <2> QED BY <2>2, <2>3
<1>9. \A u \in FileThreads : filepc[u] # "idle" =>
        filecall[u].file \in OpenFiles /\ open'[filecall[u].file] = open[filecall[u].file]
                                       /\ open[filecall[u].file] # None
  BY <1>1, <1>6, <1>7 DEF FileInv
<1>10. size' \in [Files -> Int] /\ filepc' = [filepc EXCEPT ![t] = "idle"]
  BY <1>1 DEF FileInv
<1>11. FileTyped'
  BY <1>1, <1>6, <1>7, <1>8, <1>9, <1>10, Zenon DEF FileTyped, FileInv
<1>12. OthersKept(t)
  BY <1>1, <1>6, <1>7, <1>8, <1>9, <1>10 DEF OthersKept, FileInv
<1>13. CallSound(t, "idle")
  BY <1>1, <1>6, <1>7, <1>8, <1>9, <1>10 DEF CallSound
<1> QED BY <1>10, <1>11, <1>12, <1>13, FileKept, Zenon DEF FilePlaces, FileLocked

\* A table of fewer descriptors.
LEMMA FewerStep ==
  ASSUME FileInv, NEW t \in FileThreads, filepc[t] = "idle", UNCHANGED <<holder, size, filepc>>,
         NEW table \in Seq(OpenFiles \union {None}), Update(table, filecall, open),
         \A i \in 1 .. Len(table) : table[i] # None =>
           \E j \in 1 .. Len(files) : table[i] = files[j]
  PROVE  FileInv'
<1>1. /\ files' = table /\ filecall' = filecall
      /\ open' \in [OpenFiles -> OpenFile \union {None}]
      /\ \A i \in 1 .. Len(table) : table[i] \in OpenFiles => open'[table[i]] = open[table[i]]
      /\ \A u \in FileThreads : filecall[u].file \in OpenFiles =>
           open'[filecall[u].file] = open[filecall[u].file]
  BY UpdateKeeps, Zenon DEF FileInv
<1>2. \A i \in 1 .. Len(files') : files'[i] # None => open'[files'[i]] # None
  <2> SUFFICES ASSUME NEW i \in 1 .. Len(table), table[i] # None
               PROVE  open'[table[i]] # None
    BY <1>1
  <2>1. table[i] \in OpenFiles
    OBVIOUS
  <2>2. PICK j \in 1 .. Len(files) : table[i] = files[j]
    OBVIOUS
  <2>3. open[table[i]] # None
    BY <2>2 DEF FileInv
  <2> QED BY <1>1, <2>1, <2>3
<1>3. \A u \in FileThreads : filepc[u] # "idle" =>
        filecall[u].file \in OpenFiles /\ open'[filecall[u].file] = open[filecall[u].file]
                                       /\ open[filecall[u].file] # None
  BY <1>1 DEF FileInv
<1>4. filepc' = [filepc EXCEPT ![t] = "idle"]
  BY Zenon DEF FileInv
<1>5. FileTyped'
  BY <1>1, <1>2, <1>3, <1>4, Zenon DEF FileTyped, FileInv
<1>6. OthersKept(t)
  BY <1>1, <1>2, <1>3, <1>4, Zenon DEF OthersKept, FileInv
<1>7. CallSound(t, "idle")
  BY <1>1, <1>2, <1>3, <1>4 DEF CallSound
<1> QED BY <1>4, <1>5, <1>6, <1>7, FileKept, Zenon DEF FilePlaces, FileLocked

LEMMA CloseAllStep ==
  ASSUME FileInv, NEW t \in FileThreads, close_all(t)
  PROVE  FileInv'
<1>1. PICK table : table = <<>>
  OBVIOUS
<1>2. table \in Seq(OpenFiles \union {None}) /\ Len(table) = 0
  BY <1>1
<1>3. filepc[t] = "idle" /\ Update(table, filecall, open) /\ UNCHANGED <<holder, size, filepc>>
  BY <1>1 DEF close_all
<1>4. \A i \in 1 .. Len(table) : table[i] # None => \E j \in 1 .. Len(files) : table[i] = files[j]
  <2>1. 1 .. Len(table) = {}
    BY <1>2
  <2> QED BY <2>1
<1> QED BY <1>2, <1>3, <1>4, FewerStep, Zenon

LEMMA CloseFileStep ==
  ASSUME FileInv, NEW t \in FileThreads, NEW fd, close(t, fd)
  PROVE  FileInv'
<1>1. PICK table : table = [files EXCEPT ![fd] = None]
  BY Zenon
<1>2. filepc[t] = "idle" /\ Update(table, filecall, open) /\ UNCHANGED <<holder, size, filepc>>
  BY <1>1 DEF close
<1>3. files \in Seq(OpenFiles \union {None}) /\ Len(files) \in Nat
  BY DEF FileInv
<1>4. table = [i \in 1 .. Len(files) |-> IF i = fd THEN None ELSE files[i]]
  <2>1. DOMAIN files = 1 .. Len(files) /\ files = [i \in 1 .. Len(files) |-> files[i]]
    BY <1>3
  <2> QED BY <1>1, <2>1, Zenon
<1>5. table \in Seq(OpenFiles \union {None}) /\ Len(table) = Len(files)
  <2>1. table \in [1 .. Len(files) -> OpenFiles \union {None}]
    BY <1>3, <1>4
  <2> QED BY <1>3, <2>1
<1>6. \A i \in 1 .. Len(table) : table[i] # None => \E j \in 1 .. Len(files) : table[i] = files[j]
  BY <1>4, <1>5
<1> QED BY <1>2, <1>5, <1>6, FewerStep

LEMMA BeginStep ==
  ASSUME FileInv, NEW t \in FileThreads, NEW op \in {"read", "write", "seek", "dup", "dup2"},
         NEW fd \in Nat, NEW n \in Int, op = "dup2" => n \in Nat, Begin(t, op, fd, n)
  PROVE  FileInv'
<1> DEFINE l == IF op \in {"dup", "dup2"} THEN op ELSE "lock"
<1>1. /\ filepc[t] = "idle" /\ get(fd) # None /\ filepc' = [filepc EXCEPT ![t] = l]
      /\ filecall' = [filecall EXCEPT ![t] = [op |-> op, file |-> get(fd), n |-> n, at |-> 0]]
      /\ UNCHANGED <<files, open, holder, size>>
  BY DEF Begin, FileGoto
<1>2. l \in {"lock", "dup", "dup2"} /\ (l = "lock" => op \in {"read", "write", "seek"})
      /\ (l = "dup2" => n \in Nat)
  OBVIOUS
<1> HIDE DEF l
<1>3. get(fd) \in OpenFiles /\ open[get(fd)] # None
  <2>1. fd \in DOMAIN files /\ get(fd) = files[fd] /\ fd \in 1 .. Len(files)
    BY <1>1 DEF get, FileInv
  <2> QED BY <1>1, <2>1 DEF FileInv
<1>4. [op |-> op, file |-> get(fd), n |-> n, at |-> 0] \in FileCall
  BY <1>3 DEF FileCall
<1>5. /\ filecall' \in [FileThreads -> FileCall]
      /\ filecall'[t].file = get(fd) /\ filecall'[t].op = op /\ filecall'[t].n = n
      /\ \A u \in FileThreads : u # t => filecall'[u] = filecall[u]
  BY <1>1, <1>4 DEF FileInv
<1>6. l \in FilePlaces /\ l \notin FileLocked /\ l # "advance"
  BY <1>2, Zenon DEF FilePlaces, FileLocked
<1>7. FileTyped'
  BY <1>1, <1>2, <1>3, <1>5, <1>6, Zenon DEF FileTyped, FileInv
<1>8. OthersKept(t)
  BY <1>1, <1>2, <1>3, <1>5, <1>6, Zenon DEF OthersKept, FileInv
<1>9. CallSound(t, l)
  BY <1>1, <1>2, <1>3, <1>5, <1>6 DEF CallSound, FileLocked
<1> QED BY <1>1, <1>6, <1>7, <1>8, <1>9, FileKept, Zenon DEF FilePlaces, FileLocked

LEMMA EndedType ==
  ASSUME FileInv, NEW t \in FileThreads
  PROVE  /\ FileEnded(t) \in [FileThreads -> FileCall]
         /\ \A u \in FileThreads : u # t => FileEnded(t)[u] = filecall[u]
BY NoFileCallType DEF FileEnded, FileInv

\* The end of a dup(): the table has the call's OpenFile once more.
LEMMA DupEnds ==
  ASSUME FileInv, NEW t \in FileThreads, filepc[t] # "idle",
         filepc' = [filepc EXCEPT ![t] = "idle"], UNCHANGED <<holder, size>>,
         NEW table \in Seq(OpenFiles \union {None}), Update(table, FileEnded(t), open),
         \A i \in 1 .. Len(table) : table[i] # None =>
           table[i] = filecall[t].file \/ \E j \in 1 .. Len(files) : table[i] = files[j]
  PROVE  FileInv'
<1>1. PICK calls : calls = FileEnded(t)
  OBVIOUS
<1>2. /\ calls \in [FileThreads -> FileCall] /\ Update(table, calls, open)
      /\ \A u \in FileThreads : u # t => calls[u] = filecall[u]
  BY <1>1, EndedType
<1>3. /\ files' = table /\ filecall' = calls
      /\ open' \in [OpenFiles -> OpenFile \union {None}]
      /\ \A i \in 1 .. Len(table) : table[i] \in OpenFiles => open'[table[i]] = open[table[i]]
      /\ \A u \in FileThreads : calls[u].file \in OpenFiles =>
           open'[calls[u].file] = open[calls[u].file]
  BY <1>2, UpdateKeeps, Zenon DEF FileInv
<1>4. \A i \in 1 .. Len(files') : files'[i] # None => open'[files'[i]] # None
  <2> SUFFICES ASSUME NEW i \in 1 .. Len(table), table[i] # None
               PROVE  open'[table[i]] # None
    BY <1>3
  <2>1. table[i] \in OpenFiles
    OBVIOUS
  <2>2. CASE table[i] = filecall[t].file
    BY <1>3, <2>1, <2>2 DEF FileInv
  <2>3. CASE \E j \in 1 .. Len(files) : table[i] = files[j]
    <3>1. PICK j \in 1 .. Len(files) : table[i] = files[j]
      BY <2>3
    <3>2. open[table[i]] # None
      BY <3>1, Zenon DEF FileInv
    <3> QED BY <1>3, <2>1, <3>2
  <2> QED BY <2>2, <2>3
<1>5. \A u \in FileThreads : u # t /\ filepc[u] # "idle" =>
        /\ filecall'[u] = filecall[u]
        /\ open'[filecall[u].file] = open[filecall[u].file] /\ open[filecall[u].file] # None
  BY <1>2, <1>3 DEF FileInv
<1>6. "idle" \in FilePlaces
  BY DEF FilePlaces
<1>7. /\ \A u \in FileThreads : filepc[u] \in FileLocked => holder'[filecall[u].file] = u
      /\ size' \in [Files -> Int] /\ holder' \in [OpenFiles -> FileThreads \union {None}]
      /\ files' \in Seq(OpenFiles \union {None}) /\ filecall' \in [FileThreads -> FileCall]
  BY <1>2, <1>3, Zenon DEF FileInv
<1>8. FileTyped'
  BY <1>3, <1>4, <1>5, <1>6, <1>7, Zenon DEF FileTyped, FileInv
<1>9. OthersKept(t)
  BY <1>3, <1>4, <1>5, <1>6, <1>7, Zenon DEF OthersKept, FileInv
<1>10. CallSound(t, "idle")
  BY <1>3, <1>4, <1>5, <1>6, <1>7 DEF CallSound
<1> QED BY <1>6, <1>8, <1>9, <1>10, FileKept, Zenon DEF FilePlaces, FileLocked

LEMMA DupStep ==
  ASSUME FileInv, NEW t \in FileThreads, dup(t) \/ dup2(t)
  PROVE  FileInv'
<1>1. /\ filepc[t] \in {"dup", "dup2"} /\ filepc' = [filepc EXCEPT ![t] = "idle"]
      /\ UNCHANGED <<holder, size>> /\ filecall[t].file \in OpenFiles
  BY DEF dup, dup2, FileGoto, FileInv
<1>2. CASE dup(t)
  <2>1. PICK table : table = insert(filecall[t].file)
    OBVIOUS
  <2>2. /\ table \in Seq(OpenFiles \union {None}) /\ Update(table, FileEnded(t), open)
        /\ \A i \in 1 .. Len(table) :
             table[i] = filecall[t].file \/ \E j \in 1 .. Len(files) : table[i] = files[j]
    BY <1>1, <1>2, <2>1, InsertTable, Zenon DEF dup
  <2> QED BY <1>1, <2>2, DupEnds, Zenon
<1>3. CASE dup2(t)
  <2> DEFINE fd == filecall[t].n
  <2>1. PICK table : table = [i \in 1 .. Larger(fd, Len(files)) |->
                                IF i = fd THEN filecall[t].file ELSE get(i)]
    BY Zenon
  <2>2. Update(table, FileEnded(t), open) /\ fd \in Nat
    BY <1>1, <1>3, <2>1, Zenon DEF dup2, FileInv
  <2>3. /\ files \in Seq(OpenFiles \union {None})
        /\ Len(files) \in Nat /\ DOMAIN files = 1 .. Len(files)
    BY DEF FileInv
  <2> HIDE DEF fd
  <2>4. Larger(fd, Len(files)) \in Nat
    BY <2>2, <2>3 DEF Larger
  <2>5. \A i : get(i) = None \/ \E j \in 1 .. Len(files) : get(i) = files[j]
    BY <2>3 DEF get
  <2>6. \A i : get(i) \in OpenFiles \union {None}
    BY <2>3 DEF get
  <2>7. table \in Seq(OpenFiles \union {None}) /\ Len(table) = Larger(fd, Len(files))
    <3>1. table \in [1 .. Larger(fd, Len(files)) -> OpenFiles \union {None}]
      BY <1>1, <2>1, <2>6
    <3> QED BY <2>4, <3>1
  <2>8. \A i \in 1 .. Len(table) : table[i] # None =>
           table[i] = filecall[t].file \/ \E j \in 1 .. Len(files) : table[i] = files[j]
    BY <2>1, <2>5, <2>7, Zenon
  <2> QED BY <1>1, <2>2, <2>7, <2>8, DupEnds, Zenon
<1> QED BY <1>2, <1>3, Zenon

LEMMA LockOffsetStep ==
  ASSUME FileInv, NEW t \in FileThreads, LockOffset(t)
  PROVE  FileInv'
<1>1. PICK o : o = filecall[t].file
  OBVIOUS
<1>2. PICK l : filepc' = [filepc EXCEPT ![t] = l] /\ l \in {"append", "read", "write", "seek"}
  BY Zenon DEF LockOffset, FileGoto, FileInv
<1>3. /\ filepc[t] = "lock" /\ holder[o] = None /\ holder' = [holder EXCEPT ![o] = t]
      /\ UNCHANGED <<files, open, size, filecall>>
  BY <1>1 DEF LockOffset
<1>4. o \in OpenFiles /\ open[o] # None
  BY <1>1, <1>3 DEF FileInv
<1>5. /\ holder' \in [OpenFiles -> FileThreads \union {None}] /\ holder'[o] = t
      /\ \A p \in OpenFiles : p # o => holder'[p] = holder[p]
  BY <1>3, <1>4 DEF FileInv
<1>6. l \in FilePlaces /\ l \notin {"idle", "lock", "dup2", "advance"}
  BY <1>2 DEF FilePlaces, FileLocked
<1>7. \A u \in FileThreads : u # t /\ filepc[u] \in FileLocked =>
        /\ filecall[u].file \in OpenFiles /\ holder[filecall[u].file] = u
        /\ filecall[u].file # o
  BY <1>3, FileAssumption DEF FileInv, FileLocked
<1>8. \A u \in FileThreads : u # t /\ filepc[u] \in FileLocked => holder'[filecall[u].file] = u
  BY <1>5, <1>7, Zenon
<1>9. FileTyped'
  BY <1>1, <1>2, <1>3, <1>4, <1>5, <1>6, <1>8, Zenon DEF FileTyped, FileInv
<1>10. OthersKept(t)
  BY <1>1, <1>2, <1>3, <1>4, <1>5, <1>6, <1>8, Zenon DEF OthersKept, FileInv
<1>11. CallSound(t, l)
  BY <1>1, <1>2, <1>3, <1>4, <1>5, <1>6, <1>8 DEF CallSound, FileLocked
<1> QED BY <1>2, <1>6, <1>9, <1>10, <1>11, FileKept, Zenon DEF FilePlaces, FileLocked

\* A step that changes the offset of the OpenFile it has locked.
LEMMA AppendStep ==
  ASSUME FileInv, NEW t \in FileThreads, AppendStat(t)
  PROVE  FileInv'
<1>1. PICK o : o = filecall[t].file
  OBVIOUS
<1>2. /\ filepc[t] = "append" /\ filepc' = [filepc EXCEPT ![t] = "write"]
      /\ open' = [open EXCEPT ![o].offset = size[open[o].file]]
      /\ UNCHANGED <<files, holder, size, filecall>>
  BY <1>1 DEF AppendStat, FileGoto
<1>3. o \in OpenFiles /\ open[o] \in OpenFile /\ holder[o] = t
  BY <1>1, <1>2, Zenon DEF FileInv, FileLocked
<1>4. size[open[o].file] \in Int
  BY <1>3 DEF FileInv, OpenFile
<1>5. [open[o] EXCEPT !.offset = size[open[o].file]] \in OpenFile
  BY <1>3, <1>4 DEF OpenFile
<1>6. /\ open' \in [OpenFiles -> OpenFile \union {None}] /\ open'[o] # None
      /\ \A p \in OpenFiles : p # o => open'[p] = open[p]
  BY <1>2, <1>3, <1>5, FileAssumption, Zenon DEF FileInv
<1>7. \A u \in FileThreads : u # t /\ filepc[u] \in FileLocked => filecall[u].file # o
  BY <1>1, <1>2, OneLocked DEF FileLocked
<1>8. \A i \in 1 .. Len(files) :
        files[i] # None => files[i] \in OpenFiles /\ open'[files[i]] # None
  BY <1>6 DEF FileInv
<1>9. \A u \in FileThreads : u # t /\ filepc[u] # "idle" =>
        /\ open'[filecall[u].file] # None
        /\ filepc[u] = "advance" => open'[filecall[u].file].offset = open[filecall[u].file].offset
  BY <1>6, <1>7 DEF FileInv, FileLocked
<1>10. "write" \in FilePlaces
  BY DEF FilePlaces, FileLocked
<1>11. /\ \A u \in FileThreads : filepc[u] \in FileLocked => holder'[filecall[u].file] = u
       /\ size' \in [Files -> Int] /\ holder' \in [OpenFiles -> FileThreads \union {None}]
       /\ files' \in Seq(OpenFiles \union {None}) /\ filecall' \in [FileThreads -> FileCall]
       /\ UNCHANGED <<files, filecall>>
  BY <1>2 DEF FileInv
<1>12. filecall'[t].file = o /\ holder'[o] = t
  BY <1>1, <1>2, <1>3
<1>13. FileTyped'
  BY <1>2, <1>3, <1>6, <1>8, <1>9, <1>10, <1>11, <1>12 DEF FileTyped, FileInv
<1>14. OthersKept(t)
  BY <1>2, <1>3, <1>6, <1>8, <1>9, <1>10, <1>11, <1>12 DEF OthersKept, FileInv
<1>15. CallSound(t, "write")
  BY <1>2, <1>3, <1>6, <1>8, <1>9, <1>10, <1>11, <1>12 DEF CallSound, FileLocked
<1> QED BY <1>2, <1>10, <1>13, <1>14, <1>15, FileKept, Zenon DEF FilePlaces, FileLocked

LEMMA MoveStep ==
  ASSUME FileInv, NEW t \in FileThreads, Move(t)
  PROVE  FileInv'
<1>1. PICK o : o = filecall[t].file
  OBVIOUS
<1>2. filepc[t] \in {"read", "write"} /\ filepc' = [filepc EXCEPT ![t] = "advance"]
      /\ UNCHANGED <<files, open, holder>>
  BY Zenon DEF Move, FileGoto
<1>3. o \in OpenFiles /\ open[o] \in OpenFile /\ open[o] # None /\ holder[o] = t
  BY <1>1, <1>2 DEF FileInv, FileLocked
<1>4. open[o].offset \in Int /\ open[o].file \in Files
  BY <1>3 DEF OpenFile
<1>5. size[open[o].file] \in Int /\ filecall[t] \in FileCall /\ filecall[t].n \in Int
  BY <1>4 DEF FileInv, FileCall
<1>6. PICK n \in Int :
        /\ filecall' = [filecall EXCEPT ![t].n = n, ![t].at = open[o].offset]
        /\ size' = size \/ size' = [size EXCEPT ![open[o].file] = Larger(@, open[o].offset + n)]
  <2> DEFINE there == Larger(0, size[open[o].file] - open[o].offset)
             n == IF filepc[t] = "read" THEN Smaller(filecall[t].n, there) ELSE filecall[t].n
  <2>1. /\ filecall' = [filecall EXCEPT ![t].n = n, ![t].at = open[o].offset]
        /\ size' = size \/ size' = [size EXCEPT ![open[o].file] = Larger(@, open[o].offset + n)]
    BY <1>1, Zenon DEF Move
  <2>2. there \in Int
    BY <1>4, <1>5 DEF Larger
  <2>3. n \in Int
    BY <1>5, <2>2 DEF Smaller
  <2> HIDE DEF n
  <2> QED BY <2>1, <2>3, Zenon
<1>7. size' \in [Files -> Int]
  <2>1. Larger(size[open[o].file], open[o].offset + n) \in Int
    BY <1>4, <1>5 DEF Larger
  <2> QED BY <1>6, <2>1 DEF FileInv
<1>8. /\ filecall' \in [FileThreads -> FileCall] /\ filecall'[t].file = o
      /\ filecall'[t].at = open[o].offset
      /\ \A u \in FileThreads : u # t => filecall'[u] = filecall[u]
  <2>1. [filecall[t] EXCEPT !.n = n, !.at = open[o].offset] \in FileCall
    BY <1>4, <1>5, Zenon DEF FileCall
  <2>2. filecall' = [filecall EXCEPT ![t] = [filecall[t] EXCEPT !.n = n, !.at = open[o].offset]]
    BY <1>6, Zenon DEF FileInv
  <2> QED BY <1>1, <1>5, <2>1, <2>2 DEF FileInv, FileCall
<1>9. "advance" \in FilePlaces /\ "advance" \notin {"idle", "lock", "dup2"}
  BY Zenon DEF FilePlaces, FileLocked
<1>10. \A u \in FileThreads : u # t /\ filepc[u] # "idle" =>
         /\ filecall'[u] = filecall[u] /\ open'[filecall[u].file] # None
         /\ filepc[u] \in FileLocked => holder'[filecall[u].file] = u
         /\ filepc[u] = "advance" =>
              open'[filecall[u].file].offset = open[filecall[u].file].offset
  BY <1>2, <1>8, Zenon DEF FileInv
<1>11. /\ files' \in Seq(OpenFiles \union {None})
       /\ open' \in [OpenFiles -> OpenFile \union {None}]
       /\ holder' \in [OpenFiles -> FileThreads \union {None}]
       /\ \A i \in 1 .. Len(files') : files'[i] # None => open'[files'[i]] # None
  BY <1>2 DEF FileInv
<1>12. holder'[o] = t /\ open'[o] # None /\ open'[o].offset = filecall'[t].at
  BY <1>2, <1>3, <1>8, SMTT(30)
<1>13. FileTyped'
  BY <1>2, <1>3, <1>7, <1>8, <1>9, <1>10, <1>11, <1>12, Zenon DEF FileTyped, FileInv
<1>14. OthersKept(t)
  BY <1>2, <1>3, <1>7, <1>8, <1>9, <1>10, <1>11, <1>12, Zenon DEF OthersKept, FileInv
<1>15. CallSound(t, "advance")
  BY <1>2, <1>3, <1>7, <1>8, <1>9, <1>10, <1>11, <1>12 DEF CallSound, FileLocked
<1> QED BY <1>2, <1>9, <1>13, <1>14, <1>15, FileKept, Zenon DEF FilePlaces, FileLocked

\* The call ends: nobody else is past the lock that it lets go.
LEMMA LeaveStep ==
  ASSUME FileInv, NEW t \in FileThreads, filepc[t] \in FileLocked, NEW offset \in Int,
         Leave(t, offset)
  PROVE  FileInv'
<1>1. PICK o, calls, objects :
        /\ o = filecall[t].file /\ calls = FileEnded(t)
        /\ objects = [open EXCEPT ![filecall[t].file].offset = offset]
  BY Zenon
<1>2. /\ filepc' = [filepc EXCEPT ![t] = "idle"] /\ holder' = [holder EXCEPT ![o] = None]
      /\ Update(files, calls, objects) /\ UNCHANGED size
  BY <1>1 DEF Leave, FileGoto
<1>3. o \in OpenFiles /\ open[o] \in OpenFile
  BY <1>1 DEF FileInv, FileLocked
<1>4. [open[o] EXCEPT !.offset = offset] \in OpenFile
  BY <1>3 DEF OpenFile
<1>5. /\ objects \in [OpenFiles -> OpenFile \union {None}] /\ objects[o] # None
      /\ \A p \in OpenFiles : p # o => objects[p] = open[p]
  BY <1>1, <1>3, <1>4, FileAssumption, Zenon DEF FileInv
<1>6. /\ calls \in [FileThreads -> FileCall]
      /\ \A u \in FileThreads : u # t => calls[u] = filecall[u]
  BY <1>1, EndedType
<1>7. /\ files' = files /\ filecall' = calls
      /\ open' \in [OpenFiles -> OpenFile \union {None}]
      /\ \A i \in 1 .. Len(files) : files[i] \in OpenFiles => open'[files[i]] = objects[files[i]]
      /\ \A u \in FileThreads : calls[u].file \in OpenFiles =>
           open'[calls[u].file] = objects[calls[u].file]
  <2>1. files \in Seq(OpenFiles \union {None})
    BY DEF FileInv
  <2> QED BY <1>2, <1>5, <1>6, <2>1, UpdateKeeps, Zenon
<1>8. \A i \in 1 .. Len(files) : files[i] # None => open'[files[i]] # None
  <2> SUFFICES ASSUME NEW i \in 1 .. Len(files), files[i] # None PROVE open'[files[i]] # None
    OBVIOUS
  <2>1. files[i] \in OpenFiles /\ open[files[i]] # None
    BY DEF FileInv
  <2> QED BY <1>5, <1>7, <2>1
<1>9. \A u \in FileThreads : u # t /\ filepc[u] # "idle" =>
         /\ filecall'[u] = filecall[u] /\ open'[filecall[u].file] # None
         /\ filepc[u] \in FileLocked => holder'[filecall[u].file] = u
         /\ filepc[u] = "advance" =>
              open'[filecall[u].file].offset = open[filecall[u].file].offset
  <2> SUFFICES ASSUME NEW u \in FileThreads, u # t, filepc[u] # "idle"
               PROVE  /\ filecall'[u] = filecall[u] /\ open'[filecall[u].file] # None
                      /\ filepc[u] \in FileLocked => holder'[filecall[u].file] = u
                      /\ filepc[u] = "advance" =>
                           open'[filecall[u].file].offset = open[filecall[u].file].offset
    OBVIOUS
  <2>1. filecall[u].file \in OpenFiles /\ open[filecall[u].file] # None
    BY Zenon DEF FileInv
  <2>2. filecall'[u] = filecall[u] /\ open'[filecall[u].file] = objects[filecall[u].file]
    BY <1>6, <1>7, <2>1
  <2>3. filepc[u] \in FileLocked => filecall[u].file # o
    BY <1>1, OneLocked, Zenon
  <2>4. filepc[u] \in FileLocked => holder'[filecall[u].file] = u
    BY <1>2, <2>1, <2>3, Zenon DEF FileInv
  <2>5. filepc[u] = "advance" => open'[filecall[u].file].offset = open[filecall[u].file].offset
    BY <1>5, <2>1, <2>2, <2>3, SMTT(30) DEF FileLocked
  <2> QED BY <1>5, <2>1, <2>2, <2>4, <2>5
<1>10. /\ holder' \in [OpenFiles -> FileThreads \union {None}] /\ size' \in [Files -> Int]
       /\ files' \in Seq(OpenFiles \union {None}) /\ "idle" \in FilePlaces
  BY <1>2, <1>7, Zenon DEF FileInv, FilePlaces
<1>11. FileTyped'
  BY <1>2, <1>6, <1>7, <1>8, <1>9, <1>10, Zenon DEF FileTyped, FileInv
<1>12. OthersKept(t)
  BY <1>2, <1>6, <1>7, <1>8, <1>9, <1>10, Zenon DEF OthersKept, FileInv
<1>13. CallSound(t, "idle")
  BY <1>2, <1>6, <1>7, <1>8, <1>9, <1>10 DEF CallSound
<1> QED BY <1>2, <1>10, <1>11, <1>12, <1>13, FileKept, Zenon DEF FilePlaces, FileLocked

LEMMA AdvanceStep ==
  ASSUME FileInv, NEW t \in FileThreads,
         MoveFails(t) \/ Advance(t) \/ \E whence \in {"start", "current", "end"} : seek(t, whence)
  PROVE  FileInv'
<1>1. filepc[t] \in FileLocked
  BY Zenon DEF MoveFails, Advance, seek, FileLocked
<1>2. /\ filecall[t].file \in OpenFiles /\ open[filecall[t].file] \in OpenFile
      /\ filecall[t] \in FileCall
  BY <1>1 DEF FileInv, FileLocked
<1>3. /\ open[filecall[t].file].offset \in Int /\ open[filecall[t].file].file \in Files
      /\ filecall[t].n \in Int
  BY <1>2, Zenon DEF OpenFile, FileCall
<1>4. CASE MoveFails(t)
  BY <1>1, <1>3, <1>4, LeaveStep, Zenon DEF MoveFails
<1>5. CASE Advance(t)
  <2>1. open[filecall[t].file].offset + filecall[t].n \in Int
    BY <1>3
  <2> QED BY <1>1, <1>5, <2>1, LeaveStep, Zenon DEF Advance
<1>6. CASE \E whence \in {"start", "current", "end"} : seek(t, whence)
  <2>1. PICK to : Leave(t, IF to \in 0 .. MaxSize THEN to ELSE open[filecall[t].file].offset)
    BY <1>6, Zenon DEF seek
  <2>2. PICK offset : offset = IF to \in 0 .. MaxSize THEN to ELSE open[filecall[t].file].offset
    OBVIOUS
  <2>3. offset \in Int
    BY <1>3, <2>2
  <2> QED BY <1>1, <2>1, <2>2, <2>3, LeaveStep, SMTT(30)
<1> QED BY <1>4, <1>5, <1>6, Zenon

LEMMA FileInvariant == FileSpec => []FileInv
<1>1. FileInit => FileInv
  <2> SUFFICES ASSUME FileInit PROVE FileInv
    OBVIOUS
  <2>1. files \in Seq(OpenFiles \union {None}) /\ Len(files) = 0
    BY DEF FileInit
  <2>2. filecall \in [FileThreads -> FileCall]
    BY NoFileCallType DEF FileInit
  <2> QED BY <2>1, <2>2 DEF FileInit, FileInv, FilePlaces, FileLocked
<1>2. FileInv /\ [FileNext]_fileVars => FileInv'
  <2> SUFFICES ASSUME FileInv, [FileNext]_fileVars PROVE FileInv'
    OBVIOUS
  <2>1. ASSUME NEW t \in FileThreads, FileStep(t) PROVE FileInv'
    <3>1. CASE \E file \in Files, flags \in Flags, trunc \in BOOLEAN :
                 sys_open(t, file, flags, trunc)
      BY <3>1, OpenFileStep
    <3>2. ASSUME NEW fd \in 1 .. MaxFds,
                 \/ close(t, fd)
                 \/ \E n \in Counts : Begin(t, "read", fd, n) \/ Begin(t, "write", fd, n)
                 \/ \E n \in -1 .. 1 : Begin(t, "seek", fd, n)
                 \/ Begin(t, "dup", fd, 0)
                 \/ \E n \in 1 .. MaxFds : Begin(t, "dup2", fd, n)
          PROVE  FileInv'
      <4>1. fd \in Nat /\ Counts \subseteq Int
        BY FileAssumption
      <4>2. CASE close(t, fd)
        BY <4>2, CloseFileStep
      <4>3. CASE \E n \in Counts : Begin(t, "read", fd, n) \/ Begin(t, "write", fd, n)
        BY <4>1, <4>3, BeginStep
      <4>4. CASE \E n \in -1 .. 1 : Begin(t, "seek", fd, n)
        BY <4>1, <4>4, BeginStep
      <4>5. CASE Begin(t, "dup", fd, 0)
        BY <4>1, <4>5, BeginStep
      <4>6. CASE \E n \in 1 .. MaxFds : Begin(t, "dup2", fd, n)
        <5>1. PICK n \in 1 .. MaxFds : Begin(t, "dup2", fd, n)
          BY <4>6
        <5>2. n \in Nat /\ n \in Int
          OBVIOUS
        <5> QED BY <4>1, <5>1, <5>2, BeginStep
      <4> QED BY <3>2, <4>2, <4>3, <4>4, <4>5, <4>6
    <3>3. CASE close_all(t) \/ dup(t) \/ dup2(t) \/ LockOffset(t) \/ AppendStat(t) \/ Move(t)
      BY <3>3, CloseAllStep, DupStep, LockOffsetStep, AppendStep, MoveStep
    <3>4. CASE \/ MoveFails(t) \/ Advance(t)
               \/ \E whence \in {"start", "current", "end"} : seek(t, whence)
      BY <3>4, AdvanceStep, Zenon
    <3> QED BY <2>1, <3>1, <3>2, <3>3, <3>4 DEF FileStep
  <2>2. CASE UNCHANGED fileVars
    BY <2>2 DEF FileInv, fileVars, FilePlaces, FileLocked, FileCall, OpenFile
  <2> QED BY <2>1, <2>2 DEF FileNext
<1> QED BY <1>1, <1>2, PTL DEF FileSpec

\* For any number of threads, descriptors and files: between the moving of its
\* bytes and its advance of the offset, no call of another thread moves the
\* offset or drops the OpenFile, be it through a duplicate or close().
THEOREM OffsetsAreShared == FileSpec => []OffsetShared
<1>1. FileInv => OffsetShared
  BY DEF FileInv, OffsetShared
<1> QED BY <1>1, FileInvariant, PTL

-----------------------------------------------------------------------------
(* Directories *)

\* An entry names a node that has been created, and is the only one that does;
\* a directory has one entry of a name.
TreeInv ==
  /\ kind \in [AllNodes -> {"dir", "file", None}]
  /\ DOMAIN children = AllNodes
  /\ \A d \in AllNodes : \A e \in children[d] : e[2] \in AllNodes /\ kind[e[2]] # None
  /\ \A d \in AllNodes : \A e, f \in children[d] : e[1] = f[1] => e = f
  /\ \A c, d \in AllNodes : \A e \in children[c], f \in children[d] : e[2] = f[2] => c = d

\* create() looks the name up and adds the entry under the lock of the directory.
LEMMA CreateKeepsTree ==
  ASSUME TreeInv, NEW dir, NEW name, NEW type \in {"dir", "file"}, create(dir, name, type)
  PROVE  TreeInv'
<1>1. CASE UNCHANGED treeVars
  <2>1. kind' = kind /\ children' = children
    BY <1>1 DEF treeVars
  <2>2. \A c, d \in AllNodes : \A e \in children'[c], f \in children'[d] : e[2] = f[2] => c = d
    <3> SUFFICES ASSUME NEW c \in AllNodes, NEW d \in AllNodes, NEW e \in children'[c],
                        NEW f \in children'[d], e[2] = f[2]
                 PROVE  c = d
      OBVIOUS
    <3>1. e \in children[c] /\ f \in children[d]
      BY <2>1, Zenon
    <3> QED BY <3>1, Zenon DEF TreeInv
  <2>3. /\ kind' \in [AllNodes -> {"dir", "file", None}] /\ DOMAIN children' = AllNodes
        /\ \A d \in AllNodes : \A e \in children'[d] : e[2] \in AllNodes /\ kind'[e[2]] # None
        /\ \A d \in AllNodes : \A e, f \in children'[d] : e[1] = f[1] => e = f
    BY <2>1, Zenon DEF TreeInv
  <2> QED BY <2>2, <2>3, Zenon DEF TreeInv
<1>2. CASE ~UNCHANGED treeVars
  <2>1. PICK n \in FreeNodes :
          /\ kind' = [kind EXCEPT ![n] = type]
          /\ children' = [children EXCEPT ![dir] = @ \cup {<<name, n>>}]
    BY <1>2 DEF create
  <2>2. EntriesOf(dir, name) = {}
    BY <1>2 DEF create
  <2>3. /\ n \in AllNodes /\ kind[n] = None
        /\ \A m \in AllNodes : kind'[m] # None <=> m = n \/ kind[m] # None
    BY <2>1, KindAssumption DEF TreeInv, FreeNodes, AllNodes
  <2>4. \A d \in AllNodes : \A e \in children'[d] :
          e \in children[d] \/ (d = dir /\ e = <<name, n>>)
    BY <2>1 DEF TreeInv
  <2>5. \A d \in AllNodes : \A e \in children[d] : e[2] # n
    BY <2>3 DEF TreeInv
  <2>6. kind' \in [AllNodes -> {"dir", "file", None}] /\ DOMAIN children' = AllNodes
    BY <2>1, Zenon DEF TreeInv
  <2>7. \A d \in AllNodes : \A e \in children'[d] : e[2] \in AllNodes /\ kind'[e[2]] # None
    BY <2>3, <2>4 DEF TreeInv
  <2>8. \A d \in AllNodes : \A e, f \in children'[d] : e[1] = f[1] => e = f
    <3>1. dir \in AllNodes => \A e \in children[dir] : e[1] # name
      BY <2>2 DEF EntriesOf
    <3> QED BY <2>4, <3>1 DEF TreeInv
  <2>9. \A c, d \in AllNodes : \A e \in children'[c], f \in children'[d] : e[2] = f[2] => c = d
    BY <2>4, <2>5 DEF TreeInv
  <2> QED BY <2>6, <2>7, <2>8, <2>9 DEF TreeInv
<1> QED BY <1>1, <1>2, Zenon

\* unlink() removes entries.
LEMMA RemoveKeepsTree ==
  ASSUME TreeInv, NEW t \in VfsThreads, UnlinkRemove(t)
  PROVE  TreeInv'
<1>1. /\ kind' = kind /\ DOMAIN children' = AllNodes
      /\ \A d \in AllNodes : children'[d] \subseteq children[d]
  BY DEF UnlinkRemove, TreeInv
<1> QED BY <1>1 DEF TreeInv

\* Every step keeps the invariant.
LEMMA TreeStep ==
  ASSUME TreeInv, [VfsNext]_vfsVars
  PROVE  TreeInv'
<1>1. ASSUME NEW t \in VfsThreads, CreateAtParent(t) PROVE TreeInv'
  <2>1. \E name : \E type \in {"dir", "file"} : create(cur[t], name, type)
    BY <1>1 DEF CreateAtParent
  <2> QED BY <2>1, CreateKeepsTree
<1>2. CASE UNCHANGED treeVars
  BY <1>2 DEF TreeInv, treeVars
<1>3. \/ \E t \in VfsThreads : CreateAtParent(t) \/ UnlinkRemove(t)
      \/ UNCHANGED treeVars
  <2>1. ASSUME NEW path, NEW fs, mount(path, fs) \/ unmount(path) PROVE UNCHANGED treeVars
    BY <2>1, Zenon DEF mount, unmount
  <2>2. ASSUME set_root_fs PROVE UNCHANGED treeVars
    BY <2>2 DEF set_root_fs
  <2>3. ASSUME NEW t \in VfsThreads, NEW raw, NEW creat, NEW op,
               sys_open_path(t, raw, creat) \/ sys_change(t, op, raw)
        PROVE  UNCHANGED treeVars
    BY <2>3, Zenon DEF sys_open_path, sys_change
  <2>4. ASSUME NEW t \in VfsThreads, lookup(t) \/ OpenFound(t) \/ UnlinkCheck(t)
        PROVE  UNCHANGED treeVars
    BY <2>4, Zenon DEF lookup, OpenFound, UnlinkCheck
  <2>5. UNCHANGED vfsVars => UNCHANGED treeVars
    BY DEF vfsVars, treeVars
  <2> QED BY <2>1, <2>2, <2>3, <2>4, <2>5, Zenon DEF VfsNext, VfsStep
<1> QED BY <1>1, <1>2, <1>3, RemoveKeepsTree

\* Whatever calls race, the directories form a tree, for any number of threads,
\* names, nodes and file systems.
THEOREM DirectoriesFormTree == VfsSpec => []OneNamePerNode
<1>1. VfsInit => TreeInv
  BY KindAssumption DEF VfsInit, TreeInv
<1>2. TreeInv => OneNamePerNode
  BY Zenon DEF TreeInv, OneNamePerNode
<1> QED BY <1>1, <1>2, TreeStep, PTL DEF VfsSpec


-----------------------------------------------------------------------------
(* Numbers *)

\* A set of natural numbers that is not empty has a least element.
LEMMA LeastNumber ==
  ASSUME NEW T \in SUBSET Nat, T # {}
  PROVE  \E x \in T : \A y \in T : x <= y
<1> DEFINE Less == OpToRel(<, Nat)
<1>1. IsWellFoundedOn(Less, Nat)
  BY NatLessThanWellFounded, Zenon
<1>2. \A a, b \in Nat : a < b => <<a, b>> \in Less
  BY DEF OpToRel
<1> HIDE DEF Less
<1>3. PICK x \in T : \A y \in T : ~ (<<y, x>> \in Less)
  BY <1>1, WFMin, Zenon
<1>4. \A y \in T : x <= y
  <2> TAKE y \in T
  <2>1. x \in Nat /\ y \in Nat
    OBVIOUS
  <2>2. ~ (y < x)
    BY <1>2, <1>3, <2>1, Zenon
  <2> QED BY <2>1, <2>2
<1> QED BY <1>4

-----------------------------------------------------------------------------
(* The mount table *)

\* The bytes of a path can be counted.
LEMMA BytesFinite ==
  ASSUME NEW path \in Seq(Names)
  PROVE  IsFiniteSet(BytesOf(path))
<1>1. PICK f : f = [i \in 1 .. Len(path) |-> {i} \X (0 .. NameLen[path[i]])]
  BY Zenon
<1>2. PICK T : T = {f[i] : i \in 1 .. Len(path)}
  BY Zenon
<1>3. BytesOf(path) = UNION T
  BY <1>1, <1>2 DEF BytesOf
<1>4. IsFiniteSet(T)
  <2>1. f \in Surjection(1 .. Len(path), T)
    BY <1>1, <1>2, Zenon DEF Surjection
  <2>2. IsFiniteSet(1 .. Len(path))
    BY FS_Interval
  <2> QED BY <2>1, <2>2, FS_Surjection
<1>5. ASSUME NEW S \in T PROVE IsFiniteSet(S)
  <2>1. PICK i \in 1 .. Len(path) : S = {i} \X (0 .. NameLen[path[i]])
    BY <1>1, <1>2
  <2>2. NameLen[path[i]] \in Int
    BY PathAssumption
  <2>3. PICK l \in Int : l = NameLen[path[i]]
    BY <2>2
  <2>4. IsFiniteSet({i}) /\ IsFiniteSet(0 .. l)
    <3>1. IsFiniteSet({i})
      BY FS_Singleton, Zenon
    <3>2. IsFiniteSet(0 .. l)
      BY FS_Interval
    <3> QED BY <3>1, <3>2
  <2> QED BY <2>1, <2>3, <2>4, FS_Product
<1> QED BY <1>3, <1>4, <1>5, FS_UNION

LEMMA BytesAre ==
  ASSUME NEW path \in Seq(Names)
  PROVE  \A b : b \in BytesOf(path) <=>
           \E i \in 1 .. Len(path) : \E k \in 0 .. NameLen[path[i]] : b = <<i, k>>
BY DEF BytesOf

\* A path has a byte, and more than one if it is not the root.
LEMMA PathLenFacts ==
  ASSUME NEW path \in Seq(Names)
  PROVE  PathLen(path) \in Nat /\ PathLen(path) >= 1 /\ (path # <<>> => PathLen(path) > 1)
<1>1. CASE path = <<>>
  BY <1>1 DEF PathLen
<1>2. CASE path # <<>>
  <2>1. 1 \in 1 .. Len(path)
    BY <1>2
  <2>2. NameLen[path[1]] \in Nat \ {0}
    BY <2>1, PathAssumption
  <2>3. <<1, 0>> \in BytesOf(path) /\ <<1, 1>> \in BytesOf(path)
    <3>1. 0 \in 0 .. NameLen[path[1]] /\ 1 \in 0 .. NameLen[path[1]]
      BY <2>2
    <3> QED BY <2>1, <3>1, BytesAre, Zenon
  <2>4. IsFiniteSet(BytesOf(path))
    BY BytesFinite
  <2>5. PICK B : B = BytesOf(path)
    OBVIOUS
  <2>6. Cardinality(B) \in Nat
    BY <2>4, <2>5, FS_CardinalityType
  <2>7. Cardinality(B) # 0
    BY <2>3, <2>4, <2>5, FS_EmptySet
  <2>8. Cardinality(B) # 1
    <3>1. SUFFICES ASSUME Cardinality(B) = 1 PROVE FALSE
      OBVIOUS
    <3>2. PICK x : B = {x}
      BY <2>4, <2>5, <3>1, FS_Singleton, Zenon
    <3>3. <<1, 0>> = <<1, 1>>
      BY <2>3, <2>5, <3>2
    <3> QED BY <3>3
  <2> QED BY <1>2, <2>5, <2>6, <2>7, <2>8 DEF PathLen
<1> QED BY <1>1, <1>2

\* Of two prefixes of a path, the one of more components has more bytes.
LEMMA LongerPrefix ==
  ASSUME NEW p \in Seq(Names), NEW q \in Seq(Names),
         Len(p) < Len(q), \A i \in 1 .. Len(p) : p[i] = q[i]
  PROVE  PathLen(p) < PathLen(q)
<1>1. CASE p = <<>>
  <2>1. q # <<>>
    OBVIOUS
  <2> QED BY <1>1, <2>1, PathLenFacts DEF PathLen
<1>2. CASE p # <<>>
  <2>1. PICK P, Q : P = BytesOf(p) /\ Q = BytesOf(q)
    OBVIOUS
  <2>2. P \subseteq Q
    <3> SUFFICES ASSUME NEW b \in P PROVE b \in Q
      OBVIOUS
    <3>0. b \in BytesOf(p)
      BY <2>1
    <3>1. PICK i \in 1 .. Len(p) : \E k \in 0 .. NameLen[p[i]] : b = <<i, k>>
      <4>1. \A c : c \in BytesOf(p) =>
                \E i \in 1 .. Len(p) : \E k \in 0 .. NameLen[p[i]] : c = <<i, k>>
        BY BytesAre
      <4> QED BY <3>0, <4>1, Zenon
    <3>2. i \in 1 .. Len(q) /\ p[i] = q[i]
      OBVIOUS
    <3>3. \E k \in 0 .. NameLen[q[i]] : b = <<i, k>>
      BY <3>1, <3>2, Zenon
    <3> QED BY <2>1, <3>2, <3>3, BytesAre, Zenon
  <2>3. PICK n : n = Len(q)
    OBVIOUS
  <2>4. <<n, 0>> \in Q
    <3>1. n \in 1 .. Len(q) /\ NameLen[q[n]] \in Nat
      BY <2>3, PathAssumption
    <3>2. 0 \in 0 .. NameLen[q[n]]
      BY <3>1
    <3> QED BY <2>1, <3>1, <3>2, BytesAre, Zenon
  <2>5. <<n, 0>> \notin P
    <3> SUFFICES ASSUME <<n, 0>> \in P PROVE FALSE
      OBVIOUS
    <3>1. PICK i \in 1 .. Len(p) : \E k \in 0 .. NameLen[p[i]] : <<n, 0>> = <<i, k>>
      BY <2>1, BytesAre, Zenon
    <3>2. n = i
      BY <3>1
    <3> QED BY <2>3, <3>2
  <2>6. IsFiniteSet(P) /\ IsFiniteSet(Q)
    BY <2>1, BytesFinite
  <2>7. Cardinality(P) <= Cardinality(Q) /\ Cardinality(P) # Cardinality(Q)
    BY <2>2, <2>4, <2>5, <2>6, FS_Subset
  <2>8. Cardinality(P) \in Nat /\ Cardinality(Q) \in Nat
    BY <2>6, FS_CardinalityType
  <2>9. q # <<>>
    OBVIOUS
  <2> QED BY <1>2, <2>1, <2>7, <2>8, <2>9 DEF PathLen
<1> QED BY <1>1, <1>2

\* The entries are longest first.
Entry == [path : Seq(Names), fs : FileSystems \cup {RamRoot}]
SizeAt(table, i) == PathLen(table[i].path)
Sorted(table) == \A i, j \in 1 .. Len(table) : i < j => SizeAt(table, i) >= SizeAt(table, j)

\* The inductive invariant of the table.
MountInv == mounts \in Seq(Entry) /\ Sorted(mounts)

LEMMA SizeIsNat ==
  ASSUME NEW table \in Seq(Entry), NEW i \in 1 .. Len(table)
  PROVE  SizeAt(table, i) \in Nat /\ SizeAt(table, i) >= 1
<1>1. table[i] \in Entry
  OBVIOUS
<1>2. table[i].path \in Seq(Names)
  BY <1>1 DEF Entry
<1> QED BY <1>2, PathLenFacts DEF SizeAt

\* Where the last entry goes when the others are in order.
LEMMA InsertionPlace ==
  ASSUME NEW n \in Nat, NEW S, \A i \in 1 .. n + 1 : S[i] \in Nat,
         \A i, j \in 1 .. n : i < j => S[i] >= S[j]
  PROVE  \E c \in 0 .. n : /\ \A i \in 1 .. c : S[i] >= S[n + 1]
                           /\ \A i \in c + 1 .. n : S[i] < S[n + 1]
<1>1. PICK T : T = {i \in 1 .. n : S[i] < S[n + 1]}
  BY Zenon
<1>2. CASE T = {}
  <2>1. \A i \in 1 .. n : S[i] >= S[n + 1]
    BY <1>1, <1>2
  <2>2. n \in 0 .. n /\ \A i \in n + 1 .. n : S[i] < S[n + 1]
    OBVIOUS
  <2> QED BY <2>1, <2>2
<1>3. CASE T # {}
  <2>1. PICK x \in T : \A y \in T : x <= y
    BY <1>1, <1>3, LeastNumber
  <2>2. PICK c : c = x - 1
    OBVIOUS
  <2>3. c \in 0 .. n /\ x \in 1 .. n /\ S[x] < S[n + 1] /\ x = c + 1
    BY <1>1, <2>1, <2>2
  <2>4. \A i \in 1 .. c : S[i] >= S[n + 1]
    BY <1>1, <2>1, <2>3
  <2>5. \A i \in c + 1 .. n : S[i] < S[n + 1]
    <3> SUFFICES ASSUME NEW i \in c + 1 .. n PROVE S[i] < S[n + 1]
      OBVIOUS
    <3>1. i = x \/ x < i
      BY <2>3
    <3>2. S[i] <= S[x] /\ S[i] \in Nat /\ S[x] \in Nat /\ S[n + 1] \in Nat
      BY <2>3, <3>1
    <3> QED BY <2>3, <3>2
  <2> QED BY <2>3, <2>4, <2>5, Zenon
<1> QED BY <1>2, <1>3

\* The order that sort_by() looks for, when only the last entry is out of place.
LEMMA OrderExists ==
  ASSUME NEW n \in Nat, NEW S, \A i \in 1 .. n + 1 : S[i] \in Nat,
         \A i, j \in 1 .. n : i < j => S[i] >= S[j]
  PROVE  \E p \in [1 .. n + 1 -> 1 .. n + 1] : \A i, j \in 1 .. n + 1 :
           i < j => S[p[i]] > S[p[j]] \/ (S[p[i]] = S[p[j]] /\ p[i] < p[j])
<1>1. PICK c \in 0 .. n : /\ \A i \in 1 .. c : S[i] >= S[n + 1]
                          /\ \A i \in c + 1 .. n : S[i] < S[n + 1]
  BY InsertionPlace, Zenon
<1>2. PICK p : p = [i \in 1 .. n + 1 |-> IF i <= c THEN i ELSE IF i = c + 1 THEN n + 1 ELSE i - 1]
  BY Zenon
<1>3. /\ p \in [1 .. n + 1 -> 1 .. n + 1]
      /\ \A i \in 1 .. n + 1 : /\ i <= c => p[i] = i
                               /\ i = c + 1 => p[i] = n + 1
                               /\ i > c + 1 => p[i] = i - 1
  BY <1>2
<1>4. ASSUME NEW i \in 1 .. n + 1, NEW j \in 1 .. n + 1, i < j
      PROVE  S[p[i]] > S[p[j]] \/ (S[p[i]] = S[p[j]] /\ p[i] < p[j])
  <2>1. CASE j <= c
    <3>1. p[i] = i /\ p[j] = j /\ i \in 1 .. n /\ j \in 1 .. n
      BY <1>3, <1>4, <2>1
    <3>2. S[i] >= S[j] /\ S[i] \in Nat /\ S[j] \in Nat
      BY <1>4, <3>1
    <3> QED BY <1>4, <3>1, <3>2
  <2>2. CASE i <= c /\ j = c + 1
    <3>1. p[i] = i /\ p[j] = n + 1 /\ i \in 1 .. c /\ i < n + 1
      BY <1>3, <1>4, <2>2
    <3>2. S[i] >= S[n + 1] /\ S[i] \in Nat /\ S[n + 1] \in Nat
      BY <1>1, <3>1
    <3> QED BY <3>1, <3>2
  <2>3. CASE i <= c /\ j > c + 1
    <3>1. p[i] = i /\ p[j] = j - 1 /\ i \in 1 .. n /\ j - 1 \in 1 .. n /\ i < j - 1
      BY <1>3, <1>4, <2>3
    <3>2. S[i] >= S[j - 1] /\ S[i] \in Nat /\ S[j - 1] \in Nat
      BY <3>1
    <3> QED BY <3>1, <3>2
  <2>4. CASE i = c + 1
    <3>1. p[i] = n + 1 /\ p[j] = j - 1 /\ j - 1 \in c + 1 .. n
      BY <1>3, <1>4, <2>4
    <3> QED BY <1>1, <3>1
  <2>5. CASE i > c + 1
    <3>1. p[i] = i - 1 /\ p[j] = j - 1 /\ i - 1 \in 1 .. n /\ j - 1 \in 1 .. n /\ i - 1 < j - 1
      BY <1>3, <1>4, <2>5
    <3>2. S[i - 1] >= S[j - 1] /\ S[i - 1] \in Nat /\ S[j - 1] \in Nat
      BY <3>1
    <3> QED BY <3>1, <3>2
  <2> QED BY <1>4, <2>1, <2>2, <2>3, <2>4, <2>5
<1> QED BY <1>3, <1>4, Zenon

LEMMA MountStep ==
  ASSUME MountInv, NEW path \in MountPaths, NEW fs \in FileSystems, mount(path, fs)
  PROVE  MountInv'
<1>1. PICK n \in Nat : n = Len(mounts)
  BY DEF MountInv
<1>2. PICK new : new = [path |-> path, fs |-> fs]
  BY Zenon
<1>3. PICK table : table = Append(mounts, new)
  BY Zenon
<1>4. new \in Entry /\ mounts \in Seq(Entry)
  BY <1>2, PathAssumption DEF Entry, MountInv
<1>5. /\ table \in Seq(Entry) /\ Len(table) = n + 1 /\ DOMAIN table = 1 .. n + 1
      /\ \A i \in 1 .. n : table[i] = mounts[i]
  BY <1>1, <1>3, <1>4
<1>6. PICK S : S = [i \in 1 .. n + 1 |-> PathLen(table[i].path)]
  BY Zenon
<1>7. \A i \in 1 .. n + 1 : S[i] = SizeAt(table, i) /\ S[i] \in Nat
  BY <1>5, <1>6, SizeIsNat DEF SizeAt
<1>8. \A i, j \in 1 .. n : i < j => S[i] >= S[j]
  <2>1. \A i \in 1 .. n : S[i] = SizeAt(mounts, i)
    BY <1>5, <1>6 DEF SizeAt
  <2> QED BY <1>1, <2>1 DEF MountInv, Sorted
<1>9. \E p \in [DOMAIN table -> DOMAIN table] : LongestFirst(table, p)
  <2>1. PICK p \in [1 .. n + 1 -> 1 .. n + 1] : \A i, j \in 1 .. n + 1 :
          i < j => S[p[i]] > S[p[j]] \/ (S[p[i]] = S[p[j]] /\ p[i] < p[j])
    BY <1>7, <1>8, OrderExists
  <2>2. \A i \in 1 .. n + 1 : p[i] \in 1 .. n + 1 /\ S[p[i]] = PathLen(table[p[i]].path)
    BY <1>6
  <2>3. LongestFirst(table, p)
    BY <1>5, <2>1, <2>2 DEF LongestFirst
  <2> QED BY <1>5, <2>3
<1>10. PICK order : order = CHOOSE p \in [DOMAIN table -> DOMAIN table] : LongestFirst(table, p)
  OBVIOUS
<1>11. order \in [DOMAIN table -> DOMAIN table] /\ LongestFirst(table, order)
  BY <1>9, <1>10, Zenon
<1>12. mounts' = [k \in DOMAIN table |-> table[order[k]]]
  <2>1. mounts' = SortedByLength(table)
    BY <1>2, <1>3, Zenon DEF mount
  <2>2. mounts' = [k \in DOMAIN table |-> table[(CHOOSE p \in [DOMAIN table -> DOMAIN table] :
                                                    LongestFirst(table, p))[k]]]
    BY <2>1, Zenon DEF SortedByLength
  <2>3. DOMAIN mounts' = DOMAIN table /\ \A k \in DOMAIN table : mounts'[k] = table[order[k]]
    BY <1>10, <2>2, Zenon
  <2>4. mounts' = [k \in DOMAIN table |-> mounts'[k]]
    BY <2>2
  <2> QED BY <2>3, <2>4
<1>13. mounts' \in Seq(Entry) /\ Len(mounts') = n + 1
  BY <1>5, <1>11, <1>12
<1>14. ASSUME NEW i \in 1 .. n + 1, NEW j \in 1 .. n + 1, i < j
       PROVE  SizeAt(mounts', i) >= SizeAt(mounts', j)
  <2>1. mounts'[i] = table[order[i]] /\ mounts'[j] = table[order[j]]
    BY <1>5, <1>12, Zenon
  <2>2. order[i] \in 1 .. n + 1 /\ order[j] \in 1 .. n + 1
    BY <1>5, <1>11
  <2>3. SizeAt(table, order[i]) \in Nat /\ SizeAt(table, order[j]) \in Nat
    BY <1>5, <2>2, SizeIsNat
  <2>4. \/ SizeAt(table, order[i]) > SizeAt(table, order[j])
        \/ SizeAt(table, order[i]) = SizeAt(table, order[j])
    BY <1>5, <1>11, <1>14, Zenon DEF SizeAt, LongestFirst
  <2>5. SizeAt(mounts', i) = SizeAt(table, order[i]) /\ SizeAt(mounts', j) = SizeAt(table, order[j])
    BY <2>1, Zenon DEF SizeAt
  <2> QED BY <2>3, <2>4, <2>5
<1>15. Sorted(mounts')
  BY <1>13, <1>14, Zenon DEF Sorted
<1> QED BY <1>13, <1>15, Zenon DEF MountInv

LEMMA RootStep ==
  ASSUME MountInv, set_root_fs
  PROVE  MountInv'
<1>1. PICK n \in Nat : n = Len(mounts)
  BY DEF MountInv
<1>2. PICK new : new = [path |-> <<>>, fs |-> RamRoot]
  BY Zenon
<1>3. new \in Entry /\ new.path = <<>>
  BY <1>2 DEF Entry
<1>4. mounts' = Append(mounts, new) /\ mounts \in Seq(Entry)
  BY <1>2, Zenon DEF set_root_fs, MountInv
<1>5. /\ mounts' \in Seq(Entry) /\ Len(mounts') = n + 1
      /\ \A i \in 1 .. n : mounts'[i] = mounts[i]
      /\ mounts'[n + 1] = new
  BY <1>1, <1>3, <1>4
<1>6. SizeAt(mounts', n + 1) = 1
  BY <1>3, <1>5 DEF SizeAt, PathLen
<1>7. \A i \in 1 .. n : SizeAt(mounts', i) = SizeAt(mounts, i)
  BY <1>5, Zenon DEF SizeAt
<1>8. \A i \in 1 .. n : SizeAt(mounts, i) >= 1
  BY <1>1, <1>4, SizeIsNat
<1>9. \A i, j \in 1 .. n : i < j => SizeAt(mounts, i) >= SizeAt(mounts, j)
  BY <1>1, Zenon DEF MountInv, Sorted
<1>10. ASSUME NEW i \in 1 .. n + 1, NEW j \in 1 .. n + 1, i < j
       PROVE  SizeAt(mounts', i) >= SizeAt(mounts', j)
  <2>1. i \in 1 .. n
    BY <1>10
  <2>2. CASE j \in 1 .. n
    BY <1>7, <1>9, <1>10, <2>1, <2>2
  <2>3. CASE j = n + 1
    BY <1>6, <1>7, <1>8, <2>1, <2>3
  <2> QED BY <2>2, <2>3
<1>11. Sorted(mounts')
  BY <1>5, <1>10, Zenon DEF Sorted
<1> QED BY <1>5, <1>11, Zenon DEF MountInv

LEMMA CatSeq ==
  ASSUME NEW S, NEW s \in Seq(S), NEW t \in Seq(S)
  PROVE  s \o t \in Seq(S) /\ Len(s \o t) = Len(s) + Len(t)
OBVIOUS

LEMMA UnmountStep ==
  ASSUME MountInv, NEW path \in MountPaths, unmount(path)
  PROVE  MountInv'
<1>1. PICK n \in Nat : n = Len(mounts)
  BY DEF MountInv
<1>2. PICK k \in 1 .. n : mounts' = Without(mounts, k)
  BY <1>1 DEF unmount, MountInv
<1>3. mounts \in Seq(Entry)
  BY DEF MountInv
<1>4. /\ SubSeq(mounts, 1, k - 1) \in Seq(Entry) /\ Len(SubSeq(mounts, 1, k - 1)) = k - 1
      /\ \A i \in 1 .. k - 1 : SubSeq(mounts, 1, k - 1)[i] = mounts[i]
  BY <1>1, <1>3
<1>5. /\ SubSeq(mounts, k + 1, n) \in Seq(Entry) /\ Len(SubSeq(mounts, k + 1, n)) = n - k
      /\ \A i \in 1 .. n - k : SubSeq(mounts, k + 1, n)[i] = mounts[k + i]
  BY <1>1, <1>3
<1>6. PICK a, b : a = SubSeq(mounts, 1, k - 1) /\ b = SubSeq(mounts, k + 1, n)
  BY Zenon
<1>7. mounts' = a \o b
  BY <1>1, <1>2, <1>6 DEF Without
<1>8. /\ mounts' \in Seq(Entry) /\ Len(mounts') = n - 1
      /\ \A i \in 1 .. n - 1 : mounts'[i] = IF i < k THEN a[i] ELSE b[i - (k - 1)]
  <2>1. a \in Seq(Entry) /\ b \in Seq(Entry) /\ Len(a) = k - 1 /\ Len(b) = n - k
    BY <1>4, <1>5, <1>6
  <2>2. PICK t : t = a \o b
    BY Zenon
  <2>3. t \in Seq(Entry) /\ Len(t) = n - 1
    <3>1. t \in Seq(Entry) /\ Len(t) = Len(a) + Len(b)
      BY <2>1, <2>2, CatSeq, Zenon
    <3> QED BY <2>1, <3>1
  <2>4. \A i \in 1 .. n - 1 : t[i] = IF i < k THEN a[i] ELSE b[i - (k - 1)]
    BY <2>1, <2>2
  <2> QED BY <1>7, <2>2, <2>3, <2>4, Zenon
<1>9. \A i \in 1 .. n - 1 : mounts'[i] = IF i < k THEN mounts[i] ELSE mounts[i + 1]
  <2> SUFFICES ASSUME NEW i \in 1 .. n - 1
               PROVE  mounts'[i] = IF i < k THEN mounts[i] ELSE mounts[i + 1]
    OBVIOUS
  <2>1. CASE i < k
    BY <1>4, <1>6, <1>8, <2>1
  <2>2. CASE ~ (i < k)
    <3>1. PICK j \in 1 .. n - k : j = i - (k - 1)
      BY <2>2
    <3>2. b[j] = mounts[k + j] /\ k + j = i + 1
      BY <1>5, <1>6, <3>1
    <3> QED BY <1>8, <2>2, <3>1, <3>2
  <2> QED BY <2>1, <2>2
<1>10. \A i, j \in 1 .. n : i < j => SizeAt(mounts, i) >= SizeAt(mounts, j)
  BY <1>1, Zenon DEF MountInv, Sorted
<1>11. \A i \in 1 .. n - 1 : /\ i < k => SizeAt(mounts', i) = SizeAt(mounts, i)
                             /\ i >= k => SizeAt(mounts', i) = SizeAt(mounts, i + 1)
  BY <1>9 DEF SizeAt
<1>12. \A i, j \in 1 .. n - 1 : i < j => SizeAt(mounts', i) >= SizeAt(mounts', j)
  BY <1>10, <1>11
<1>13. Sorted(mounts')
  BY <1>8, <1>12, Zenon DEF Sorted
<1> QED BY <1>8, <1>13, Zenon DEF MountInv

LEMMA MountInvHolds == VfsSpec => []MountInv
<1>1. VfsInit => MountInv
  BY DEF VfsInit, MountInv, Sorted, Entry
<1>2. ASSUME MountInv, UNCHANGED mounts PROVE MountInv'
  BY <1>2 DEF MountInv, Sorted, SizeAt
<1>3. MountInv /\ [VfsNext]_vfsVars => MountInv'
  <2> SUFFICES ASSUME MountInv, [VfsNext]_vfsVars PROVE MountInv'
    OBVIOUS
  <2>1. CASE set_root_fs
    BY <2>1, RootStep
  <2>2. ASSUME NEW path \in MountPaths, NEW fs \in FileSystems, mount(path, fs) PROVE MountInv'
    BY <2>2, MountStep
  <2>3. ASSUME NEW path \in MountPaths, unmount(path) PROVE MountInv'
    BY <2>3, UnmountStep
  <2>4. ASSUME NEW t \in VfsThreads, VfsStep(t) PROVE UNCHANGED mounts
    BY <2>4, Zenon DEF VfsStep, sys_open_path, sys_change, lookup, OpenFound, CreateAtParent,
       UnlinkCheck, UnlinkRemove, mountVars
  <2>5. ASSUME UNCHANGED vfsVars PROVE UNCHANGED mounts
    BY <2>5 DEF vfsVars
  <2> QED BY <2>1, <2>2, <2>3, <2>4, <2>5, <1>2, Zenon DEF VfsNext
<1> QED BY <1>1, <1>3, PTL DEF VfsSpec

LEMMA SameSeq ==
  ASSUME NEW S, NEW s \in Seq(S), NEW t \in Seq(S), Len(s) = Len(t),
         \A i \in 1 .. Len(t) : s[i] = t[i]
  PROVE  s = t
OBVIOUS

\* In a table in order, the first mount that covers a path covers the most.
LEMMA FirstIsDeepest ==
  ASSUME MountInv, NEW path \in Seq(Names)
  PROVE  ServedByDeepest(path)
<1>1. PICK n \in Nat : n = Len(mounts)
  BY DEF MountInv
<1>2. mounts \in Seq(Entry) /\ DOMAIN mounts = 1 .. n /\ \A i \in 1 .. n : mounts[i] \in Entry
  BY <1>1 DEF MountInv
<1>3. PICK hits : hits = {i \in DOMAIN mounts : Matches(mounts[i], path)}
  BY Zenon
<1>4. PICK over : over = {m \in {mounts[i] : i \in DOMAIN mounts} : Matches(m, path)}
  BY Zenon
<1>5. \A m : m \in over <=> \E i \in hits : m = mounts[i]
  BY <1>3, <1>4, Zenon
<1>6. CASE hits = {}
  <2>1. find_mount(path) = None
    BY <1>3, <1>6, Zenon DEF find_mount
  <2>2. over = {}
    BY <1>5, <1>6
  <2> QED BY <1>4, <2>1, <2>2, Zenon DEF ServedByDeepest
<1>7. CASE hits # {}
  <2>1. \E i \in hits : \A j \in hits : i <= j
    BY <1>2, <1>3, <1>7, LeastNumber
  <2>2. PICK x : x = CHOOSE i \in hits : \A j \in hits : i <= j
    OBVIOUS
  <2>3. x \in hits /\ \A j \in hits : x <= j
    BY <2>1, <2>2, Zenon
  <2>4. PICK m : m = mounts[x]
    OBVIOUS
  <2>5. find_mount(path) = [fs |-> m.fs, relative |-> SubSeq(path, Len(m.path) + 1, Len(path))]
    BY <1>3, <1>7, <2>2, <2>4, Zenon DEF find_mount
  <2>6. m \in over /\ x \in 1 .. n /\ m.path \in Seq(Names) /\ Matches(m, path)
    BY <1>2, <1>3, <1>5, <2>3, <2>4 DEF Entry
  <2>7. ASSUME NEW o \in over PROVE Len(o.path) <= Len(m.path)
    <3>1. PICK j \in hits : o = mounts[j]
      BY <1>5
    <3>2. j \in 1 .. n /\ x <= j /\ o.path \in Seq(Names) /\ Matches(o, path)
      BY <1>2, <1>3, <2>3, <3>1, Zenon DEF Entry
    <3>3. SUFFICES ASSUME Len(m.path) < Len(o.path) PROVE FALSE
      BY <2>6, <3>2
    <3>4. \A i \in 1 .. Len(m.path) : m.path[i] = o.path[i]
      <4>1. ASSUME NEW q \in Seq(Names), Len(q) <= Len(path), SubSeq(path, 1, Len(q)) = q
            PROVE  \A i \in 1 .. Len(q) : q[i] = path[i]
        BY <4>1
      <4>2. \A i \in 1 .. Len(m.path) : m.path[i] = path[i]
        BY <2>6, <4>1 DEF Matches
      <4>3. \A i \in 1 .. Len(o.path) : o.path[i] = path[i]
        BY <3>2, <4>1 DEF Matches
      <4> QED BY <2>6, <3>2, <3>3, <4>2, <4>3
    <3>5. PathLen(m.path) < PathLen(o.path)
      BY <2>6, <3>2, <3>3, <3>4, LongerPrefix
    <3>6. PathLen(m.path) \in Nat /\ PathLen(o.path) \in Nat
      BY <2>6, <3>2, PathLenFacts
    <3>7. x = j \/ x < j
      BY <2>6, <3>2
    <3>8. PathLen(m.path) = SizeAt(mounts, x) /\ PathLen(o.path) = SizeAt(mounts, j)
      BY <2>4, <3>1 DEF SizeAt
    <3>9. x < j => SizeAt(mounts, x) >= SizeAt(mounts, j)
      BY <1>1, <2>6, <3>2, Zenon DEF MountInv, Sorted
    <3> QED BY <3>5, <3>6, <3>7, <3>8, <3>9
  <2>8. m.path \o SubSeq(path, Len(m.path) + 1, Len(path)) = path
    <3>1. PICK q \in Seq(Names) : q = m.path
      BY <2>6
    <3>2. PICK r : r = SubSeq(path, Len(q) + 1, Len(path))
      BY Zenon
    <3>3. Len(q) <= Len(path) /\ SubSeq(path, 1, Len(q)) = q
      BY <2>6, <3>1 DEF Matches
    <3>4. \A i \in 1 .. Len(q) : q[i] = path[i]
      BY <3>3
    <3>5. r \in Seq(Names) /\ Len(r) = Len(path) - Len(q)
          /\ \A i \in 1 .. Len(path) - Len(q) : r[i] = path[Len(q) + i]
      BY <3>2, <3>3
    <3>6. q \o r \in Seq(Names) /\ Len(q \o r) = Len(path)
      BY <3>3, <3>5
    <3>7. ASSUME NEW i \in 1 .. Len(path) PROVE (q \o r)[i] = path[i]
      <4>1. CASE i <= Len(q)
        BY <3>4, <3>5, <4>1
      <4>2. CASE i > Len(q)
        <5>1. PICK j \in 1 .. Len(path) - Len(q) : i = Len(q) + j
          <6>1. i - Len(q) \in 1 .. Len(path) - Len(q) /\ i = Len(q) + (i - Len(q))
            BY <3>3, <4>2
          <6> QED BY <6>1
        <5>2. (q \o r)[i] = r[j]
          BY <3>5, <5>1
        <5> QED BY <3>5, <5>1, <5>2
      <4>3. i <= Len(q) \/ i > Len(q)
        OBVIOUS
      <4> QED BY <4>1, <4>2, <4>3, Zenon
    <3>8. q \o r = path
      BY <3>6, <3>7, SameSeq, Zenon
    <3> QED BY <3>1, <3>2, <3>8, Zenon
  <2>9. find_mount(path).fs = m.fs
        /\ find_mount(path).relative = SubSeq(path, Len(m.path) + 1, Len(path))
    BY <2>5
  <2>10. over # {}
    BY <2>6
  <2> QED BY <1>4, <2>6, <2>7, <2>8, <2>9, <2>10, Zenon DEF ServedByDeepest
<1> QED BY <1>6, <1>7

\* Every path, however long and whatever was mounted, is served by the mount that
\* covers the most of it.
THEOREM EveryPathServedByDeepest == VfsSpec => [](\A path \in Seq(Names) : ServedByDeepest(path))
<1>1. MountInv => \A path \in Seq(Names) : ServedByDeepest(path)
  BY FirstIsDeepest, Zenon
<1> QED BY <1>1, MountInvHolds, PTL

\* In particular the short ones.
THEOREM DeepestMountsWin == VfsSpec => []DeepestMountWins
<1>1. \A path \in ShortPaths : path \in Seq(Names)
  <2>1. ASSUME NEW n \in 0 .. 2, NEW path \in [1 .. n -> Names] PROVE path \in Seq(Names)
    OBVIOUS
  <2> QED BY <2>1, Zenon DEF ShortPaths
<1>2. MountInv => DeepestMountWins
  BY <1>1, FirstIsDeepest, Zenon DEF DeepestMountWins
<1> QED BY <1>2, MountInvHolds, PTL

-----------------------------------------------------------------------------
(* Sequences *)

\* A sequence without the element at a place.
LEMMA WithoutPlace ==
  ASSUME NEW S, NEW s \in Seq(S), NEW i \in 1 .. Len(s)
  PROVE  LET r == SubSeq(s, 1, i - 1) \o SubSeq(s, i + 1, Len(s))
         IN  /\ r \in Seq(S) /\ Len(r) = Len(s) - 1
             /\ \A j \in 1 .. Len(r) : r[j] = s[IF j < i THEN j ELSE j + 1]
<1> DEFINE a == SubSeq(s, 1, i - 1)
           b == SubSeq(s, i + 1, Len(s))
<1>1. a \in Seq(S) /\ Len(a) = i - 1 /\ \A j \in 1 .. i - 1 : a[j] = s[j]
  OBVIOUS
<1>2. b \in Seq(S) /\ Len(b) = Len(s) - i /\ \A j \in 1 .. Len(s) - i : b[j] = s[i + j]
  OBVIOUS
<1> HIDE DEF a, b
<1>3. a \o b \in Seq(S) /\ Len(a \o b) = Len(s) - 1
  <2>1. a \in Seq(S) /\ b \in Seq(S)
    BY <1>1, <1>2
  <2>2. a \o b \in Seq(S)
    BY ONLY <2>1
  <2>3. Len(a \o b) = Len(a) + Len(b)
    BY <2>1
  <2> QED BY <1>1, <1>2, <2>2, <2>3
<1>4. \A j \in 1 .. Len(a) + Len(b) : (a \o b)[j] = IF j <= Len(a) THEN a[j] ELSE b[j - Len(a)]
  BY <1>1, <1>2
<1>5. \A j \in 1 .. Len(s) - 1 : (a \o b)[j] = s[IF j < i THEN j ELSE j + 1]
  <2> SUFFICES ASSUME NEW j \in 1 .. Len(s) - 1
               PROVE  (a \o b)[j] = s[IF j < i THEN j ELSE j + 1]
    BY Zenon
  <2>1. CASE j < i
    <3>1. j \in 1 .. Len(a) + Len(b) /\ j <= Len(a) /\ j \in 1 .. i - 1
      BY <1>1, <1>2, <2>1
    <3> QED BY <1>1, <1>4, <2>1, <3>1
  <2>2. CASE j >= i
    <3>1. /\ j - (i - 1) \in 1 .. Len(s) - i /\ i + (j - (i - 1)) = j + 1
          /\ j \in 1 .. Len(a) + Len(b) /\ ~(j <= Len(a)) /\ j - Len(a) = j - (i - 1)
      BY <1>1, <1>2, <2>2
    <3>2. (a \o b)[j] = b[j - (i - 1)]
      BY <1>4, <3>1
    <3>3. b[j - (i - 1)] = s[i + (j - (i - 1))]
      BY <1>2, <3>1
    <3>4. (IF j < i THEN j ELSE j + 1) = j + 1
      BY <2>2
    <3> QED BY <3>1, <3>2, <3>3, <3>4
  <2>3. j < i \/ j >= i
    OBVIOUS
  <2> QED BY <2>1, <2>2, <2>3, Zenon
<1> QED BY <1>3, <1>5, Zenon DEF a, b

-----------------------------------------------------------------------------
(* The registry *)

QueueEntry == [name : QueueNames, mq : Nat]

\* A handle is nothing, or its queue is unlinked, or it is in the list, which
\* has every name once.
NamesInv ==
  /\ list \in Seq(QueueEntry) /\ created \in Nat
  /\ \A i, j \in 1 .. Len(list) : list[i].name = list[j].name => i = j
  /\ openpc \in [Openers -> {"idle", "create"}]
  /\ opencall \in [Openers -> [name : QueueNames \union {"none"}, create : BOOLEAN]]
  /\ \A p \in Openers : openpc[p] = "create" => opencall[p].name \in QueueNames
  /\ handle \in [Openers -> QueueEntry \union {NoEntry}]
  /\ \A p \in Openers : \/ handle[p] = NoEntry
                        \/ handle[p].mq \in unlinked
                        \/ \E i \in 1 .. Len(list) : list[i] = handle[p]

\* FindQueue() gives entries of the list.
LEMMA FoundIsEntry ==
  ASSUME NamesInv, NEW name, NEW e \in FindQueue(name)
  PROVE  e \in QueueEntry /\ \E i \in 1 .. Len(list) : list[i] = e
BY DEF NamesInv, FindQueue, Positions

\* An entry of the list, and NoEntry, may be returned.
LEMMA ReturnsEntry ==
  ASSUME NamesInv, NEW p \in Openers, NEW e \in QueueEntry \union {NoEntry},
         OpenReturns(p, e), UNCHANGED <<list, created, unlinked>>,
         e = NoEntry \/ \E i \in 1 .. Len(list) : list[i] = e
  PROVE  NamesInv'
<1>1. /\ handle' = [handle EXCEPT ![p] = e] /\ opencall' = [opencall EXCEPT ![p] = NoOpen]
      /\ openpc' = [openpc EXCEPT ![p] = "idle"]
  BY DEF OpenReturns
<1>2. NoOpen \in [name : QueueNames \union {"none"}, create : BOOLEAN]
  BY DEF NoOpen
<1>3. /\ openpc' \in [Openers -> {"idle", "create"}]
      /\ opencall' \in [Openers -> [name : QueueNames \union {"none"}, create : BOOLEAN]]
      /\ handle' \in [Openers -> QueueEntry \union {NoEntry}]
  BY <1>1, <1>2 DEF NamesInv
<1>4. \A q \in Openers : openpc'[q] = "create" => opencall'[q].name \in QueueNames
  BY <1>1 DEF NamesInv
<1>5. \A q \in Openers : \/ handle'[q] = NoEntry
                         \/ handle'[q].mq \in unlinked'
                         \/ \E i \in 1 .. Len(list') : list'[i] = handle'[q]
  BY <1>1 DEF NamesInv
<1> QED BY <1>3, <1>4, <1>5, Zenon DEF NamesInv, QueueEntry, NoEntry

LEMMA MqOpenStep ==
  ASSUME NamesInv, NEW p \in Openers, MqOpen(p)
  PROVE  NamesInv'
<1>1. PICK name \in QueueNames, new \in BOOLEAN :
        IF FindQueue(name) # {}
        THEN \E e \in FindQueue(name) : OpenReturns(p, e)
        ELSE IF new
        THEN /\ opencall' = [opencall EXCEPT ![p] = [name |-> name, create |-> TRUE]]
             /\ openpc' = [openpc EXCEPT ![p] = "create"]
             /\ UNCHANGED handle
        ELSE OpenReturns(p, NoEntry)
  BY DEF MqOpen
<1>2. UNCHANGED <<list, created, unlinked>>
  BY DEF MqOpen
<1>3. CASE \E e \in FindQueue(name) : OpenReturns(p, e)
  BY <1>2, <1>3, FoundIsEntry, ReturnsEntry
<1>4. CASE OpenReturns(p, NoEntry)
  BY <1>2, <1>4, ReturnsEntry
<1>5. CASE /\ opencall' = [opencall EXCEPT ![p] = [name |-> name, create |-> TRUE]]
           /\ openpc' = [openpc EXCEPT ![p] = "create"]
           /\ UNCHANGED handle
  <2>1. [name |-> name, create |-> TRUE] \in [name : QueueNames \union {"none"}, create : BOOLEAN]
    OBVIOUS
  <2>2. /\ openpc' \in [Openers -> {"idle", "create"}]
        /\ opencall' \in [Openers -> [name : QueueNames \union {"none"}, create : BOOLEAN]]
    BY <1>5, <2>1 DEF NamesInv
  <2>3. \A q \in Openers : openpc'[q] = "create" => opencall'[q].name \in QueueNames
    BY <1>5 DEF NamesInv
  <2> QED BY <1>2, <1>5, <2>2, <2>3, Zenon DEF NamesInv, QueueEntry, NoEntry
<1> QED BY <1>1, <1>3, <1>4, <1>5

\* What push() leaves of a vector: its elements, and the new one behind them.
LEMMA Appended ==
  ASSUME NEW S, NEW s \in Seq(S), NEW e \in S
  PROVE  /\ Append(s, e) \in Seq(S) /\ Len(Append(s, e)) = Len(s) + 1
         /\ Len(s) \in Nat /\ Append(s, e)[Len(s) + 1] = e
         /\ \A i \in 1 .. Len(s) : Append(s, e)[i] = s[i]
OBVIOUS

LEMMA MqCreateStep ==
  ASSUME NamesInv, NEW p \in Openers, MqCreate(p)
  PROVE  NamesInv'
<1>1. opencall[p].name \in QueueNames /\ UNCHANGED unlinked
  BY DEF NamesInv, MqCreate
<1>2. CASE \E e \in FindQueue(opencall[p].name) : OpenReturns(p, e) /\ UNCHANGED <<list, created>>
  BY <1>1, <1>2, FoundIsEntry, ReturnsEntry
<1>3. CASE /\ FindQueue(opencall[p].name) = {} /\ created < MaxQueues
           /\ LET e == [name |-> opencall[p].name, mq |-> created + 1]
              IN  list' = Append(list, e) /\ OpenReturns(p, e)
           /\ created' = created + 1
  <2>1. PICK e : e = [name |-> opencall[p].name, mq |-> created + 1]
    BY Zenon
  <2>2. /\ list' = Append(list, e) /\ handle' = [handle EXCEPT ![p] = e]
        /\ opencall' = [opencall EXCEPT ![p] = NoOpen]
        /\ openpc' = [openpc EXCEPT ![p] = "idle"]
    BY <1>3, <2>1 DEF OpenReturns
  <2>3. e \in QueueEntry /\ e.name = opencall[p].name /\ created' \in Nat
    <3>1. created \in Nat /\ created' = created + 1
      BY <1>3, Zenon DEF NamesInv
    <3>2. created + 1 \in Nat
      BY <3>1
    <3>3. e \in QueueEntry /\ e.name = opencall[p].name
      BY <1>1, <2>1, <3>2 DEF QueueEntry
    <3> QED BY <3>1, <3>2, <3>3, Zenon
  <2>4. \A i \in 1 .. Len(list) : list[i].name # e.name
    <3> SUFFICES ASSUME NEW i \in 1 .. Len(list), list[i].name = e.name PROVE FALSE
      OBVIOUS
    <3>1. i \in Positions(e.name)
      <4>1. Len(list) \in Nat
        BY DEF NamesInv
      <4>2. \A k \in 1 .. i - 1 : k \in 1 .. Len(list) /\ k # i
        BY <4>1
      <4> QED BY <4>2, Zenon DEF Positions, NamesInv
    <3> QED BY <1>3, <2>3, <3>1, Zenon DEF FindQueue
  <2>5. /\ list' \in Seq(QueueEntry) /\ Len(list') = Len(list) + 1 /\ Len(list) \in Nat
        /\ list'[Len(list) + 1] = e
        /\ \A i \in 1 .. Len(list) : list'[i] = list[i]
    <3>1. list \in Seq(QueueEntry) /\ e \in QueueEntry /\ list' = Append(list, e)
      BY <2>2, <2>3, Zenon DEF NamesInv
    <3>2. /\ Append(list, e) \in Seq(QueueEntry) /\ Len(Append(list, e)) = Len(list) + 1
          /\ Len(list) \in Nat /\ Append(list, e)[Len(list) + 1] = e
          /\ \A i \in 1 .. Len(list) : Append(list, e)[i] = list[i]
      BY ONLY <3>1, Appended
    <3> QED BY <3>1, <3>2, Zenon
  <2>6. \A i, j \in 1 .. Len(list') : list'[i].name = list'[j].name => i = j
    <3>1. \A i \in 1 .. Len(list') : i \in 1 .. Len(list) \/ i = Len(list) + 1
      BY <2>5
    <3> QED BY <2>4, <2>5, <3>1 DEF NamesInv
  <2>7. NoOpen \in [name : QueueNames \union {"none"}, create : BOOLEAN]
    BY DEF NoOpen
  <2>8. /\ openpc' \in [Openers -> {"idle", "create"}]
        /\ opencall' \in [Openers -> [name : QueueNames \union {"none"}, create : BOOLEAN]]
        /\ handle' \in [Openers -> QueueEntry \union {NoEntry}]
    BY <2>2, <2>3, <2>7, Zenon DEF NamesInv
  <2>9. \A q \in Openers : openpc'[q] = "create" => opencall'[q].name \in QueueNames
    BY <2>2 DEF NamesInv
  <2>10. \A q \in Openers : \/ handle'[q] = NoEntry
                            \/ handle'[q].mq \in unlinked'
                            \/ \E i \in 1 .. Len(list') : list'[i] = handle'[q]
    <3> SUFFICES ASSUME NEW q \in Openers, handle'[q] # NoEntry, handle'[q].mq \notin unlinked
                 PROVE  \E i \in 1 .. Len(list') : list'[i] = handle'[q]
      BY <1>1
    <3>1. CASE q = p
      <4>1. handle'[q] = e /\ Len(list) + 1 \in 1 .. Len(list')
        BY <2>2, <2>5, <3>1 DEF NamesInv
      <4> QED BY <2>5, <4>1
    <3>2. CASE q # p
      <4>1. handle'[q] = handle[q]
        BY <2>2, <3>2 DEF NamesInv
      <4>2. PICK i \in 1 .. Len(list) : list[i] = handle[q]
        BY <4>1 DEF NamesInv
      <4>3. i \in 1 .. Len(list')
        BY <2>5
      <4> QED BY <2>5, <4>1, <4>2, <4>3
    <3> QED BY <3>1, <3>2, Zenon
  <2> QED BY <2>3, <2>5, <2>6, <2>8, <2>9, <2>10, Zenon DEF NamesInv, QueueEntry, NoEntry
<1> QED BY <1>2, <1>3, Zenon DEF MqCreate

LEMMA MqUnlinkStep ==
  ASSUME NamesInv, NEW p \in Openers, MqUnlink(p)
  PROVE  NamesInv'
<1>1. PICK i : /\ \E name \in QueueNames : i \in Positions(name)
               /\ list' = SubSeq(list, 1, i - 1) \o SubSeq(list, i + 1, Len(list))
               /\ unlinked' = unlinked \union {list[i].mq}
  BY Zenon DEF MqUnlink
<1>2. UNCHANGED <<created, opencall, openpc, handle>>
  BY DEF MqUnlink
<1>3. i \in 1 .. Len(list) /\ list \in Seq(QueueEntry) /\ Len(list) \in Nat
  <2>1. i \in 1 .. Len(list) /\ list \in Seq(QueueEntry)
    BY <1>1, Zenon DEF Positions, NamesInv
  <2> QED BY <2>1
<1>4. /\ list' \in Seq(QueueEntry) /\ Len(list') = Len(list) - 1
      /\ \A j \in 1 .. Len(list') : list'[j] = list[IF j < i THEN j ELSE j + 1]
  BY <1>1, <1>3, WithoutPlace, Zenon
<1>5. \A j, k \in 1 .. Len(list') : list'[j].name = list'[k].name => j = k
  <2> SUFFICES ASSUME NEW j \in 1 .. Len(list'), NEW k \in 1 .. Len(list'),
                      list'[j].name = list'[k].name
               PROVE  j = k
    OBVIOUS
  <2> DEFINE J == IF j < i THEN j ELSE j + 1
             K == IF k < i THEN k ELSE k + 1
  <2>1. J \in 1 .. Len(list) /\ K \in 1 .. Len(list)
    BY <1>3, <1>4
  <2>2. list[J].name = list[K].name
    BY <1>4
  <2>3. J = K
    BY <2>1, <2>2 DEF NamesInv
  <2> QED BY <1>3, <1>4, <2>3
<1>6. \A q \in Openers : \/ handle'[q] = NoEntry
                         \/ handle'[q].mq \in unlinked'
                         \/ \E j \in 1 .. Len(list') : list'[j] = handle'[q]
  <2> SUFFICES ASSUME NEW q \in Openers, handle[q] # NoEntry, handle[q].mq \notin unlinked'
               PROVE  \E j \in 1 .. Len(list') : list'[j] = handle[q]
    BY <1>2, Zenon
  <2>1. PICK k \in 1 .. Len(list) : list[k] = handle[q]
    BY <1>1 DEF NamesInv
  <2>2. k # i
    BY <1>1, <2>1, Zenon
  <2> DEFINE j == IF k < i THEN k ELSE k - 1
  <2>3. j \in 1 .. Len(list') /\ (IF j < i THEN j ELSE j + 1) = k
    BY <1>3, <1>4, <2>2
  <2> QED BY <1>4, <2>1, <2>3
<1> QED BY <1>2, <1>4, <1>5, <1>6, Zenon DEF NamesInv, QueueEntry, NoEntry

\* Two threads that opened one name have the same queue as long as the name has
\* not been unlinked, for any number of threads and names.
THEOREM OneQueuePerName == NamesSpec => []SameNameSameQueue
<1>1. NamesInit => NamesInv
  <2> SUFFICES ASSUME NamesInit PROVE NamesInv
    OBVIOUS
  <2>1. list \in Seq(QueueEntry) /\ Len(list) = 0 /\ created \in Nat
    BY DEF NamesInit
  <2>2. NoOpen \in [name : QueueNames \union {"none"}, create : BOOLEAN]
    BY DEF NoOpen
  <2> QED BY <2>1, <2>2 DEF NamesInit, NamesInv
<1>2. NamesInv /\ [NamesNext]_namesVars => NamesInv'
  <2> SUFFICES ASSUME NamesInv, [NamesNext]_namesVars PROVE NamesInv'
    OBVIOUS
  <2>1. CASE \E p \in Openers : MqOpen(p) \/ MqCreate(p) \/ MqUnlink(p)
    BY <2>1, MqOpenStep, MqCreateStep, MqUnlinkStep
  <2>2. CASE UNCHANGED namesVars
    BY <2>2, Zenon DEF NamesInv, namesVars, QueueEntry, NoEntry
  <2> QED BY <2>1, <2>2 DEF NamesNext
<1>3. NamesInv => SameNameSameQueue
  <2> SUFFICES ASSUME NamesInv, NEW p \in Openers, NEW q \in Openers,
                      handle[p].name = handle[q].name,
                      {handle[p].mq, handle[q].mq} \cap unlinked = {}
               PROVE  handle[p].mq = handle[q].mq
    BY DEF SameNameSameQueue
  <2>1. CASE handle[p] = NoEntry \/ handle[q] = NoEntry
    <3>1. \A r \in Openers : handle[r].name = "none" => handle[r] = NoEntry
      BY NamesAssumption DEF NamesInv, QueueEntry
    <3> QED BY <2>1, <3>1 DEF NoEntry
  <2>2. CASE handle[p] # NoEntry /\ handle[q] # NoEntry
    <3>1. PICK i \in 1 .. Len(list) : list[i] = handle[p]
      BY <2>2 DEF NamesInv
    <3>2. PICK j \in 1 .. Len(list) : list[j] = handle[q]
      BY <2>2 DEF NamesInv
    <3>3. i = j
      BY <3>1, <3>2 DEF NamesInv
    <3> QED BY <3>1, <3>2, <3>3
  <2> QED BY <2>1, <2>2
<1> QED BY <1>1, <1>2, <1>3, PTL DEF NamesSpec
=============================================================================
