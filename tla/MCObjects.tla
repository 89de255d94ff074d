------------------------------ MODULE MCObjects -----------------------------
(***************************************************************************)
(* What threads share above the locks, each by itself: the tree of files   *)
(* with its mounts, the descriptor table, block devices and their nodes,   *)
(* the priority queue, the names of queues, RCU and the log.  The initial  *)
(* state picks one, and the others stay untouched.                         *)
(***************************************************************************)
EXTENDS Vfs, FileTable, MessageQueue, MessageQueueRegistry, Rcu, TLC

CONSTANTS DevThreads, Disks, BlockCount, BlockSize, ReadOnly, MaxDevices,
          CPUs, SIZE, HEADER, Lengths, MaxEntries

\* The state of the devices or of the log: s1 is the first variable its module
\* declares, and so on; what is not needed is None.
VARIABLES subject, s1, s2, s3, s4, s5, s6, s7, s8, s9, s10

NameLengths == "a" :> 1 @@ "b" :> 4
Given == {<<>>, <<"a">>, <<"a", "b">>, <<"b", "..", "a">>}
MountedAt == {<<"a">>, <<"b">>, <<"a", "b">>}
UsedFlags == {[readable |-> TRUE, writable |-> TRUE, append |-> FALSE],
              [readable |-> FALSE, writable |-> TRUE, append |-> TRUE]}
Blocks == [d |-> 2, e |-> 1]

D == INSTANCE Devices WITH
       Threads <- DevThreads, devices <- s1, devfs <- s2, disk <- s3, pc <- s4,
       call <- s5, block_buf <- s6, intended <- s7, clash <- s8
L == INSTANCE LogRing WITH
       initialized <- s1, level <- s2, in_progress <- s3, buffer <- s4,
       write_pos <- s5, total_written <- s6, holder <- s7, pc <- s8, msg <- s9,
       log_ <- s10

above8 == <<s9, s10>>
shared == <<s1, s2, s3, s4, s5, s6, s7, s8, above8>>
Free8 == s9 = None /\ s10 = None

MCInit ==
  /\ VfsInit /\ FileInit /\ QueueInit /\ NamesInit /\ RcuInit
  /\ \/ subject \in {"registration", "writing"} /\ D!Init /\ Free8
     \/ subject = "log" /\ L!Init
     \/ /\ subject \in {"vfs", "files", "queue", "names", "rcu"}
        /\ s1 = None /\ s2 = None /\ s3 = None /\ s4 = None
        /\ s5 = None /\ s6 = None /\ s7 = None /\ s8 = None /\ Free8
  /\ subject # "rcu" => used = "cell"

\* The registry of devices and the writing of a node are taken apart: a node
\* is written whatever the registry does.
SharedNext ==
  \/ subject = "registration" /\ D!Registration /\ UNCHANGED above8
  \/ subject = "writing" /\ D!Writing /\ UNCHANGED above8
  \/ subject = "log" /\ L!Next

MCNext ==
  /\ UNCHANGED subject
  /\ \/ /\ subject = "vfs" /\ VfsNext
        /\ UNCHANGED <<fileVars, queueVars, namesVars, rcuVars, shared>>
     \/ /\ subject = "files" /\ FileNext
        /\ UNCHANGED <<vfsVars, queueVars, namesVars, rcuVars, shared>>
     \/ /\ subject = "queue" /\ QueueNext
        /\ UNCHANGED <<vfsVars, fileVars, namesVars, rcuVars, shared>>
     \/ /\ subject = "names" /\ NamesNext
        /\ UNCHANGED <<vfsVars, fileVars, queueVars, rcuVars, shared>>
     \/ /\ subject = "rcu" /\ RcuNext
        /\ UNCHANGED <<vfsVars, fileVars, queueVars, namesVars, shared>>
     \/ SharedNext /\ UNCHANGED <<vfsVars, fileVars, queueVars, namesVars, rcuVars>>

MCSpec ==
  MCInit /\ [][MCNext]_<<subject, vfsVars, fileVars, queueVars, namesVars, rcuVars, shared>>

\* The node of a block device is a flat file, and the name leads to the device
\* registered first: see Devices.
NodeIsFlat ==
  /\ subject = "writing" => D!NodeIsFlat
  /\ subject = "registration" => D!NodeIsDevice

\* dmesg prints what was logged, and log() never waits for itself: see LogRing.
LogSound == subject = "log" => L!LogSound
=============================================================================
