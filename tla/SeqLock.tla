------------------------------ MODULE SeqLock ------------------------------
(***************************************************************************)
(* The sequence lock of src/src/sync/seqlock.rs holding a TimeSpec, that   *)
(* is TimeSeqLock: get_time() copies two words without a lock and retries, *)
(* set_time() and update_time() write under a spinlock.  Every load and    *)
(* store is one step.                                                      *)
(***************************************************************************)
EXTENDS Integers, Sequences

CONSTANTS SeqThreads,   \* readers and writers
          NSEC,     \* nanoseconds in a second: 10^9 in the code
          MaxSec,   \* bound: the latest second set_time() is called with
          MaxSeq    \* bound: no write begins past this sequence number

None == "none"

ASSUME SeqAssumption ==
  NSEC \in Nat \ {0} /\ MaxSec \in Nat /\ None \notin SeqThreads

VARIABLES
  sequence,   \* odd while a writer is inside
  write_lock, \* holder of the spinlock between writers, or None
  sec, nsec,  \* the two words of the data
  seqpc,      \* where each thread is
  seq1,       \* the sequence number a reader started from
  time,       \* the copy of a reader, or the value a writer is to store
  versions    \* history: the value stable at sequence number 2 * (i - 1)

seqVars == <<sequence, write_lock, sec, nsec, seqpc, seq1, time, versions>>

SetTimes == [sec : 0 .. MaxSec, nsec : 0 .. NSEC - 1]
Zero == [sec |-> 0, nsec |-> 0]

SeqInit ==
  /\ sequence = 0 /\ write_lock = None
  /\ sec = 0 /\ nsec = 0
  /\ seqpc = [p \in SeqThreads |-> "idle"]
  /\ seq1 = [p \in SeqThreads |-> 0]
  /\ time = [p \in SeqThreads |-> Zero]
  /\ versions = <<Zero>>

SeqGoto(p, l) == seqpc' = [seqpc EXCEPT ![p] = l]
Data == <<sec, nsec, versions>>

-----------------------------------------------------------------------------
(* read(), called by get_time() *)

\* read_begin(): an odd number sends the reader round again.
ReadBegin(p) ==
  /\ seqpc[p] = "idle"
  /\ sequence % 2 = 0
  /\ SeqGoto(p, "copy_sec")
  /\ seq1' = [seq1 EXCEPT ![p] = sequence]
  /\ UNCHANGED <<sequence, write_lock, time, Data>>

CopySec(p) ==
  /\ seqpc[p] = "copy_sec"
  /\ SeqGoto(p, "copy_nsec")
  /\ time' = [time EXCEPT ![p].sec = sec]
  /\ UNCHANGED <<sequence, write_lock, seq1, Data>>

CopyNsec(p) ==
  /\ seqpc[p] = "copy_nsec"
  /\ SeqGoto(p, "validate")
  /\ time' = [time EXCEPT ![p].nsec = nsec]
  /\ UNCHANGED <<sequence, write_lock, seq1, Data>>

ReadValidate_NotOdd(p) ==
  /\ seqpc[p] = "validate"
  /\ SeqGoto(p, IF sequence % 2 = 0 THEN "returned" ELSE "idle")
  /\ UNCHANGED <<sequence, write_lock, seq1, time, Data>>

\* read_validate(): the copy is returned only if nobody wrote meanwhile.
ReadValidate(p) ==
  /\ seqpc[p] = "validate"
  /\ SeqGoto(p, IF sequence = seq1[p] THEN "returned" ELSE "idle")
  /\ UNCHANGED <<sequence, write_lock, seq1, time, Data>>

\* The caller is done with the value it got.
Forget(p) ==
  /\ seqpc[p] = "returned"
  /\ SeqGoto(p, "idle")
  /\ seq1' = [seq1 EXCEPT ![p] = 0]
  /\ time' = [time EXCEPT ![p] = Zero]
  /\ UNCHANGED <<sequence, write_lock, Data>>

-----------------------------------------------------------------------------
(* write() and write_guard() *)

\* set_time() takes the spinlock for a given value; update_time() takes it
\* twice, first through write_guard() to read the time and then through
\* write() to store it.
LockFor(p, from, to) ==
  /\ seqpc[p] = from /\ write_lock = None
  /\ write_lock' = p
  /\ SeqGoto(p, to)

SetTime(p) ==
  /\ sequence + 2 <= MaxSeq
  /\ LockFor(p, "idle", "w_begin")
  /\ \E v \in SetTimes : time' = [time EXCEPT ![p] = v]
  /\ UNCHANGED <<sequence, seq1, Data>>

UpdateTime(p) ==
  /\ sequence + 4 <= MaxSeq
  /\ LockFor(p, "idle", "u_begin")
  /\ UNCHANGED <<sequence, seq1, time, Data>>

UpdateWrite(p) ==
  /\ LockFor(p, "u_write", "w_begin")
  /\ UNCHANGED <<sequence, seq1, time, Data>>

\* write_begin() makes the number odd.
WriteBegin(p) ==
  /\ seqpc[p] \in {"w_begin", "u_begin"}
  /\ sequence' = sequence + 1
  /\ SeqGoto(p, IF seqpc[p] = "w_begin" THEN "store_sec" ELSE "u_read")
  /\ UNCHANGED <<write_lock, seq1, time, Data>>

StoreSec(p) ==
  /\ seqpc[p] = "store_sec"
  /\ sec' = time[p].sec
  /\ SeqGoto(p, "store_nsec")
  /\ UNCHANGED <<sequence, write_lock, seq1, time, nsec, versions>>

StoreNsec(p) ==
  /\ seqpc[p] = "store_nsec"
  /\ nsec' = time[p].nsec
  /\ SeqGoto(p, "w_end")
  /\ UNCHANGED <<sequence, write_lock, seq1, time, sec, versions>>

\* update_time() adds to the time it reads and carries into the seconds; the
\* guard's data is not written.
UpdateRead(p) ==
  /\ seqpc[p] = "u_read"
  /\ \E add \in 0 .. NSEC :
       time' = [time EXCEPT ![p] = [sec |-> sec + (nsec + add) \div NSEC,
                                    nsec |-> (nsec + add) % NSEC]]
  /\ SeqGoto(p, "u_end")
  /\ UNCHANGED <<sequence, write_lock, seq1, Data>>

\* write_end() makes it even again; the spinlock goes after it.
WriteEnd(p) ==
  /\ seqpc[p] \in {"w_end", "u_end"}
  /\ sequence' = sequence + 1
  /\ SeqGoto(p, IF seqpc[p] = "w_end" THEN "w_unlock" ELSE "u_unlock")
  /\ versions' = Append(versions, [sec |-> sec, nsec |-> nsec])
  /\ UNCHANGED <<write_lock, seq1, time, sec, nsec>>

SeqUnlock(p) ==
  /\ seqpc[p] \in {"w_unlock", "u_unlock"}
  /\ write_lock' = None
  /\ IF seqpc[p] = "w_unlock"
     THEN SeqGoto(p, "idle") /\ time' = [time EXCEPT ![p] = Zero]
     ELSE SeqGoto(p, "u_write") /\ UNCHANGED time
  /\ UNCHANGED <<sequence, seq1, Data>>

SeqStep(p) ==
  \/ ReadBegin(p) \/ CopySec(p) \/ CopyNsec(p) \/ ReadValidate(p) \/ Forget(p)
  \/ SetTime(p) \/ UpdateTime(p) \/ UpdateWrite(p) \/ WriteBegin(p)
  \/ StoreSec(p) \/ StoreNsec(p) \/ UpdateRead(p) \/ WriteEnd(p) \/ SeqUnlock(p)

SeqNext == \E p \in SeqThreads : SeqStep(p)

SeqSpec == SeqInit /\ [][SeqNext]_seqVars

-----------------------------------------------------------------------------
\* read() never returns a torn value: what get_time() hands out is the time
\* that was stable at the sequence number it started from, although its two
\* words were copied without a lock while writers came and went.
NoTornRead ==
  \A p \in SeqThreads :
    seqpc[p] = "returned" => time[p] = versions[seq1[p] \div 2 + 1]

=============================================================================
