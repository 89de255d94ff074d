------------------------------- MODULE LogRing ------------------------------
(***************************************************************************)
(* The kernel log of src/src/log: log(), its per-CPU guard against         *)
(* recursion, the ring buffer and dump_logs().  Each CPU runs a thread,    *)
(* and interrupt handlers on top of it, which log as well.  An entry is a  *)
(* header of HEADER cells, the first of which has the length, and a        *)
(* message; every cell remembers the entry it belongs to.  Text read as a  *)
(* length is more than half the buffer.                                    *)
(***************************************************************************)
EXTENDS Integers, Sequences, SequencesExt

CONSTANTS
  CPUs,
  SIZE,       \* RING_BUFFER_SIZE
  HEADER,     \* ENTRY_HEADER_SIZE
  Lengths,    \* lengths of messages
  MaxEntries  \* bound on the entries that are appended

VARIABLES
  initialized, level, \* INITIALIZED, CURRENT_LOG_LEVEL
  in_progress,        \* the CPUs whose LOGGING_IN_PROGRESS is set
  buffer, write_pos, total_written,
  holder,             \* the context that holds RING_BUFFER, {} if none
  pc, msg,            \* msg: length of the message at hand
  log_                \* history: the entries appended, by length

vars == <<initialized, level, in_progress, buffer, write_pos, total_written,
          holder, pc, msg, log_>>
ring == <<buffer, write_pos, total_written>>

Contexts == CPUs \X {"thread", "handler"}
Cpu(c) == c[1]
Levels == 0 .. 1

Init ==
  /\ initialized = FALSE /\ level = 0
  /\ in_progress = {}
  /\ buffer = [i \in 0 .. SIZE - 1 |-> [entry |-> 0, len |-> 0]]
  /\ write_pos = 0 /\ total_written = 0
  /\ holder = {}
  /\ pc = [c \in Contexts |-> "idle"]
  /\ msg = [c \in Contexts |-> 0]
  /\ log_ = <<>>

\* A thread makes no step while a handler runs on its CPU.
At(c, label) == pc[c] = label /\ (c[2] = "handler" \/ pc[<<Cpu(c), "handler">>] = "idle")
Goto(c, label) == pc' = [pc EXCEPT ![c] = label]

-----------------------------------------------------------------------------
(* log() *)

init ==
  /\ ~initialized /\ initialized' = TRUE
  /\ UNCHANGED <<level, in_progress, ring, holder, pc, msg, log_>>

set_log_level(l) ==
  /\ level' = l
  /\ UNCHANGED <<initialized, in_progress, ring, holder, pc, msg, log_>>

\* Before init() and above the level nothing is logged.  A handler starts only
\* with a call of log(): nothing else of it matters here.
log_Unguarded(c, l, n) ==
  /\ At(c, "idle")
  /\ initialized /\ l <= level
  /\ in_progress' = in_progress \union {Cpu(c)}
  /\ Goto(c, "append")
  /\ msg' = [msg EXCEPT ![c] = n]
  /\ UNCHANGED <<initialized, level, ring, holder, log_>>

\* The swap of the flag: a CPU that is logging ignores a second call.
log(c, l, n) ==
  /\ At(c, "idle")
  /\ initialized /\ l <= level
  /\ Cpu(c) \notin in_progress
  /\ in_progress' = in_progress \union {Cpu(c)}
  /\ Goto(c, "append")
  /\ msg' = [msg EXCEPT ![c] = n]
  /\ UNCHANGED <<initialized, level, ring, holder, log_>>

\* RING_BUFFER.lock(), of append() and of dump_logs().
Lock(c) ==
  /\ At(c, "append") \/ At(c, "dump")
  /\ IF holder = {}
     THEN holder' = {c} /\ Goto(c, IF pc[c] = "append" THEN "write" ELSE "print")
     ELSE UNCHANGED <<holder, pc>>
  /\ UNCHANGED <<initialized, level, in_progress, ring, msg, log_>>

\* The cells of an entry of n cells, written from write_pos on.
write_bytes(id, n) ==
  [i \in 0 .. SIZE - 1 |->
     LET k == (i - write_pos) % SIZE
     IN  IF k < n THEN [entry |-> id, len |-> IF k = 0 THEN n ELSE SIZE] ELSE buffer[i]]

\* append(): an entry longer than half the buffer is dropped.
append(c) ==
  /\ At(c, "write")
  /\ LET total_len == HEADER + msg[c]
     IN  IF total_len > SIZE \div 2 THEN UNCHANGED <<ring, log_>>
         ELSE /\ buffer' = write_bytes(Len(log_) + 1, total_len)
              /\ write_pos' = (write_pos + total_len) % SIZE
              /\ total_written' = total_written + total_len
              /\ log_' = Append(log_, total_len)
  /\ holder' = {}
  /\ Goto(c, "clear")
  /\ UNCHANGED <<initialized, level, in_progress, msg>>

\* The end of log().
ClearFlag(c) ==
  /\ At(c, "clear")
  /\ in_progress' = in_progress \ {Cpu(c)}
  /\ Goto(c, "idle")
  /\ msg' = [msg EXCEPT ![c] = 0]
  /\ UNCHANGED <<initialized, level, ring, holder, log_>>

-----------------------------------------------------------------------------
(* dump_logs(), which a thread calls for dmesg *)

has_wrapped == total_written > SIZE
data_start == IF has_wrapped THEN write_pos ELSE 0
data_len == IF has_wrapped THEN SIZE ELSE write_pos

\* The entries printed from an offset on; it ends at the first length that
\* is not one.
Printed[offset \in 0 .. SIZE] ==
  IF offset + HEADER > data_len THEN <<>>
  ELSE LET cell == buffer[(data_start + offset) % SIZE]
       IN  IF cell.len < HEADER \/ cell.len > SIZE \div 2 \/ offset + cell.len > data_len
           THEN <<>>
           ELSE <<cell.entry>> \o Printed[offset + cell.len]

Dump == Printed[0]

dump_logs(cpu) ==
  /\ At(<<cpu, "thread">>, "idle")
  /\ Goto(<<cpu, "thread">>, "dump")
  /\ UNCHANGED <<initialized, level, in_progress, ring, holder, msg, log_>>

\* It prints Dump with the lock held.
DumpEnd(c) ==
  /\ At(c, "print")
  /\ holder' = {}
  /\ Goto(c, "idle")
  /\ UNCHANGED <<initialized, level, in_progress, ring, msg, log_>>

Next ==
  \/ init
  \/ \E l \in Levels : set_log_level(l)
  \/ \E cpu \in CPUs : dump_logs(cpu)
  \/ \E c \in Contexts :
       \/ Lock(c) \/ append(c) \/ ClearFlag(c) \/ DumpEnd(c)
       \/ Len(log_) < MaxEntries /\ \E l \in Levels, n \in Lengths : log(c, l, n)

Spec == Init /\ [][Next]_vars

-----------------------------------------------------------------------------
(* Properties *)

WaitsForItself(cpu) ==
  /\ pc[<<cpu, "handler">>] = "append"
  /\ <<cpu, "thread">> \in holder

\* As long as the buffer has not been filled, dmesg prints every entry, in
\* order; and a handler that interrupts log() never waits for the buffer's lock
\* that log() holds below it, because the second call is ignored.
LogSound ==
  /\ total_written < SIZE => Dump = [i \in DOMAIN log_ |-> i]
  /\ \A cpu \in CPUs : WaitsForItself(cpu) => pc[<<cpu, "thread">>] = "print"

\* "Spinlock: 링 버퍼 접근 보호 (IRQ 컨텍스트에서도 안전)" (docs/log.md): a
\* handler that logs never waits for the thread it interrupted.
SafeInInterrupts == \A cpu \in CPUs : ~WaitsForItself(cpu)

\* "커널 링 버퍼에 저장된 모든 로그 메시지를 시간순으로 출력합니다"
\* (docs/log.md): dmesg prints, in order, all messages that are still whole in
\* the buffer.
Kept == {i \in DOMAIN log_ :
           FoldLeft(LAMBDA a, n : a + n, 0, SubSeq(log_, i, Len(log_))) <= SIZE}
DumpComplete == \A i \in Kept : i \in Range(Dump)
=============================================================================
